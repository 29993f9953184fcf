------------------------ MODULE TournamentBracketProofs ------------------------
(***************************************************************************)
(* Theorems about brackets, for any number of contestants and workers and  *)
(* any formats.  The rules of brackets are computed by recursive           *)
(* functions; what is proved about them rests on induction in the form     *)
(* that a set with 0 and all successors has all natural numbers.           *)
(***************************************************************************)
EXTENDS TournamentBracketHistory, FiniteSetTheorems, FunctionTheorems,
        WellFoundedInduction, TLAPS

-----------------------------------------------------------------------------
(* Induction and recursion *)

\* A set of numbers has a least one.
LEMMA Least ==
  ASSUME NEW T \in SUBSET Nat, T # {}
  PROVE  \E x \in T : \A y \in T : x <= y
<1>1. PICK x \in T : \A y \in T : ~ (<<y, x>> \in OpToRel(<, Nat))
  BY NatLessThanWellFounded, WFMin
<1>2. ASSUME NEW y \in T, ~(x <= y) PROVE FALSE
  <2>1. y < x /\ <<y, x>> \in Nat \X Nat
    BY <1>2
  <2>2. <<y, x>> \in OpToRel(<, Nat)
    BY <2>1 DEF OpToRel
  <2> QED
    BY <1>1, <2>2
<1> QED
  BY <1>2

LEMMA Induction ==
  ASSUME NEW S, 0 \in S, \A n \in Nat : n \in S => n + 1 \in S
  PROVE  Nat \subseteq S
<1> SUFFICES ASSUME NEW n \in Nat, n \notin S PROVE FALSE
  OBVIOUS
<1> DEFINE T == {k \in Nat : k \notin S}
<1>1. PICK x \in T : \A y \in T : x <= y
  BY Least
<1>2. x # 0 /\ x - 1 \in Nat /\ x - 1 \notin T
  BY <1>1
<1>3. x - 1 \in S /\ (x - 1) + 1 = x
  BY <1>2
<1> QED
  BY <1>3, <1>1

\* What a recursive definition over the numbers defines.
Unfolds(f, a, step) == f = [n \in Nat |-> IF n = 0 THEN a ELSE step[<<n, f[n - 1]>>]]

\* A recursive function whose values stay in a set exists.
LEMMA Iterated ==
  ASSUME NEW A, NEW a \in A, NEW step \in [Nat \X A -> A]
  PROVE  \E f \in [Nat -> A] : Unfolds(f, a, step)
<1> DEFINE Starts(g, n) == /\ g \in [0..n -> A] /\ g[0] = a
                           /\ \A i \in 1..n : g[i] = step[<<i, g[i - 1]>>]
           Some == {n \in Nat : \E g \in [0..n -> A] : Starts(g, n)}
<1>1. Nat \subseteq Some
  <2>1. 0 \in Some
    <3>1. Starts([i \in 0..0 |-> a], 0)
      OBVIOUS
    <3> QED
      BY <3>1
  <2>2. ASSUME NEW n \in Nat, n \in Some PROVE n + 1 \in Some
    <3>1. PICK g \in [0..n -> A] : Starts(g, n)
      BY <2>2
    <3> DEFINE h == [i \in 0..(n + 1) |-> IF i = n + 1 THEN step[<<n + 1, g[n]>>] ELSE g[i]]
    <3>2. g[n] \in A /\ step[<<n + 1, g[n]>>] \in A
      BY <3>1
    <3>3. h \in [0..(n + 1) -> A]
      BY <3>1, <3>2
    <3>4. h[0] = a
      BY <3>1
    <3>5. ASSUME NEW i \in 1..(n + 1) PROVE h[i] = step[<<i, h[i - 1]>>]
      <4>1. i - 1 \in 0..n /\ h[i - 1] = g[i - 1]
        OBVIOUS
      <4>2. CASE i = n + 1
        <5>1. h[i] = step[<<n + 1, g[n]>>] /\ i - 1 = n
          BY <4>2
        <5> QED
          BY <4>1, <4>2, <5>1
      <4>3. CASE i \in 1..n
        <5>1. h[i] = g[i] /\ g[i] = step[<<i, g[i - 1]>>]
          BY <4>3, <3>1
        <5> QED
          BY <4>1, <5>1
      <4> QED
        BY <4>2, <4>3
    <3>6. Starts(h, n + 1)
      <4> HIDE DEF h
      <4> QED
        BY <3>3, <3>4, <3>5
    <3>7. \E k \in [0..(n + 1) -> A] : Starts(k, n + 1)
      <4> HIDE DEF h, Starts
      <4> QED
        BY <3>3, <3>6
    <3> HIDE DEF Starts
    <3> QED
      BY <3>7
  <2> HIDE DEF Some
  <2> QED
    BY <2>1, <2>2, Induction
<1>2. ASSUME NEW m \in Nat, NEW n \in Nat, m <= n,
             NEW g \in [0..m -> A], Starts(g, m), NEW h \in [0..n -> A], Starts(h, n)
      PROVE  g[m] = h[m]
  <2> DEFINE Same == {i \in Nat : i <= m => g[i] = h[i]}
  <2>1. 0 \in Same
    BY <1>2
  <2>2. ASSUME NEW i \in Nat, i \in Same PROVE i + 1 \in Same
    <3> SUFFICES ASSUME i + 1 <= m PROVE g[i + 1] = h[i + 1]
      OBVIOUS
    <3>1. i + 1 \in 1..m /\ i + 1 \in 1..n /\ (i + 1) - 1 = i /\ g[i] = h[i]
      BY <1>2, <2>2
    <3>2. g[i + 1] = step[<<i + 1, g[i]>>] /\ h[i + 1] = step[<<i + 1, h[i]>>]
      BY <3>1, <1>2
    <3> QED
      BY <3>1, <3>2
  <2>3. Nat \subseteq Same
    <3> HIDE DEF Same
    <3> QED
      BY <2>1, <2>2, Induction
  <2> QED
    BY <2>3
<1> DEFINE G(n) == CHOOSE g \in [0..n -> A] : Starts(g, n)
           f == [n \in Nat |-> G(n)[n]]
<1>3. ASSUME NEW n \in Nat PROVE G(n) \in [0..n -> A] /\ Starts(G(n), n)
  <2>1. \E g \in [0..n -> A] : Starts(g, n)
    BY <1>1
  <2> HIDE DEF Starts
  <2> QED
    BY <2>1
<1>4. f \in [Nat -> A]
  <2>1. \A n \in Nat : G(n)[n] \in A
    <3> TAKE n \in Nat
    <3>1. G(n) \in [0..n -> A]
      BY <1>3
    <3> HIDE DEF G
    <3> QED
      BY <3>1
  <2> HIDE DEF G
  <2> QED
    BY <2>1
<1>5. ASSUME NEW n \in Nat PROVE f[n] = IF n = 0 THEN a ELSE step[<<n, f[n - 1]>>]
  <2>1. CASE n = 0
    <3>1. Starts(G(0), 0)
      BY <1>3
    <3> HIDE DEF G
    <3> QED
      BY <2>1, <3>1
  <2>2. CASE n # 0
    <3>1. n - 1 \in Nat /\ n \in 1..n
      BY <2>2
    <3>2. G(n) \in [0..n -> A] /\ Starts(G(n), n)
      BY <1>3
    <3>3. G(n - 1) \in [0..(n - 1) -> A] /\ Starts(G(n - 1), n - 1)
      BY <1>3, <3>1
    <3>4. G(n - 1)[n - 1] = G(n)[n - 1]
      <4> HIDE DEF G, Starts
      <4> QED
        BY <1>2, <3>1, <3>2, <3>3
    <3>5. G(n)[n] = step[<<n, G(n)[n - 1]>>]
      <4> HIDE DEF G
      <4> QED
        BY <3>1, <3>2
    <3> HIDE DEF G
    <3> QED
      BY <2>2, <3>1, <3>4, <3>5
  <2> QED
    BY <2>1, <2>2
<1>6. f = [n \in Nat |-> IF n = 0 THEN a ELSE step[<<n, f[n - 1]>>]]
  <2> HIDE DEF G
  <2>1. \A n \in Nat : f[n] = IF n = 0 THEN a ELSE step[<<n, f[n - 1]>>]
    BY <1>5
  <2> QED
    BY <1>4, <2>1
<1> HIDE DEF f
<1> QED
  BY <1>4, <1>6 DEF Unfolds

-----------------------------------------------------------------------------
(* Powers of two and the order of seeds *)

LEMMA Pow2Type ==
  /\ Pow2 \in [Nat -> Nat]
  /\ Pow2[0] = 1
  /\ \A k \in Nat : Pow2[k + 1] = 2 * Pow2[k]
<1> DEFINE step == [x \in Nat \X Nat |-> 2 * x[2]]
           Rec(f) == f = [k \in Nat |-> IF k = 0 THEN 1 ELSE 2 * f[k - 1]]
<1>1. step \in [Nat \X Nat -> Nat]
  OBVIOUS
<1>2. PICK f \in [Nat -> Nat] : Unfolds(f, 1, step)
  <2> HIDE DEF step
  <2> QED
    BY <1>1, Iterated
<1>3. Rec(f)
  <2>1. ASSUME NEW k \in Nat
        PROVE  f[k] = IF k = 0 THEN 1 ELSE 2 * f[k - 1]
    <3>1. f[k] = IF k = 0 THEN 1 ELSE step[<<k, f[k - 1]>>]
      <4> HIDE DEF step
      <4> QED
        BY <1>2 DEF Unfolds
    <3>2. CASE k # 0
      <4>1. k - 1 \in Nat /\ f[k - 1] \in Nat
        BY <3>2
      <4>2. step[<<k, f[k - 1]>>] = 2 * f[k - 1]
        BY <4>1
      <4> QED
        BY <3>1, <3>2, <4>2
    <3> QED
      BY <3>1, <3>2
  <2> HIDE DEF step
  <2> QED
    BY <2>1
<1>4. Pow2 = CHOOSE g : Rec(g)
  BY DEF Pow2
<1>5. Rec(Pow2)
  <2> HIDE DEF Rec
  <2> QED
    BY <1>3, <1>4
<1>6. Pow2[0] = 1 /\ \A k \in Nat : Pow2[k + 1] = 2 * Pow2[k]
  <2>1. \A k \in Nat : Pow2[k] = IF k = 0 THEN 1 ELSE 2 * Pow2[k - 1]
    BY <1>5
  <2>2. ASSUME NEW k \in Nat PROVE Pow2[k + 1] = 2 * Pow2[k]
    <3>1. k + 1 \in Nat /\ k + 1 # 0 /\ (k + 1) - 1 = k
      OBVIOUS
    <3> QED
      BY <2>1, <3>1
  <2> QED
    BY <2>1, <2>2
<1>7. \A k \in Nat : Pow2[k] \in Nat
  <2> DEFINE S == {k \in Nat : Pow2[k] \in Nat}
  <2>1. 0 \in S /\ \A k \in Nat : k \in S => k + 1 \in S
    BY <1>6
  <2> HIDE DEF S
  <2>2. Nat \subseteq S
    BY <2>1, Induction
  <2> USE DEF S
  <2> QED
    BY <2>2
<1> QED
  BY <1>5, <1>6, <1>7

LEMMA Pow2Grows ==
  ASSUME NEW k \in Nat
  PROVE  /\ Pow2[k] \in Nat \ {0}
         /\ k < Pow2[k]
         /\ k # 0 => Pow2[k] = 2 * Pow2[k - 1]
<1> DEFINE S == {n \in Nat : n < Pow2[n]}
<1>1. 0 \in S /\ \A n \in Nat : n \in S => n + 1 \in S
  BY Pow2Type
<1> HIDE DEF S
<1>2. Nat \subseteq S
  BY <1>1, Induction
<1> USE DEF S
<1>3. k < Pow2[k] /\ Pow2[k] \in Nat
  BY <1>2, Pow2Type
<1>4. ASSUME k # 0 PROVE Pow2[k] = 2 * Pow2[k - 1]
  <2>1. k - 1 \in Nat /\ (k - 1) + 1 = k
    BY <1>4
  <2>2. Pow2[(k - 1) + 1] = 2 * Pow2[k - 1]
    BY <2>1, Pow2Type
  <2> QED
    BY <2>1, <2>2
<1> QED
  BY <1>3, <1>4

LEMMA Pow2Monotone ==
  ASSUME NEW j \in Nat, NEW k \in Nat, j <= k
  PROVE  Pow2[j] <= Pow2[k]
<1> DEFINE S == {n \in Nat : Pow2[j] <= Pow2[j + n]}
<1>1. 0 \in S
  BY Pow2Grows
<1>2. ASSUME NEW n \in Nat, n \in S PROVE n + 1 \in S
  <2>1. Pow2[(j + n) + 1] = 2 * Pow2[j + n] /\ Pow2[j + n] \in Nat /\ Pow2[j] \in Nat
    BY Pow2Type
  <2>2. j + (n + 1) = (j + n) + 1
    OBVIOUS
  <2> QED
    BY <1>2, <2>1, <2>2
<1> HIDE DEF S
<1>3. Nat \subseteq S
  BY <1>1, <1>2, Induction
<1>4. k - j \in S /\ j + (k - j) = k
  BY <1>3
<1> QED
  BY <1>4 DEF S

\* One half of the slots and their order.
Halved(p, half) ==
  [i \in 1..Pow2[p] |-> IF i % 2 = 1 THEN half[(i + 1) \div 2] ELSE Pow2[p] - 1 - half[i \div 2]]

LEMMA HalvedType ==
  ASSUME NEW p \in Nat \ {0}, NEW half \in [1..Pow2[p - 1] -> 0..(Pow2[p - 1] - 1)]
  PROVE  Halved(p, half) \in [1..Pow2[p] -> 0..(Pow2[p] - 1)]
<1>1. Pow2[p] = 2 * Pow2[p - 1] /\ Pow2[p - 1] \in Nat \ {0} /\ p - 1 \in Nat
  BY Pow2Grows
<1>2. ASSUME NEW i \in 1..Pow2[p], i % 2 = 1 PROVE half[(i + 1) \div 2] \in 0..(Pow2[p] - 1)
  <2>1. (i + 1) \div 2 \in 1..Pow2[p - 1]
    BY <1>1, <1>2
  <2>2. half[(i + 1) \div 2] \in 0..(Pow2[p - 1] - 1)
    BY <2>1
  <2> QED
    BY <1>1, <2>2
<1>3. ASSUME NEW i \in 1..Pow2[p], i % 2 # 1
      PROVE  Pow2[p] - 1 - half[i \div 2] \in 0..(Pow2[p] - 1)
  <2>1. i \div 2 \in 1..Pow2[p - 1]
    BY <1>1, <1>3
  <2>2. half[i \div 2] \in 0..(Pow2[p - 1] - 1)
    BY <2>1
  <2> QED
    BY <1>1, <2>2
<1> QED
  BY <1>2, <1>3 DEF Halved

\* The order of seeds gives each slot a seed, and unfolds as it is written.
LEMMA SeedOrderUnfolds ==
  /\ SeedOrder[0] = <<0>>
  /\ \A p \in Nat : /\ SeedOrder[p] \in [1..Pow2[p] -> 0..(Pow2[p] - 1)]
                    /\ p # 0 => SeedOrder[p] = Halved(p, SeedOrder[p - 1])
<1> DEFINE Orders(p) == [1..Pow2[p] -> 0..(Pow2[p] - 1)]
           A == UNION {Orders(p) : p \in Nat}
           step == [x \in Nat \X A |-> IF Halved(x[1], x[2]) \in A THEN Halved(x[1], x[2])
                                       ELSE <<0>>]
           Rec(f) == f = [p \in Nat |->
                            IF p = 0 THEN <<0>>
                            ELSE LET half == f[p - 1]
                                 IN  [i \in 1..Pow2[p] |-> IF i % 2 = 1 THEN half[(i + 1) \div 2]
                                                           ELSE Pow2[p] - 1 - half[i \div 2]]]
<1>1. <<0>> \in Orders(0)
  BY Pow2Type
<1>2. <<0>> \in A
  BY <1>1
<1>3. step \in [Nat \X A -> A]
  <2> HIDE DEF A
  <2> QED
    BY <1>2
<1>4. PICK f \in [Nat -> A] : Unfolds(f, <<0>>, step)
  <2> HIDE DEF A, step
  <2> QED
    BY <1>2, <1>3, Iterated
<1>5. ASSUME NEW p \in Nat
      PROVE  f[p] = IF p = 0 THEN <<0>> ELSE step[<<p, f[p - 1]>>]
  <2> HIDE DEF A, step
  <2> QED
    BY <1>4 DEF Unfolds
<1>6. ASSUME NEW p \in Nat, f[p] \in Orders(p)
      PROVE  f[p + 1] \in Orders(p + 1) /\ f[p + 1] = Halved(p + 1, f[p])
  <2>1. p + 1 \in Nat \ {0} /\ (p + 1) - 1 = p
    OBVIOUS
  <2>2. Halved(p + 1, f[p]) \in Orders(p + 1)
    BY <1>6, <2>1, HalvedType
  <2>3. Halved(p + 1, f[p]) \in A
    <3> HIDE DEF Orders
    <3> QED
      BY <2>1, <2>2
  <2>4. f[p + 1] = step[<<p + 1, f[p]>>]
    <3> HIDE DEF step, A
    <3> QED
      BY <1>5, <2>1
  <2>5. step[<<p + 1, f[p]>>] = Halved(p + 1, f[p])
    <3>1. <<p + 1, f[p]>> \in Nat \X A
      <4> HIDE DEF A
      <4> QED
        BY <2>1, <1>4
    <3> HIDE DEF A
    <3> QED
      BY <2>3, <3>1
  <2> HIDE DEF Orders, step, A
  <2> QED
    BY <2>2, <2>4, <2>5
<1>7. \A p \in Nat : f[p] \in Orders(p)
  <2> DEFINE S == {p \in Nat : f[p] \in Orders(p)}
  <2>1. 0 \in S
    <3>1. f[0] = <<0>>
      <4> HIDE DEF A, step
      <4> QED
        BY <1>5
    <3> QED
      BY <1>1, <3>1
  <2>2. \A p \in Nat : p \in S => p + 1 \in S
    <3> HIDE DEF Orders, A, step
    <3> QED
      BY <1>6
  <2> HIDE DEF S, A, step
  <2>3. Nat \subseteq S
    BY <2>1, <2>2, Induction
  <2> USE DEF S
  <2> QED
    BY <2>3
<1>8. ASSUME NEW p \in Nat, p # 0 PROVE f[p] = Halved(p, f[p - 1])
  <2>1. p - 1 \in Nat /\ (p - 1) + 1 = p
    BY <1>8
  <2>2. f[(p - 1) + 1] = Halved((p - 1) + 1, f[p - 1])
    <3> HIDE DEF Orders, A, step
    <3> QED
      BY <1>6, <1>7, <2>1
  <2> QED
    BY <2>1, <2>2
<1>9. f[0] = <<0>>
  <2> HIDE DEF A, step
  <2> QED
    BY <1>5
<1>10. Rec(f)
  <2>1. f = [p \in Nat |-> f[p]]
    <3> HIDE DEF A, step
    <3> QED
      BY <1>4
  <2>2. \A p \in Nat : f[p] = IF p = 0 THEN <<0>> ELSE Halved(p, f[p - 1])
    <3> HIDE DEF A, step
    <3> QED
      BY <1>8, <1>9
  <2>3. f = [p \in Nat |-> IF p = 0 THEN <<0>> ELSE Halved(p, f[p - 1])]
    <3> HIDE DEF A, step
    <3> QED
      BY <2>1, <2>2
  <2> HIDE DEF A, step
  <2> QED
    BY <2>3 DEF Halved
<1>11. Rec(SeedOrder)
  <2>1. SeedOrder = CHOOSE g : Rec(g)
    BY DEF SeedOrder
  <2> HIDE DEF Rec
  <2> QED
    BY <1>10, <2>1
<1>12. SeedOrder[0] = <<0>> /\ \A p \in Nat : p # 0 => SeedOrder[p] = Halved(p, SeedOrder[p - 1])
  <2> HIDE DEF A, step
  <2> QED
    BY <1>11 DEF Halved
<1>13. \A p \in Nat : SeedOrder[p] \in Orders(p)
  <2> DEFINE S == {p \in Nat : SeedOrder[p] \in Orders(p)}
  <2>1. 0 \in S
    BY <1>1, <1>12
  <2>2. ASSUME NEW p \in Nat, p \in S PROVE p + 1 \in S
    <3>1. p + 1 \in Nat \ {0} /\ (p + 1) - 1 = p
      OBVIOUS
    <3>2. Halved(p + 1, SeedOrder[p]) \in Orders(p + 1)
      BY <2>2, <3>1, HalvedType
    <3>3. SeedOrder[p + 1] = Halved(p + 1, SeedOrder[p])
      <4> HIDE DEF A, step
      <4> QED
        BY <1>12, <3>1
    <3>4. SeedOrder[p + 1] \in Orders(p + 1)
      <4> HIDE DEF Orders
      <4> QED
        BY <3>2, <3>3
    <3> HIDE DEF Orders, A, step
    <3> QED
      BY <3>1, <3>4
  <2> HIDE DEF S
  <2>3. Nat \subseteq S
    BY <2>1, <2>2, Induction
  <2> USE DEF S
  <2> QED
    BY <2>3
<1> QED
  BY <1>12, <1>13

-----------------------------------------------------------------------------
(* The contestants in the order of their seeds *)

LEMMA Listed ==
  ASSUME NEW S, NEW n \in Nat, NEW f \in [1..n -> S]
  PROVE  f \in Seq(S) /\ Len(f) = n
OBVIOUS

Position(c) == Cardinality({d \in Active : Seed[d] < Seed[c]})

\* The list of entries has everybody active once.
LEMMA EntriesComplete ==
  /\ IsFiniteSet(Active)
  /\ Cardinality(Active) \in Nat
  /\ Entries \in [1..Cardinality(Active) -> Active]
  /\ Len(Entries) = Cardinality(Active)
  /\ \A c \in Active : \E k \in 1..Cardinality(Active) : Entries[k] = c
  /\ \A i, j \in 1..Cardinality(Active) : Entries[i] = Entries[j] => i = j
<1> DEFINE n == Cardinality(Active)
           Below(c) == {d \in Active : Seed[d] < Seed[c]}
           place == [c \in Active |-> Position(c) + 1]
<1>1. IsFiniteSet(Active) /\ n \in Nat
  <2>1. Active \in SUBSET Contestants
    BY DEF Active
  <2> QED
    BY <2>1, SeedsDiffer, FS_Subset, FS_CardinalityType
<1>2. \A c \in Active : Seed[c] \in Nat
  BY SeedsDiffer DEF Active
<1>3. ASSUME NEW c \in Active
      PROVE  IsFiniteSet(Below(c)) /\ Position(c) \in 0..(n - 1)
  <2>1. Below(c) \in SUBSET (Active \ {c})
    BY <1>2
  <2>2. IsFiniteSet(Active \ {c}) /\ Cardinality(Active \ {c}) = n - 1
    BY <1>1, FS_RemoveElement
  <2>3. IsFiniteSet(Below(c)) /\ Cardinality(Below(c)) <= n - 1
    BY <2>1, <2>2, FS_Subset
  <2>4. Cardinality(Below(c)) \in Nat
    BY <2>3, FS_CardinalityType
  <2> QED
    BY <1>1, <2>3, <2>4 DEF Position
<1>15. \A c \in Active : Position(c) \in 0..(n - 1)
  <2> HIDE DEF Below, n
  <2> QED
    BY <1>3
<1>16. \A c \in Active : Position(c) \in Nat
  <2> HIDE DEF n
  <2> QED
    BY <1>1, <1>15
<1>4. ASSUME NEW c \in Active, NEW d \in Active, Seed[c] < Seed[d]
      PROVE  Position(c) < Position(d)
  <2>1. Below(c) \cup {c} \in SUBSET Below(d)
    BY <1>2, <1>4
  <2>2. IsFiniteSet(Below(c)) /\ IsFiniteSet(Below(d)) /\ c \notin Below(c)
    BY <1>2, <1>3
  <2>3. Cardinality(Below(c) \cup {c}) = Cardinality(Below(c)) + 1
    BY <2>2, FS_AddElement
  <2>4. Cardinality(Below(c) \cup {c}) <= Cardinality(Below(d))
    BY <2>1, <2>2, FS_Subset
  <2>5. Position(c) \in Nat /\ Position(d) \in Nat
    BY <1>16
  <2> QED
    BY <2>3, <2>4, <2>5 DEF Position
<1>5. ASSUME NEW c \in Active, NEW d \in Active, Position(c) = Position(d)
      PROVE  c = d
  <2>1. Position(c) \in Nat /\ Position(d) \in Nat
    BY <1>16
  <2>2. Seed[c] \in Nat /\ Seed[d] \in Nat /\ ~(Seed[c] < Seed[d]) /\ ~(Seed[d] < Seed[c])
    BY <1>2, <1>4, <1>5, <2>1
  <2>3. Seed[c] = Seed[d]
    BY <2>2
  <2> QED
    BY <2>3, SeedsDiffer DEF Active
<1>6. place \in Injection(Active, 1..n)
  <2>1. \A c \in Active : place[c] = Position(c) + 1 /\ Position(c) \in 0..(n - 1)
    BY <1>15
  <2>2. place \in [Active -> 1..n]
    BY <1>1, <2>1
  <2>3. \A c, d \in Active : place[c] = place[d] => c = d
    BY <2>1, <1>5
  <2> HIDE DEF place
  <2> QED
    BY <2>2, <2>3 DEF Injection, IsInjective
<1>7. place \in Surjection(Active, 1..n)
  <2>1. IsFiniteSet(1..n) /\ Cardinality(1..n) = n
    BY <1>1, FS_Interval
  <2> QED
    BY <1>6, <2>1, FS_Injection
<1>8. ASSUME NEW k \in 1..n
      PROVE  \E c \in Active : Position(c) = k - 1
  <2>1. PICK c \in Active : place[c] = k
    BY <1>7 DEF Surjection
  <2>2. place[c] = Position(c) + 1 /\ Position(c) \in Nat
    BY <1>16
  <2> HIDE DEF place
  <2> QED
    BY <2>1, <2>2
<1>9. Entries = [k \in 1..n |-> CHOOSE c \in Active : Position(c) = k - 1]
  BY DEF Entries, Position
<1>10. \A k \in 1..n : Entries[k] \in Active /\ Position(Entries[k]) = k - 1
  <2> HIDE DEF n
  <2> QED
    BY <1>8, <1>9
<1>11. Entries \in [1..n -> Active]
  <2> HIDE DEF n
  <2> QED
    BY <1>9, <1>10
<1>12. \A c \in Active : \E k \in 1..n : Entries[k] = c
  <2> TAKE c \in Active
  <2>1. Position(c) + 1 \in 1..n /\ (Position(c) + 1) - 1 = Position(c)
    <3> HIDE DEF n
    <3> QED
      BY <1>1, <1>15
  <2>2. Entries[Position(c) + 1] = c
    BY <2>1, <1>5, <1>10
  <2> QED
    BY <2>1, <2>2
<1>13. \A i, j \in 1..n : Entries[i] = Entries[j] => i = j
  <2> TAKE i, j \in 1..n
  <2> HAVE Entries[i] = Entries[j]
  <2>1. i - 1 = j - 1 /\ i \in Int /\ j \in Int
    BY <1>1, <1>10
  <2> QED
    BY <2>1
<1>14. Len(Entries) = n
  BY <1>1, <1>11, Listed
<1> QED
  BY <1>1, <1>11, <1>12, <1>13, <1>14

\* The number of rounds of a bracket of n contestants.
LEMMA RoundsType ==
  ASSUME NEW S, NEW list \in Seq(S), Len(list) >= 2
  PROVE  /\ Rounds(list) \in Nat \ {0}
         /\ Pow2[Rounds(list)] >= Len(list)
         /\ Pow2[Rounds(list) - 1] < Len(list)
         /\ Len(list) >= 4 => Rounds(list) >= 2
<1> DEFINE n == Len(list)
           Enough == {p \in Nat : Pow2[p] >= n}
<1>1. n \in Nat /\ n \in Enough
  BY Pow2Grows
<1>2. PICK p \in Enough : \A q \in Enough : p <= q
  BY <1>1, Least
<1>3. p # 0 /\ p \in 1..n
  <2>1. p # 0
    BY <1>2, Pow2Type
  <2> QED
    BY <2>1, <1>1, <1>2
<1>4. p - 1 \in Nat /\ Pow2[p - 1] < n
  <2>1. p - 1 \in Nat /\ p - 1 < p
    BY <1>3
  <2>2. p - 1 \notin Enough
    BY <1>2, <2>1
  <2>3. Pow2[p - 1] \in Nat
    BY <2>1, Pow2Type
  <2> QED
    BY <1>1, <2>1, <2>2, <2>3
<1>5. \E r \in 1..n : Pow2[r] >= n /\ Pow2[r - 1] < n
  BY <1>2, <1>3, <1>4
<1>6. Rounds(list) \in 1..n /\ Pow2[Rounds(list)] >= n /\ Pow2[Rounds(list) - 1] < n
  BY <1>5 DEF Rounds
<1>7. ASSUME n >= 4 PROVE Rounds(list) # 1
  <2>1. Pow2[1] = 2 * Pow2[0] /\ Pow2[0] = 1
    <3>1. Pow2[0 + 1] = 2 * Pow2[0]
      BY Pow2Type
    <3> QED
      BY <3>1, Pow2Type
  <2> QED
    BY <1>6, <1>7, <2>1
<1> QED
  BY <1>1, <1>6, <1>7

-----------------------------------------------------------------------------
(* Types *)

Ids == {"MAIN", "WB", "LB", "GF", "P3", "RR"} \X Nat \X Nat
Plans == {ids \in SUBSET Ids : IsFiniteSet(ids)}

Row == [who : Contestants, copy : Nat \ {0}, score : {None, 0, 1}]
Rows == {rows \in SUBSET Row : IsFiniteSet(rows)}

MatchIn(ids) == [next : ids \cup {None}, loserNext : ids \cup {None},
                 confirmed : BOOLEAN, entries : Rows]

\* Only the first grand final leads to the match of a bracket reset, and it
\* does so as long as that match stands, which leads nowhere.
ResetLinked(matches) ==
  /\ GrandFinal(1) \in DOMAIN matches =>
       /\ GrandFinal(0) \in DOMAIN matches
       /\ matches[GrandFinal(0)].next = GrandFinal(1)
       /\ matches[GrandFinal(1)].next = None
       /\ matches[GrandFinal(1)].loserNext = None
  /\ \A x \in DOMAIN matches :
       /\ matches[x].loserNext # GrandFinal(1)
       /\ matches[x].next = GrandFinal(1) => x = GrandFinal(0)

Brackets == {matches \in UNION {[ids -> MatchIn(ids)] : ids \in Plans} : ResetLinked(matches)}
Tournaments == [status : Statuses, winner : Contestants \cup {None}, matches : Brackets]

LEMMA BracketsForm ==
  ASSUME NEW matches
  PROVE  matches \in Brackets <=>
           /\ DOMAIN matches \in Plans
           /\ matches \in [DOMAIN matches -> MatchIn(DOMAIN matches)]
           /\ ResetLinked(matches)
<1>1. ASSUME matches \in Brackets
      PROVE  /\ DOMAIN matches \in Plans
             /\ matches \in [DOMAIN matches -> MatchIn(DOMAIN matches)]
             /\ ResetLinked(matches)
  <2>1. PICK ids \in Plans : matches \in [ids -> MatchIn(ids)]
    BY <1>1 DEF Brackets
  <2>2. DOMAIN matches = ids
    BY <2>1
  <2> QED
    BY <1>1, <2>1, <2>2 DEF Brackets
<1> QED
  BY <1>1 DEF Brackets

\* What a bracket consists of.
LEMMA MatchType ==
  ASSUME NEW matches \in Brackets, NEW x \in DOMAIN matches
  PROVE  /\ matches[x] \in MatchIn(DOMAIN matches)
         /\ matches[x].next \in DOMAIN matches \cup {None}
         /\ matches[x].loserNext \in DOMAIN matches \cup {None}
         /\ matches[x].confirmed \in BOOLEAN
         /\ matches[x].entries \in Rows
         /\ IsFiniteSet(matches[x].entries)
         /\ matches[x].entries \subseteq Row
         /\ x \in Ids
<1>1. DOMAIN matches \in Plans /\ matches[x] \in MatchIn(DOMAIN matches)
  BY BracketsForm
<1>2. matches[x].entries \in Rows
  BY <1>1 DEF MatchIn
<1> QED
  BY <1>1, <1>2 DEF MatchIn, Rows, Plans

\* Changing flags and rows leaves a bracket a bracket.
LEMMA SameLinks ==
  ASSUME NEW matches \in Brackets,
         NEW new \in [DOMAIN matches -> MatchIn(DOMAIN matches)],
         \A x \in DOMAIN matches : /\ new[x].next = matches[x].next
                                   /\ new[x].loserNext = matches[x].loserNext
  PROVE  new \in Brackets
<1>1. DOMAIN matches \in Plans /\ ResetLinked(matches)
  BY BracketsForm
<1>2. DOMAIN new = DOMAIN matches
  OBVIOUS
<1>3. ResetLinked(new)
  BY <1>1, <1>2 DEF ResetLinked
<1> QED
  BY <1>1, <1>2, <1>3, BracketsForm

\* The image of a finite set.
LEMMA Mapped ==
  ASSUME NEW S, IsFiniteSet(S), NEW T, NEW f \in [S -> T]
  PROVE  IsFiniteSet({f[x] : x \in S}) /\ Cardinality({f[x] : x \in S}) <= Cardinality(S)
<1>1. f \in Surjection(S, {f[x] : x \in S})
  BY DEF Surjection
<1> QED
  BY <1>1, FS_Surjection

-----------------------------------------------------------------------------
(* Rows *)

LEMMA FreshType ==
  ASSUME NEW who \in SUBSET Contestants
  PROVE  Fresh(who) \in Rows
<1> DEFINE f == [c \in who |-> [who |-> c, copy |-> 1, score |-> None]]
<1>1. IsFiniteSet(who)
  BY SeedsDiffer, FS_Subset
<1>2. f \in [who -> Row]
  BY DEF Row
<1>3. Fresh(who) = {f[c] : c \in who}
  BY DEF Fresh
<1>4. IsFiniteSet(Fresh(who))
  <2> HIDE DEF f
  <2>1. IsFiniteSet({f[c] : c \in who})
    BY <1>1, <1>2, Mapped
  <2> QED
    BY <1>3, <2>1
<1>5. Fresh(who) \subseteq Row
  BY DEF Fresh, Row
<1> QED
  BY <1>4, <1>5 DEF Rows

LEMMA SomeRows ==
  ASSUME NEW rows \in Rows, NEW part \in SUBSET rows
  PROVE  part \in Rows
<1>1. IsFiniteSet(rows) /\ rows \in SUBSET Row
  BY DEF Rows
<1>2. IsFiniteSet(part)
  BY <1>1, FS_Subset
<1> QED
  BY <1>1, <1>2 DEF Rows

LEMMA AddEntryType ==
  ASSUME NEW rows \in Rows, NEW c \in Contestants
  PROVE  AddEntry(rows, c) \in Rows
<1> DEFINE own == {e \in rows : e.who = c}
           row == [who |-> c, score |-> None, copy |-> 1 + Cardinality(own)]
<1>1. IsFiniteSet(rows) /\ rows \in SUBSET Row
  BY DEF Rows
<1>2. IsFiniteSet(own)
  BY <1>1, FS_Subset
<1>3. Cardinality(own) \in Nat
  BY <1>2, FS_CardinalityType
<1>4. row \in Row
  <2>1. 1 + Cardinality(own) \in Nat \ {0}
    BY <1>3
  <2> HIDE DEF own
  <2> QED
    BY <2>1 DEF Row
<1>5. AddEntry(rows, c) = rows \cup {row}
  BY DEF AddEntry
<1>6. IsFiniteSet(rows \cup {row})
  BY <1>1, FS_AddElement
<1> HIDE DEF row
<1> QED
  BY <1>1, <1>4, <1>5, <1>6 DEF Rows

LEMMA WithResultType ==
  ASSUME NEW rows \in Rows, NEW who
  PROVE  WithResult(rows, who) \in Rows
<1> DEFINE f == [e \in rows |-> [e EXCEPT !.score = IF who \in {e.who, None} THEN 1 ELSE 0]]
<1>1. IsFiniteSet(rows) /\ rows \in SUBSET Row
  BY DEF Rows
<1>2. f \in [rows -> Row]
  BY <1>1 DEF Row
<1>3. WithResult(rows, who) = {f[e] : e \in rows}
  BY DEF WithResult
<1>4. {f[e] : e \in rows} \subseteq Row
  BY <1>2
<1>5. IsFiniteSet({f[e] : e \in rows})
  <2> HIDE DEF f
  <2> QED
    BY <1>1, <1>2, Mapped
<1> QED
  BY <1>3, <1>4, <1>5 DEF Rows

LEMMA ScorelessType ==
  ASSUME NEW rows \in Rows
  PROVE  {[e EXCEPT !.score = None] : e \in rows} \in Rows
<1> DEFINE f == [e \in rows |-> [e EXCEPT !.score = None]]
<1>1. IsFiniteSet(rows) /\ rows \in SUBSET Row
  BY DEF Rows
<1>2. f \in [rows -> Row]
  BY <1>1 DEF Row
<1>3. {[e EXCEPT !.score = None] : e \in rows} = {f[e] : e \in rows}
  OBVIOUS
<1>4. {f[e] : e \in rows} \subseteq Row
  BY <1>2
<1>5. IsFiniteSet({f[e] : e \in rows})
  <2> HIDE DEF f
  <2> QED
    BY <1>1, <1>2, Mapped
<1> QED
  BY <1>3, <1>4, <1>5 DEF Rows

LEMMA EntrantsType ==
  ASSUME NEW rows \in Rows
  PROVE  Entrants(rows) \in SUBSET Contestants /\ IsFiniteSet(Entrants(rows))
<1>1. Entrants(rows) \in SUBSET Contestants
  BY DEF Entrants, Rows, Row
<1> QED
  BY <1>1, SeedsDiffer, FS_Subset

\* A match with a winner has a loser.
LEMMA WinnerType ==
  ASSUME NEW rows \in Rows
  PROVE  /\ Winner(rows) \in Contestants \cup {None}
         /\ Winner(rows) # None => Loser(rows) \in Contestants
<1> DEFINE best == {e \in rows : e.score = 1}
<1>1. IsFiniteSet(rows) /\ rows \in SUBSET Row
  BY DEF Rows
<1>2. ASSUME Winner(rows) # None
      PROVE  /\ Cardinality(rows) >= 2
             /\ \A e \in rows : e.score # None
             /\ Cardinality(best) = 1
             /\ Winner(rows) = (CHOOSE e \in best : TRUE).who
  BY <1>2 DEF Winner
<1>3. ASSUME Winner(rows) # None PROVE Winner(rows) \in Contestants
  <2>1. best # {}
    BY <1>2, <1>3, FS_EmptySet
  <2>2. (CHOOSE e \in best : TRUE) \in rows
    BY <2>1
  <2> QED
    BY <1>1, <1>2, <1>3, <2>2 DEF Row
<1>4. ASSUME Winner(rows) # None PROVE Loser(rows) \in Contestants
  <2>1. rows # best
    BY <1>2, <1>4
  <2>2. PICK e \in rows : e.score # 1
    BY <2>1
  <2>3. e.score = 0
    BY <1>1, <1>2, <1>4, <2>2 DEF Row
  <2>4. (CHOOSE r \in rows : r.score = 0) \in rows
    BY <2>3
  <2> QED
    BY <1>1, <2>4 DEF Loser, Row
<1> QED
  BY <1>3, <1>4

\* The only one left in a match.
LEMMA SoleType ==
  ASSUME NEW rows \in Rows, Cardinality(rows) = 1
  PROVE  (CHOOSE e \in rows : TRUE) \in rows /\ (CHOOSE e \in rows : TRUE).who \in Contestants
<1>1. rows # {}
  BY FS_EmptySet
<1>2. (CHOOSE e \in rows : TRUE) \in rows
  BY <1>1
<1> QED
  BY <1>2 DEF Rows, Row

-----------------------------------------------------------------------------
(* What the operations on a bracket leave alone *)

LEMMA TournamentForm ==
  ASSUME NEW t \in Tournaments
  PROVE  /\ t.status \in Statuses
         /\ t.winner \in Contestants \cup {None}
         /\ t.matches \in Brackets
         /\ \A matches \in Brackets : [t EXCEPT !.matches = matches] \in Tournaments
BY DEF Tournaments

\* Rows may differ, and nothing else.
SameButRows(matches, new) ==
  /\ DOMAIN new = DOMAIN matches
  /\ \A x \in DOMAIN matches : /\ new[x].next = matches[x].next
                               /\ new[x].loserNext = matches[x].loserNext
                               /\ new[x].confirmed = matches[x].confirmed

\* Other rows for one match, which may not stand any more.
LEMMA RowsReplaced ==
  ASSUME NEW matches \in Brackets, NEW x,
         NEW rows, x \in DOMAIN matches => rows \in Rows
  PROVE  LET new == [matches EXCEPT ![x].entries = rows]
         IN  new \in Brackets /\ SameButRows(matches, new)
<1> DEFINE new == [matches EXCEPT ![x].entries = rows]
<1>1. matches \in [DOMAIN matches -> MatchIn(DOMAIN matches)]
  BY BracketsForm
<1>2. new \in [DOMAIN matches -> MatchIn(DOMAIN matches)]
  BY <1>1 DEF MatchIn
<1>3. SameButRows(matches, new)
  BY <1>1 DEF SameButRows, MatchIn
<1>4. new \in Brackets
  <2> HIDE DEF new
  <2> QED
    BY <1>2, <1>3, SameLinks DEF SameButRows
<1> QED
  BY <1>3, <1>4

LEMMA SentType ==
  ASSUME NEW t \in Tournaments, NEW match, NEW who \in Contestants
  PROVE  /\ Sent(t, match, who) \in Tournaments
         /\ SameButRows(t.matches, Sent(t, match, who).matches)
         /\ Sent(t, match, who).status = t.status
         /\ Sent(t, match, who).winner = t.winner
<1>1. CASE match = None
  BY <1>1 DEF Sent, SameButRows
<1>2. CASE match # None
  <2> DEFINE rows == AddEntry(t.matches[match].entries, who)
             new == [t.matches EXCEPT ![match].entries = rows]
  <2>1. t.matches \in Brackets
    BY TournamentForm
  <2>2. match \in DOMAIN t.matches => rows \in Rows
    <3>1. match \in DOMAIN t.matches => t.matches[match].entries \in Rows
      BY <2>1, MatchType
    <3> QED
      BY <3>1, AddEntryType
  <2>3. new \in Brackets /\ SameButRows(t.matches, new)
    <3> HIDE DEF rows
    <3> QED
      BY <2>1, <2>2, RowsReplaced
  <2>4. Sent(t, match, who) = [t EXCEPT !.matches = new]
    BY <1>2 DEF Sent, Tournaments
  <2>5. [t EXCEPT !.matches = new] \in Tournaments
    <3> HIDE DEF new
    <3> QED
      BY <2>3, TournamentForm
  <2> HIDE DEF new
  <2> QED
    BY <2>3, <2>4, <2>5 DEF Tournaments
<1> QED
  BY <1>1, <1>2

LEMMA WithdrawnType ==
  ASSUME NEW t \in Tournaments, NEW match, NEW who
  PROVE  /\ Withdrawn(t, match, who) \in Tournaments
         /\ SameButRows(t.matches, Withdrawn(t, match, who).matches)
         /\ Withdrawn(t, match, who).status = t.status
         /\ Withdrawn(t, match, who).winner = t.winner
<1> DEFINE rows == {e \in t.matches[match].entries : e.who # who}
           new == [t.matches EXCEPT ![match].entries = rows]
<1>1. t.matches \in Brackets
  BY TournamentForm
<1>2. match \in DOMAIN t.matches => rows \in Rows
  <2>1. match \in DOMAIN t.matches => t.matches[match].entries \in Rows
    BY <1>1, MatchType
  <2> QED
    BY <2>1, SomeRows
<1>3. new \in Brackets /\ SameButRows(t.matches, new)
  <2> HIDE DEF rows
  <2> QED
    BY <1>1, <1>2, RowsReplaced
<1>4. Withdrawn(t, match, who) = [t EXCEPT !.matches = new]
  <2>1. [t.matches EXCEPT ![match] = Vacated(@, who)] = new
    BY DEF Vacated
  <2>2. Withdrawn(t, match, who) = [t EXCEPT !.matches = [t.matches EXCEPT ![match] = Vacated(@, who)]]
    <3> HIDE DEF new
    <3> QED
      BY DEF Withdrawn, Tournaments
  <2> HIDE DEF new
  <2> QED
    BY <2>1, <2>2
<1>5. [t EXCEPT !.matches = new] \in Tournaments
  <2> HIDE DEF new
  <2> QED
    BY <1>3, TournamentForm
<1> HIDE DEF new
<1> QED
  BY <1>3, <1>4, <1>5 DEF Tournaments

\* Nothing that was confirmed is undone.
Keeps(matches, new) ==
  /\ DOMAIN matches \subseteq DOMAIN new
  /\ \A x \in DOMAIN matches : matches[x].confirmed => new[x].confirmed

LEMMA KeepsTransitive ==
  ASSUME NEW a, NEW b, NEW c, Keeps(a, b), Keeps(b, c)
  PROVE  Keeps(a, c)
BY DEF Keeps

LEMMA SameKeeps ==
  ASSUME NEW matches, NEW new, SameButRows(matches, new)
  PROVE  Keeps(matches, new)
BY DEF Keeps, SameButRows

\* A match is confirmed.
AsConfirmed(t, match) == [t EXCEPT !.matches[match].confirmed = TRUE]

LEMMA ConfirmType ==
  ASSUME NEW t \in Tournaments, NEW match
  PROVE  LET new == AsConfirmed(t, match).matches
         IN  /\ AsConfirmed(t, match) \in Tournaments
             /\ Keeps(t.matches, new)
             /\ DOMAIN new = DOMAIN t.matches
             /\ \A x \in DOMAIN t.matches : /\ new[x].next = t.matches[x].next
                                            /\ new[x].loserNext = t.matches[x].loserNext
                                            /\ new[x].entries = t.matches[x].entries
<1> DEFINE matches == t.matches
           new == [matches EXCEPT ![match].confirmed = TRUE]
<1>1. matches \in Brackets /\ matches \in [DOMAIN matches -> MatchIn(DOMAIN matches)]
  BY TournamentForm, BracketsForm
<1>2. new \in [DOMAIN matches -> MatchIn(DOMAIN matches)]
  BY <1>1 DEF MatchIn
<1>3. /\ DOMAIN new = DOMAIN matches
      /\ \A x \in DOMAIN matches : /\ new[x].next = matches[x].next
                                   /\ new[x].loserNext = matches[x].loserNext
                                   /\ new[x].entries = matches[x].entries
                                   /\ matches[x].confirmed => new[x].confirmed
  BY <1>1 DEF MatchIn
<1>4. new \in Brackets
  <2> HIDE DEF new, matches
  <2> QED
    BY <1>1, <1>2, <1>3, SameLinks
<1>5. AsConfirmed(t, match) = [t EXCEPT !.matches = new]
  BY DEF AsConfirmed, Tournaments
<1>6. AsConfirmed(t, match) \in Tournaments /\ AsConfirmed(t, match).matches = new
  <2> HIDE DEF new
  <2> QED
    BY <1>4, <1>5, TournamentForm DEF Tournaments
<1> HIDE DEF new
<1> QED
  BY <1>3, <1>6 DEF Keeps

LEMMA ConcludedType ==
  ASSUME NEW t \in Tournaments, NEW f, NEW match, NEW next, NEW who \in Contestants \cup {None}
  PROVE  /\ Concluded(t, f, match, next, who) \in Tournaments
         /\ Concluded(t, f, match, next, who).matches = t.matches
BY DEF Concluded, Tournaments, Statuses

-----------------------------------------------------------------------------
(* Confirming a result *)

LEMMA PassOnType ==
  ASSUME NEW t \in Tournaments, NEW match \in DOMAIN t.matches
  PROVE  PassOn(t, match) \in Tournaments /\ Keeps(t.matches, PassOn(t, match).matches)
<1> DEFINE rows == t.matches[match].entries
           next == t.matches[match].next
           sole == (CHOOSE e \in rows : TRUE).who
           sent == Sent(t, next, sole)
           passed == AsConfirmed(sent, match)
<1>1. rows \in Rows
  BY TournamentForm, MatchType
<1>2. CASE PassOn(t, match) = t
  BY <1>2 DEF Keeps
<1>3. CASE Cardinality(rows) = 1 /\ PassOn(t, match) = passed
  <2>1. sole \in Contestants
    BY <1>1, <1>3, SoleType
  <2>2. sent \in Tournaments /\ SameButRows(t.matches, sent.matches)
    <3> HIDE DEF next, sole
    <3> QED
      BY <2>1, SentType
  <2>3. passed \in Tournaments /\ Keeps(sent.matches, passed.matches)
    <3> HIDE DEF sent
    <3> QED
      BY <2>2, ConfirmType
  <2>4. Keeps(t.matches, sent.matches)
    <3> HIDE DEF sent
    <3> QED
      BY <2>2, SameKeeps
  <2> HIDE DEF sent, passed
  <2> QED
    BY <1>3, <2>3, <2>4, KeepsTransitive
<1>4. PassOn(t, match) = t \/ (Cardinality(rows) = 1 /\ PassOn(t, match) = passed)
  BY DEF PassOn, AsConfirmed
<1> QED
  BY <1>2, <1>3, <1>4

LEMMA MadeType ==
  ASSUME NEW ids, NEW next \in ids \cup {None}, NEW loserNext \in ids \cup {None},
         NEW confirmed \in BOOLEAN, NEW who \in SUBSET Contestants
  PROVE  /\ Made(next, loserNext, confirmed, who) \in MatchIn(ids)
         /\ Made(next, loserNext, confirmed, who).next = next
         /\ Made(next, loserNext, confirmed, who).loserNext = loserNext
         /\ Made(next, loserNext, confirmed, who).confirmed = confirmed
         /\ Made(next, loserNext, confirmed, who).entries = Fresh(who)
<1>1. Fresh(who) \in Rows
  BY FreshType
<1> QED
  BY <1>1 DEF Made, MatchIn

LEMMA GrandFinals ==
  /\ GrandFinal(0) \in Ids /\ GrandFinal(1) \in Ids /\ GrandFinal(0) # GrandFinal(1)
  /\ None \notin Ids
BY NoneApart DEF GrandFinal, Ids

\* The first grand final gets a second one to lead to.
LEMMA WithResetType ==
  ASSUME NEW t \in Tournaments, GrandFinal(0) \in DOMAIN t.matches,
         t.matches[GrandFinal(0)].next = None
  PROVE  /\ WithReset(t) \in Tournaments
         /\ Keeps(t.matches, WithReset(t).matches)
         /\ GrandFinal(1) \notin DOMAIN t.matches
<1> DEFINE first == GrandFinal(0)
           second == GrandFinal(1)
           matches == t.matches
           ids == DOMAIN matches \cup {second}
           who == Entrants(matches[first].entries)
           fresh == Made(None, None, FALSE, who)
           new == [x \in ids |->
                     CASE x = second -> fresh
                       [] x = first  -> [matches[first] EXCEPT !.next = second]
                       [] OTHER      -> matches[x]]
<1>1. /\ matches \in Brackets
      /\ DOMAIN matches \in Plans
      /\ matches \in [DOMAIN matches -> MatchIn(DOMAIN matches)]
      /\ ResetLinked(matches)
  BY TournamentForm, BracketsForm
<1>2. second \notin DOMAIN matches /\ first # second /\ second \in Ids
  <2>1. matches[first].next # second
    BY GrandFinals
  <2> QED
    BY <1>1, <2>1, GrandFinals DEF ResetLinked
<1>3. ids \in Plans
  <2>1. IsFiniteSet(ids)
    BY <1>1, FS_AddElement DEF Plans
  <2> QED
    BY <1>1, <1>2, <2>1 DEF Plans
<1>4. fresh \in MatchIn(ids) /\ fresh.next = None /\ fresh.loserNext = None
  <2>1. who \in SUBSET Contestants
    <3>1. matches[first].entries \in Rows
      BY <1>1, MatchType
    <3> QED
      BY <3>1, EntrantsType
  <2>2. Fresh(who) \in Rows
    BY <2>1, FreshType
  <2> HIDE DEF who, ids
  <2> QED
    BY <2>2 DEF Made, MatchIn
<1> HIDE DEF fresh
<1>5. ASSUME NEW x \in DOMAIN matches
      PROVE  matches[x] \in MatchIn(ids) /\ [matches[x] EXCEPT !.next = second] \in MatchIn(ids)
  <2>1. matches[x] \in MatchIn(DOMAIN matches)
    BY <1>1
  <2> QED
    BY <2>1 DEF MatchIn
<1>6. new \in [ids -> MatchIn(ids)]
  <2>1. ASSUME NEW x \in ids PROVE new[x] \in MatchIn(ids)
    <3>1. CASE x = second
      BY <1>2, <1>4, <3>1
    <3>2. CASE x # second /\ x = first
      BY <1>5, <3>2
    <3>3. CASE x # second /\ x # first
      BY <1>5, <3>3
    <3> QED
      BY <3>1, <3>2, <3>3
  <2> QED
    BY <2>1
<1>7. /\ new[second].next = None /\ new[second].loserNext = None
      /\ new[first].next = second
      /\ new[first].loserNext = matches[first].loserNext
      /\ new[first].confirmed = matches[first].confirmed
      /\ \A x \in DOMAIN matches \ {first} : new[x] = matches[x]
  <2>1. new[second] = fresh
    BY <1>2
  <2>2. new[first] = [matches[first] EXCEPT !.next = second]
    BY <1>2
  <2>3. matches[first] \in MatchIn(DOMAIN matches)
    BY <1>1
  <2>4. \A x \in DOMAIN matches \ {first} : new[x] = matches[x]
    BY <1>2
  <2> QED
    BY <1>4, <2>1, <2>2, <2>3, <2>4 DEF MatchIn
<1>8. ResetLinked(new)
  <2>1. DOMAIN new = ids
    OBVIOUS
  <2>2. \A x \in DOMAIN matches : matches[x].loserNext # second /\ matches[x].next # second
    <3>1. \A x \in DOMAIN matches : {matches[x].next, matches[x].loserNext} \subseteq DOMAIN matches \cup {None}
      BY <1>1, MatchType
    <3> QED
      BY <3>1, <1>2, GrandFinals
  <2>3. second # None
    BY GrandFinals
  <2> HIDE DEF new
  <2> QED
    BY <2>1, <2>2, <2>3, <1>7 DEF ResetLinked
<1>9. new \in Brackets
  <2>1. DOMAIN new = ids
    OBVIOUS
  <2> HIDE DEF new, ids
  <2> QED
    BY <1>3, <1>6, <1>8, <2>1, BracketsForm
<1>10. WithReset(t) = [t EXCEPT !.matches = new]
  BY DEF WithReset, Tournaments, fresh
<1>11. WithReset(t) \in Tournaments /\ WithReset(t).matches = new
  <2> HIDE DEF new
  <2> QED
    BY <1>9, <1>10, TournamentForm DEF Tournaments
<1>12. Keeps(matches, new)
  <2>1. DOMAIN new = ids
    OBVIOUS
  <2> HIDE DEF new
  <2> QED
    BY <1>7, <2>1 DEF Keeps
<1> HIDE DEF new
<1> QED
  BY <1>2, <1>11, <1>12

\* A match gets the rows of a result.
Scored(t, match, who) ==
  [t EXCEPT !.matches[match].entries = WithResult(t.matches[match].entries, who),
            !.matches[match].confirmed = TRUE]

LEMMA ScoredType ==
  ASSUME NEW t \in Tournaments, NEW match \in DOMAIN t.matches, NEW who
  PROVE  LET new == Scored(t, match, who).matches
         IN  /\ Scored(t, match, who) \in Tournaments
             /\ Keeps(t.matches, new)
             /\ DOMAIN new = DOMAIN t.matches
             /\ \A x \in DOMAIN t.matches : /\ new[x].next = t.matches[x].next
                                            /\ new[x].loserNext = t.matches[x].loserNext
<1> DEFINE rows == WithResult(t.matches[match].entries, who)
           new == [t.matches EXCEPT ![match].entries = rows]
           mid == [t EXCEPT !.matches = new]
           set == AsConfirmed(mid, match)
<1>1. rows \in Rows
  <2>1. t.matches[match].entries \in Rows
    BY TournamentForm, MatchType
  <2> QED
    BY <2>1, WithResultType
<1>2. new \in Brackets /\ SameButRows(t.matches, new)
  <2> HIDE DEF rows
  <2> QED
    BY <1>1, TournamentForm, RowsReplaced
<1>3. mid \in Tournaments /\ mid.matches = new
  <2> HIDE DEF new
  <2> QED
    BY <1>2, TournamentForm DEF Tournaments
<1>4. /\ set \in Tournaments
      /\ Keeps(mid.matches, set.matches)
      /\ DOMAIN set.matches = DOMAIN mid.matches
      /\ \A x \in DOMAIN mid.matches : /\ set.matches[x].next = mid.matches[x].next
                                       /\ set.matches[x].loserNext = mid.matches[x].loserNext
  <2>1. mid \in Tournaments
    BY <1>3
  <2> HIDE DEF mid
  <2> QED
    BY <2>1, ConfirmType
<1>5. Scored(t, match, who) = set
  BY DEF Tournaments, AsConfirmed, Scored
<1>6. Keeps(t.matches, new)
  <2> HIDE DEF new
  <2> QED
    BY <1>2, SameKeeps
<1>7. Keeps(t.matches, set.matches)
  <2> HIDE DEF mid, new, set
  <2> QED
    BY <1>3, <1>4, <1>6, KeepsTransitive
<1>8. /\ DOMAIN set.matches = DOMAIN t.matches
      /\ \A x \in DOMAIN t.matches : /\ set.matches[x].next = t.matches[x].next
                                     /\ set.matches[x].loserNext = t.matches[x].loserNext
  <2> HIDE DEF mid, new, set
  <2> QED
    BY <1>2, <1>3, <1>4 DEF SameButRows
<1> HIDE DEF set
<1> QED
  BY <1>4, <1>5, <1>7, <1>8

\* A result of two contestants has a loser.
LEMMA ResultLoser ==
  ASSUME NEW rows \in Rows, NEW who,
         Cardinality(Entrants(rows)) >= 2, None \notin Entrants(rows), who # None
  PROVE  Loser(WithResult(rows, who)) \in Contestants
<1> DEFINE result == WithResult(rows, who)
<1>1. PICK e \in rows : e.who # who
  <2> SUFFICES ASSUME \A e \in rows : e.who = who PROVE FALSE
    OBVIOUS
  <2>1. Entrants(rows) \subseteq {who}
    BY DEF Entrants
  <2>2. IsFiniteSet({who}) /\ Cardinality({who}) = 1
    BY FS_Singleton
  <2>3. Cardinality(Entrants(rows)) <= 1
    BY <2>1, <2>2, FS_Subset
  <2>4. Cardinality(Entrants(rows)) \in Nat
    BY EntrantsType, FS_CardinalityType
  <2> QED
    BY <2>3, <2>4
<1>2. [e EXCEPT !.score = 0] \in result /\ [e EXCEPT !.score = 0].score = 0
  BY <1>1 DEF WithResult, Rows, Row
<1>3. (CHOOSE r \in result : r.score = 0) \in result
  <2> HIDE DEF result
  <2> QED
    BY <1>2
<1>4. result \subseteq Row
  BY WithResultType DEF Rows
<1> HIDE DEF result
<1>5. Loser(result) \in Contestants
  BY <1>3, <1>4 DEF Loser, Row
<1> QED
  BY <1>5 DEF result

\* A match that can be played has a loser to route, whoever wins.
LEMMA PlayableLoser ==
  ASSUME NEW t \in Tournaments, NEW match \in DOMAIN t.matches, NEW f, NEW who,
         Playable(f, t.matches[match]), who # None
  PROVE  Loser(WithResult(t.matches[match].entries, who)) \in Contestants
<1> DEFINE rows == t.matches[match].entries
<1>1. rows \in Rows
  BY TournamentForm, MatchType
<1>2. Cardinality(Entrants(rows)) >= 2
  BY DEF Playable
<1>3. None \notin Entrants(rows)
  BY <1>1, EntrantsType, NoneApart
<1> HIDE DEF rows
<1>4. Loser(WithResult(rows, who)) \in Contestants
  BY <1>1, <1>2, <1>3, ResultLoser
<1> QED
  BY <1>4 DEF rows

\* Confirming a result keeps the types, and what had been confirmed.
LEMMA ConfirmedType ==
  ASSUME NEW t \in Tournaments, NEW match \in DOMAIN t.matches, NEW f,
         NEW who \in Contestants \cup {None}, Playable(f, t.matches[match])
  PROVE  /\ Confirmed(t, f, match, who) \in Tournaments
         /\ Keeps(t.matches, Confirmed(t, f, match, who).matches)
<1> DEFINE rows == WithResult(t.matches[match].entries, who)
           set == Scored(t, match, who)
           lower == t.matches[match].loserNext
           advanced == Sent(set, t.matches[match].next, who)
           sent == Sent(advanced, lower, Loser(rows))
           dropped == IF lower = None THEN advanced ELSE PassOn(sent, lower)
           done == IF NeedsReset(dropped, f, match, who) THEN WithReset(dropped) ELSE dropped
           last == Concluded(done, f, match, done.matches[match].next, who)
<1>1. Confirmed(t, f, match, who) = IF who = None THEN set ELSE last
  BY DEF Confirmed, Scored
<1>2. /\ set \in Tournaments
      /\ Keeps(t.matches, set.matches)
      /\ DOMAIN set.matches = DOMAIN t.matches
  BY ScoredType
<1> HIDE DEF set
<1>3. CASE who = None
  BY <1>1, <1>2, <1>3
<1>4. CASE who # None
  <2>1. who \in Contestants
    BY <1>4
  <2>2. /\ advanced \in Tournaments
        /\ Keeps(t.matches, advanced.matches)
        /\ DOMAIN advanced.matches = DOMAIN t.matches
    <3>1. advanced \in Tournaments /\ SameButRows(set.matches, advanced.matches)
      BY <1>2, <2>1, SentType
    <3>2. Keeps(set.matches, advanced.matches)
      BY <3>1, SameKeeps
    <3> HIDE DEF advanced
    <3> QED
      BY <1>2, <3>1, <3>2, KeepsTransitive DEF SameButRows
  <2> HIDE DEF advanced
  <2>3. Loser(rows) \in Contestants
    BY <1>4, PlayableLoser
  <2> HIDE DEF rows
  <2>4. /\ sent \in Tournaments
        /\ Keeps(t.matches, sent.matches)
        /\ DOMAIN sent.matches = DOMAIN t.matches
    <3>1. sent \in Tournaments /\ SameButRows(advanced.matches, sent.matches)
      BY <2>2, <2>3, SentType
    <3>2. Keeps(advanced.matches, sent.matches)
      BY <3>1, SameKeeps
    <3> HIDE DEF sent
    <3> QED
      BY <2>2, <3>1, <3>2, KeepsTransitive DEF SameButRows
  <2>5. lower \in DOMAIN t.matches \cup {None}
    BY TournamentForm, MatchType
  <2> HIDE DEF sent, lower
  <2>6. dropped \in Tournaments /\ Keeps(t.matches, dropped.matches)
    <3>1. CASE lower = None
      BY <2>2, <3>1
    <3>2. CASE lower # None
      <4>1. lower \in DOMAIN sent.matches
        BY <2>4, <2>5, <3>2
      <4>2. PassOn(sent, lower) \in Tournaments /\ Keeps(sent.matches, PassOn(sent, lower).matches)
        BY <2>4, <4>1, PassOnType
      <4> QED
        BY <2>4, <3>2, <4>2, KeepsTransitive
    <3> QED
      BY <3>1, <3>2
  <2> HIDE DEF dropped
  <2>7. done \in Tournaments /\ Keeps(t.matches, done.matches)
    <3>1. CASE NeedsReset(dropped, f, match, who)
      <4>1. GrandFinal(0) \in DOMAIN dropped.matches /\ dropped.matches[GrandFinal(0)].next = None
        BY <2>6, <3>1 DEF NeedsReset, Keeps
      <4>2. WithReset(dropped) \in Tournaments /\ Keeps(dropped.matches, WithReset(dropped).matches)
        BY <2>6, <4>1, WithResetType
      <4> QED
        BY <2>6, <3>1, <4>2, KeepsTransitive
    <3>2. CASE ~NeedsReset(dropped, f, match, who)
      BY <2>6, <3>2
    <3> QED
      BY <3>1, <3>2
  <2> HIDE DEF done
  <2>8. last \in Tournaments /\ last.matches = done.matches
    BY <2>7, ConcludedType
  <2> HIDE DEF last
  <2> QED
    BY <1>1, <1>4, <2>7, <2>8
<1> QED
  BY <1>3, <1>4

-----------------------------------------------------------------------------
(* Retracting a result *)

Acts == {"undo", "withdraw", "clear"}
Steps == [act : Acts, match : Ids, who : Contestants \cup {None}]
Undoings == [t : Tournaments, todo : Seq(Steps)]

FirstUndo(t, match) == [t |-> t, todo |-> Undoing(t.matches, match)]

\* The steps a retraction goes through, up to its bound and beyond.
LEMMA RetractedSteps ==
  ASSUME NEW A, NEW t, NEW f, NEW match,
         FirstUndo(t, match) \in A, \A u \in A : UndoOn(f, u) \in A
  PROVE  \E undo \in [Nat -> A] :
           /\ undo[0] = FirstUndo(t, match)
           /\ \A k \in Nat : undo[k + 1] = UndoOn(f, undo[k])
           /\ Retracted(t, f, match) = undo[6 * Cardinality(DOMAIN t.matches)].t
<1> DEFINE a == FirstUndo(t, match)
           step == [x \in Nat \X A |-> UndoOn(f, x[2])]
           Rec(g) == g = [k \in Nat |-> IF k = 0 THEN [t |-> t, todo |-> Undoing(t.matches, match)]
                                        ELSE UndoOn(f, g[k - 1])]
           undo == CHOOSE g : Rec(g)
           n == 6 * Cardinality(DOMAIN t.matches)
<1>1. step \in [Nat \X A -> A]
  OBVIOUS
<1>2. PICK g \in [Nat -> A] : Unfolds(g, a, step)
  <2> HIDE DEF step, a
  <2> QED
    BY <1>1, Iterated DEF a
<1>3. Rec(g)
  <2>1. ASSUME NEW k \in Nat PROVE g[k] = IF k = 0 THEN a ELSE UndoOn(f, g[k - 1])
    <3>1. g[k] = IF k = 0 THEN a ELSE step[<<k, g[k - 1]>>]
      <4> HIDE DEF step, a
      <4> QED
        BY <1>2 DEF Unfolds
    <3>2. ASSUME k # 0 PROVE step[<<k, g[k - 1]>>] = UndoOn(f, g[k - 1])
      <4>1. k - 1 \in Nat /\ g[k - 1] \in A
        BY <3>2
      <4> QED
        BY <4>1
    <3> HIDE DEF step, a
    <3> QED
      BY <3>1, <3>2
  <2>2. g = [k \in Nat |-> g[k]]
    OBVIOUS
  <2>3. g = [k \in Nat |-> IF k = 0 THEN a ELSE UndoOn(f, g[k - 1])]
    <3> HIDE DEF a
    <3> QED
      BY <2>1, <2>2
  <2> QED
    BY <2>3 DEF FirstUndo
<1>4. Rec(undo)
  <2> HIDE DEF Rec
  <2> QED
    BY <1>3
<1>5. /\ undo = [k \in Nat |-> undo[k]]
      /\ \A k \in Nat : undo[k] = IF k = 0 THEN a ELSE UndoOn(f, undo[k - 1])
  <2>1. undo = [k \in Nat |-> IF k = 0 THEN a ELSE UndoOn(f, undo[k - 1])]
    BY <1>4 DEF FirstUndo
  <2> HIDE DEF undo, a
  <2> QED
    BY <2>1
<1>6. Retracted(t, f, match) = undo[n].t
  BY DEF Retracted
<1> HIDE DEF undo, n
<1>7. /\ undo[0] = FirstUndo(t, match)
      /\ \A k \in Nat : undo[k + 1] = UndoOn(f, undo[k])
  <2>1. undo[0] = a
    <3> HIDE DEF a
    <3> QED
      BY <1>5
  <2>2. ASSUME NEW k \in Nat PROVE undo[k + 1] = UndoOn(f, undo[k])
    <3>1. k + 1 \in Nat /\ k + 1 # 0 /\ (k + 1) - 1 = k
      OBVIOUS
    <3> HIDE DEF a
    <3> QED
      BY <1>5, <3>1
  <2> QED
    BY <2>1, <2>2
<1>8. undo \in [Nat -> A]
  <2> DEFINE S == {k \in Nat : undo[k] \in A}
  <2>1. 0 \in S
    BY <1>7
  <2>2. \A k \in Nat : k \in S => k + 1 \in S
    BY <1>7
  <2> HIDE DEF S
  <2>3. Nat \subseteq S
    BY <2>1, <2>2, Induction
  <2>4. \A k \in Nat : undo[k] \in A
    BY <2>3 DEF S
  <2> QED
    BY <1>5, <2>4
<1> QED
  BY <1>6, <1>7, <1>8 DEF n

\* Whatever holds at first and after every step holds at the end.
LEMMA RetractedBy ==
  ASSUME NEW A, NEW t, NEW f, NEW match, IsFiniteSet(DOMAIN t.matches),
         FirstUndo(t, match) \in A, \A u \in A : UndoOn(f, u) \in A
  PROVE  \E u \in A : Retracted(t, f, match) = u.t
<1>1. 6 * Cardinality(DOMAIN t.matches) \in Nat
  BY FS_CardinalityType
<1> QED
  BY <1>1, RetractedSteps

-----------------------------------------------------------------------------
(* What a retraction undoes *)

LEMMA Concatenated ==
  ASSUME NEW S, NEW s \in Seq(S), NEW r \in Seq(S)
  PROVE  s \o r \in Seq(S)
OBVIOUS

LEMMA OneStep ==
  ASSUME NEW S, NEW e \in S
  PROVE  <<e>> \in Seq(S) /\ <<>> \in Seq(S)
OBVIOUS

LEMMA Rest ==
  ASSUME NEW S, NEW s \in Seq(S), s # <<>>
  PROVE  /\ Head(s) \in S /\ Tail(s) \in Seq(S)
         /\ Len(s) \in Nat /\ Len(Tail(s)) = Len(s) - 1
OBVIOUS

\* From matches to new, no results were undone but those of matches in C.
Undoes(matches, new, C) ==
  /\ DOMAIN matches \ {GrandFinal(1)} \subseteq DOMAIN new
  /\ GrandFinal(1) \in DOMAIN matches \ DOMAIN new => GrandFinal(0) \in C
  /\ DOMAIN new \subseteq DOMAIN matches
  /\ \A x \in DOMAIN new : /\ new[x].next \in {matches[x].next, None}
                           /\ new[x].loserNext = matches[x].loserNext
                           /\ new[x].confirmed => matches[x].confirmed
  /\ \A x \in DOMAIN matches :
       matches[x].confirmed /\ x \notin C => x \in DOMAIN new /\ new[x].confirmed

\* With a confirmed match, C has those it leads to that are confirmed.
Closed(matches, C) ==
  /\ C \subseteq DOMAIN matches
  /\ \A x \in C : \A y \in {matches[x].next, matches[x].loserNext} \ {None} :
       matches[y].confirmed => y \in C

\* What may still have to be done, if only results in C are undone.
Due(matches, C) ==
  {s \in Steps : /\ s.match \in DOMAIN matches
                 /\ s.act = "undo" /\ matches[s.match].confirmed => s.match \in C
                 /\ s.act = "clear" => s.match \in C}

\* What an undo asks for, step by step.
LEMMA UndoingSteps ==
  ASSUME NEW new \in Brackets, NEW x \in DOMAIN new, NEW S,
         \A y \in DOMAIN new : \A who \in Contestants :
           y \in {new[x].next, new[x].loserNext}
             \/ (new[x].loserNext # None /\ y = new[new[x].loserNext].next)
             => [act |-> "withdraw", match |-> y, who |-> who] \in S,
         \A y \in DOMAIN new :
           y \in {new[x].next, new[x].loserNext} => [act |-> "undo", match |-> y, who |-> None] \in S,
         [act |-> "clear", match |-> x, who |-> None] \in S
  PROVE  Undoing(new, x) \in Seq(S)
<1> DEFINE rows == new[x].entries
           next == new[x].next
           lower == new[x].loserNext
           beyond == new[lower].next
           Out(y, who) == IF y = None THEN <<>> ELSE <<[act |-> "withdraw", match |-> y, who |-> who]>>
           Back(y, who) ==
             IF y = None THEN <<>> ELSE <<[act |-> "undo", match |-> y, who |-> None]>> \o Out(y, who)
           Last == <<[act |-> "clear", match |-> x, who |-> None]>>
<1>1. /\ next \in DOMAIN new \cup {None}
      /\ lower \in DOMAIN new \cup {None}
      /\ rows \in Rows
  BY MatchType
<1>2. lower # None => beyond \in DOMAIN new \cup {None}
  BY <1>1, MatchType
<1>3. /\ \A y \in DOMAIN new : \A who \in Contestants :
           y \in {next, lower} \/ (lower # None /\ y = beyond)
             => [act |-> "withdraw", match |-> y, who |-> who] \in S
      /\ \A y \in DOMAIN new :
           y \in {next, lower} => [act |-> "undo", match |-> y, who |-> None] \in S
  OBVIOUS
<1>4. Undoing(new, x) =
        (IF Winner(rows) = None THEN <<>>
         ELSE Back(next, Winner(rows)) \o
              (IF lower = None THEN <<>>
               ELSE Back(lower, Loser(rows)) \o Out(beyond, Loser(rows))))
        \o Last
  BY DEF Undoing
<1>5. Winner(rows) \in Contestants \cup {None} /\ (Winner(rows) # None => Loser(rows) \in Contestants)
  BY <1>1, WinnerType
<1>6. Last \in Seq(S)
  OBVIOUS
<1> SUFFICES Undoing(new, x) \in Seq(S)
  OBVIOUS
<1> HIDE DEF Last, next, lower, rows, beyond
<1>7. ASSUME NEW y, NEW who,
             y # None => [act |-> "withdraw", match |-> y, who |-> who] \in S
      PROVE  Out(y, who) \in Seq(S)
  BY <1>7, OneStep
<1>8. ASSUME NEW y \in {next, lower}, NEW who \in Contestants
      PROVE  Out(y, who) \in Seq(S) /\ Back(y, who) \in Seq(S)
  <2>1. Out(y, who) \in Seq(S)
    <3> HIDE DEF Out
    <3> QED
      BY <1>1, <1>3, <1>7
  <2>2. CASE y = None
    BY <2>1, <2>2, OneStep
  <2>3. CASE y # None
    <3>1. [act |-> "undo", match |-> y, who |-> None] \in S
      BY <1>1, <1>3, <2>3
    <3>2. <<[act |-> "undo", match |-> y, who |-> None]>> \in Seq(S)
      BY <3>1
    <3>3. Back(y, who) = <<[act |-> "undo", match |-> y, who |-> None]>> \o Out(y, who)
      BY <2>3
    <3> HIDE DEF Out, Back
    <3> QED
      BY <2>1, <3>2, <3>3, Concatenated
  <2> QED
    BY <2>1, <2>2, <2>3
<1>9. ASSUME lower # None, NEW who \in Contestants PROVE Out(beyond, who) \in Seq(S)
  <2> HIDE DEF Out
  <2> QED
    BY <1>2, <1>3, <1>7, <1>9
<1> HIDE DEF Out, Back
<1>10. CASE Winner(rows) = None
  BY <1>4, <1>6, <1>10, OneStep, Concatenated
<1>11. CASE Winner(rows) # None /\ lower = None
  <2>1. Back(next, Winner(rows)) \in Seq(S)
    BY <1>5, <1>8, <1>11
  <2>2. Back(next, Winner(rows)) \o <<>> \in Seq(S)
    BY <2>1
  <2>3. Undoing(new, x) = (Back(next, Winner(rows)) \o <<>>) \o Last
    BY <1>4, <1>11
  <2> QED
    BY <2>2, <2>3, <1>6, Concatenated
<1>12. CASE Winner(rows) # None /\ lower # None
  <2>1. Back(next, Winner(rows)) \in Seq(S) /\ Back(lower, Loser(rows)) \in Seq(S)
    BY <1>5, <1>8, <1>12
  <2>2. Out(beyond, Loser(rows)) \in Seq(S)
    BY <1>5, <1>9, <1>12
  <2>3. Back(lower, Loser(rows)) \o Out(beyond, Loser(rows)) \in Seq(S)
    BY <2>1, <2>2, Concatenated
  <2>4. Back(next, Winner(rows)) \o (Back(lower, Loser(rows)) \o Out(beyond, Loser(rows))) \in Seq(S)
    BY <2>1, <2>3, Concatenated
  <2>5. Undoing(new, x) =
          (Back(next, Winner(rows)) \o (Back(lower, Loser(rows)) \o Out(beyond, Loser(rows)))) \o Last
    BY <1>4, <1>12
  <2> QED
    BY <2>4, <2>5, <1>6, Concatenated
<1> QED
  BY <1>10, <1>11, <1>12

LEMMA UndoingType ==
  ASSUME NEW matches \in Brackets, NEW C, Closed(matches, C),
         NEW new \in Brackets, Undoes(matches, new, C),
         NEW x \in DOMAIN new, x \in C
  PROVE  Undoing(new, x) \in Seq(Due(matches, C))
<1> DEFINE next == new[x].next
           lower == new[x].loserNext
           S == Due(matches, C)
<1>1. /\ DOMAIN new \subseteq DOMAIN matches
      /\ DOMAIN matches \subseteq Ids
      /\ None \notin Ids
  BY BracketsForm, GrandFinals DEF Plans, Undoes
<1>2. \A y \in {next, lower} : y # None /\ matches[y].confirmed => y \in C
  <2>1. next \in {matches[x].next, None} /\ lower = matches[x].loserNext
    BY DEF Undoes
  <2> HIDE DEF next, lower
  <2> QED
    BY <2>1 DEF Closed
<1>3. ASSUME NEW y \in DOMAIN new, NEW who \in Contestants
      PROVE  [act |-> "withdraw", match |-> y, who |-> who] \in S
  BY <1>1 DEF Due, Steps, Acts
<1>4. ASSUME NEW y \in DOMAIN new, y \in {next, lower}
      PROVE  [act |-> "undo", match |-> y, who |-> None] \in S
  <2>1. matches[y].confirmed => y \in C
    BY <1>1, <1>2, <1>4
  <2> HIDE DEF next, lower
  <2> QED
    BY <1>1, <2>1 DEF Due, Steps, Acts
<1>5. [act |-> "clear", match |-> x, who |-> None] \in S
  BY <1>1 DEF Due, Steps, Acts
<1> HIDE DEF S
<1>6. Undoing(new, x) \in Seq(S)
  BY <1>3, <1>4, <1>5, UndoingSteps
<1> QED
  BY <1>6 DEF S

\* A match of a bracket reset goes, and nothing leads to it any more.
LEMMA WithoutResetType ==
  ASSUME NEW t \in Tournaments, NEW match, match \in DOMAIN t.matches \/ match # GrandFinal(0)
  PROVE  LET new == WithoutReset(t, match)
         IN  /\ new \in Tournaments
             /\ DOMAIN t.matches \ {GrandFinal(1)} \subseteq DOMAIN new.matches
             /\ DOMAIN new.matches \subseteq DOMAIN t.matches
             /\ \A x \in DOMAIN new.matches :
                  /\ new.matches[x].next \in {t.matches[x].next, None}
                  /\ new.matches[x].loserNext = t.matches[x].loserNext
                  /\ new.matches[x].confirmed = t.matches[x].confirmed
                  /\ new.matches[x].entries = t.matches[x].entries
             /\ GrandFinal(1) \in DOMAIN t.matches \ DOMAIN new.matches
                  => /\ match \in DOMAIN t.matches /\ match = GrandFinal(0)
                     /\ t.matches[match].next = GrandFinal(1)
<1> DEFINE matches == t.matches
           ids == DOMAIN matches \ {GrandFinal(1)}
           new == [x \in ids |-> IF x = match THEN [matches[x] EXCEPT !.next = None]
                                 ELSE matches[x]]
<1>1. /\ matches \in Brackets
      /\ DOMAIN matches \in Plans
      /\ matches \in [DOMAIN matches -> MatchIn(DOMAIN matches)]
      /\ ResetLinked(matches)
  BY TournamentForm, BracketsForm
<1>2. CASE ~HasReset(matches, match)
  <2>1. WithoutReset(t, match) = t
    BY <1>2 DEF WithoutReset
  <2> QED
    BY <2>1
<1>3. CASE HasReset(matches, match)
  <2>1. match = GrandFinal(0) /\ match \in DOMAIN matches /\ matches[match].next = GrandFinal(1)
    BY <1>3 DEF HasReset
  <2>2. \A x \in ids : /\ matches[x] \in MatchIn(DOMAIN matches)
                       /\ matches[x].loserNext # GrandFinal(1)
                       /\ x # match => matches[x].next # GrandFinal(1)
    BY <1>1, <2>1 DEF ResetLinked
  <2>3. new \in [ids -> MatchIn(ids)]
    BY <2>2 DEF MatchIn
  <2>4. DOMAIN new = ids /\ \A x \in ids : /\ new[x].next = IF x = match THEN None ELSE matches[x].next
                                           /\ new[x].loserNext = matches[x].loserNext
                                           /\ new[x].confirmed = matches[x].confirmed
                                           /\ new[x].entries = matches[x].entries
    BY <2>2 DEF MatchIn
  <2>5. ids \in Plans
    BY <1>1, FS_Subset DEF Plans
  <2>6. ResetLinked(new)
    <3> HIDE DEF new
    <3> QED
      BY <2>1, <2>2, <2>4, GrandFinals DEF ResetLinked
  <2>7. new \in Brackets
    <3> HIDE DEF new, ids
    <3> QED
      BY <2>3, <2>4, <2>5, <2>6, BracketsForm
  <2>8. WithoutReset(t, match) = [t EXCEPT !.matches = new]
    BY <1>3 DEF WithoutReset, Tournaments
  <2>9. WithoutReset(t, match) \in Tournaments /\ WithoutReset(t, match).matches = new
    <3> HIDE DEF new
    <3> QED
      BY <2>7, <2>8, TournamentForm DEF Tournaments
  <2> HIDE DEF new
  <2> QED
    BY <2>1, <2>4, <2>9
<1> QED
  BY <1>2, <1>3

LEMMA ReopenedType ==
  ASSUME NEW t \in Tournaments, NEW f, NEW match
  PROVE  Reopened(t, f, match) \in Tournaments /\ Reopened(t, f, match).matches = t.matches
BY DEF Reopened, Tournaments, Statuses

\* A match is open again and without scores.
AsOpen(t, match) == [t EXCEPT !.matches[match].confirmed = FALSE,
                              !.matches[match].entries = {[e EXCEPT !.score = None] : e \in @}]

LEMMA OpenType ==
  ASSUME NEW t \in Tournaments, NEW match
  PROVE  LET new == AsOpen(t, match).matches
         IN  /\ AsOpen(t, match) \in Tournaments
             /\ DOMAIN new = DOMAIN t.matches
             /\ \A x \in DOMAIN t.matches :
                  /\ new[x].next = t.matches[x].next
                  /\ new[x].loserNext = t.matches[x].loserNext
                  /\ new[x].confirmed = (t.matches[x].confirmed /\ x # match)
<1> DEFINE rows == {[e EXCEPT !.score = None] : e \in t.matches[match].entries}
           mid == [t.matches EXCEPT ![match].entries = rows]
           new == [mid EXCEPT ![match].confirmed = FALSE]
<1>1. match \in DOMAIN t.matches => rows \in Rows
  <2>1. match \in DOMAIN t.matches => t.matches[match].entries \in Rows
    BY TournamentForm, MatchType
  <2> QED
    BY <2>1, ScorelessType
<1>2. mid \in Brackets /\ SameButRows(t.matches, mid)
  <2> HIDE DEF rows
  <2> QED
    BY <1>1, TournamentForm, RowsReplaced
<1>3. DOMAIN mid = DOMAIN t.matches /\ mid \in [DOMAIN mid -> MatchIn(DOMAIN mid)]
  <2> HIDE DEF mid
  <2> QED
    BY <1>2, BracketsForm DEF SameButRows
<1>4. /\ new \in [DOMAIN mid -> MatchIn(DOMAIN mid)]
      /\ DOMAIN new = DOMAIN mid
      /\ \A x \in DOMAIN mid : /\ new[x].next = mid[x].next
                               /\ new[x].loserNext = mid[x].loserNext
                               /\ new[x].confirmed = (mid[x].confirmed /\ x # match)
  <2> HIDE DEF mid
  <2> QED
    BY <1>3 DEF MatchIn
<1>5. new \in Brackets
  <2> HIDE DEF new, mid
  <2> QED
    BY <1>2, <1>4, SameLinks
<1>6. AsOpen(t, match) = [t EXCEPT !.matches = new]
  <2>1. t.matches \in [DOMAIN t.matches -> MatchIn(DOMAIN t.matches)]
    BY TournamentForm, BracketsForm
  <2> QED
    BY <2>1 DEF AsOpen, Tournaments, MatchIn
<1>7. AsOpen(t, match) \in Tournaments /\ AsOpen(t, match).matches = new
  <2> HIDE DEF new
  <2> QED
    BY <1>5, <1>6, TournamentForm DEF Tournaments
<1> HIDE DEF new, mid
<1> QED
  BY <1>2, <1>3, <1>4, <1>7 DEF SameButRows

LEMMA ClearedUndoes ==
  ASSUME NEW matches \in Brackets, NEW C, Closed(matches, C),
         NEW t \in Tournaments, Undoes(matches, t.matches, C), NEW f, NEW match \in C
  PROVE  Cleared(t, f, match) \in Tournaments /\ Undoes(matches, Cleared(t, f, match).matches, C)
<1> DEFINE mid == WithoutReset(t, match)
           back == Reopened(mid, f, match)
<1>1. match \in DOMAIN t.matches \/ match # GrandFinal(0)
  BY GrandFinals DEF Closed, Undoes
<1>2. /\ mid \in Tournaments
      /\ DOMAIN t.matches \ {GrandFinal(1)} \subseteq DOMAIN mid.matches
      /\ DOMAIN mid.matches \subseteq DOMAIN t.matches
      /\ \A x \in DOMAIN mid.matches :
           /\ mid.matches[x].next \in {t.matches[x].next, None}
           /\ mid.matches[x].loserNext = t.matches[x].loserNext
           /\ mid.matches[x].confirmed = t.matches[x].confirmed
      /\ GrandFinal(1) \in DOMAIN t.matches \ DOMAIN mid.matches
                  => /\ match \in DOMAIN t.matches /\ match = GrandFinal(0)
                     /\ t.matches[match].next = GrandFinal(1)
  BY <1>1, WithoutResetType
<1> HIDE DEF mid
<1>3. back \in Tournaments /\ back.matches = mid.matches
  BY <1>2, ReopenedType
<1> HIDE DEF back
<1>4. Cleared(t, f, match) = AsOpen(back, match)
  BY DEF Cleared, AsOpen, back, mid
<1> DEFINE new == AsOpen(back, match).matches
<1>5. /\ AsOpen(back, match) \in Tournaments
      /\ DOMAIN new = DOMAIN mid.matches
      /\ \A x \in DOMAIN mid.matches :
           /\ new[x].next = mid.matches[x].next
           /\ new[x].loserNext = mid.matches[x].loserNext
           /\ new[x].confirmed = (mid.matches[x].confirmed /\ x # match)
  <2>1. /\ AsOpen(back, match) \in Tournaments
        /\ DOMAIN new = DOMAIN back.matches
        /\ \A x \in DOMAIN back.matches :
             /\ new[x].next = back.matches[x].next
             /\ new[x].loserNext = back.matches[x].loserNext
             /\ new[x].confirmed = (back.matches[x].confirmed /\ x # match)
    BY <1>3, OpenType
  <2> QED
    BY <1>3, <2>1
<1>6. ASSUME GrandFinal(1) \in DOMAIN t.matches \ DOMAIN mid.matches, matches[GrandFinal(1)].confirmed
      PROVE  GrandFinal(1) \in C
  <2>1. matches[match].next = GrandFinal(1)
    BY <1>2, <1>6, GrandFinals DEF Undoes
  <2> QED
    BY <1>6, <2>1, GrandFinals DEF Closed
<1> HIDE DEF new
<1>7. Undoes(matches, new, C)
  <2>1. /\ DOMAIN matches \ {GrandFinal(1)} \subseteq DOMAIN new
        /\ DOMAIN new \subseteq DOMAIN matches
        /\ GrandFinal(1) \in DOMAIN matches \ DOMAIN new => GrandFinal(0) \in C
    BY <1>2, <1>5 DEF Undoes
  <2>2. ASSUME NEW x \in DOMAIN new
        PROVE  /\ new[x].next \in {matches[x].next, None}
               /\ new[x].loserNext = matches[x].loserNext
               /\ new[x].confirmed => matches[x].confirmed
    BY <1>2, <1>5, <2>2 DEF Undoes
  <2>3. ASSUME NEW x \in DOMAIN matches, matches[x].confirmed, x \notin C
        PROVE  x \in DOMAIN new /\ new[x].confirmed
    <3>1. x \in DOMAIN t.matches /\ t.matches[x].confirmed
      BY <2>3 DEF Undoes
    <3>2. x \in DOMAIN mid.matches
      BY <1>2, <1>6, <2>3, <3>1
    <3> QED
      BY <1>2, <1>5, <2>3, <3>1, <3>2
  <2> QED
    BY <2>1, <2>2, <2>3 DEF Undoes
<1> QED
  BY <1>4, <1>5, <1>7 DEF new

LEMMA WithdrawnUndoes ==
  ASSUME NEW matches, NEW C, NEW t \in Tournaments, Undoes(matches, t.matches, C),
         NEW match, NEW who
  PROVE  /\ Withdrawn(t, match, who) \in Tournaments
         /\ Undoes(matches, Withdrawn(t, match, who).matches, C)
<1> DEFINE new == Withdrawn(t, match, who)
<1>1. new \in Tournaments /\ SameButRows(t.matches, new.matches)
  BY WithdrawnType
<1> HIDE DEF new
<1> QED
  BY <1>1 DEF SameButRows, Undoes, new

\* How far a retraction may have come that cannot leave a set of matches.
UndoneIn(matches, C) ==
  {u \in [t : Tournaments, todo : Seq(Due(matches, C))] : Undoes(matches, u.t.matches, C)}

LEMMA UndoneWithin ==
  ASSUME NEW t \in Tournaments, NEW f, NEW C, Closed(t.matches, C), NEW match \in C
  PROVE  /\ FirstUndo(t, match) \in UndoneIn(t.matches, C)
         /\ \A u \in UndoneIn(t.matches, C) : UndoOn(f, u) \in UndoneIn(t.matches, C)
<1> DEFINE matches == t.matches
           S == Due(matches, C)
           A == {u \in [t : Tournaments, todo : Seq(S)] : Undoes(matches, u.t.matches, C)}
<1>1. matches \in Brackets /\ DOMAIN matches \in Plans /\ match \in DOMAIN matches
  BY TournamentForm, BracketsForm DEF Closed
<1>2. Undoes(matches, matches, C)
  BY <1>1 DEF Undoes
<1>3. FirstUndo(t, match) \in A
  <2>1. Undoing(matches, match) \in Seq(S)
    BY <1>1, <1>2, UndoingType
  <2> HIDE DEF S
  <2> QED
    BY <1>2, <2>1 DEF FirstUndo
<1>4. ASSUME NEW u \in A PROVE UndoOn(f, u) \in A
  <2>1. u.t \in Tournaments /\ u.todo \in Seq(S) /\ Undoes(matches, u.t.matches, C) /\ u.t.matches \in Brackets
    BY <1>4, TournamentForm
  <2>2. CASE u.todo = <<>>
    BY <2>2 DEF UndoOn
  <2>3. CASE u.todo # <<>>
    <3> DEFINE x == Head(u.todo)
               rest == Tail(u.todo)
               stands == x.match \in DOMAIN u.t.matches /\ u.t.matches[x.match].confirmed
    <3>1. x \in S /\ rest \in Seq(S)
      <4> HIDE DEF S
      <4> QED
        BY <2>1, <2>3, Rest
    <3>2. /\ x.act \in Acts
          /\ x.match \in DOMAIN matches
          /\ x.act = "undo" /\ matches[x.match].confirmed => x.match \in C
          /\ x.act = "clear" => x.match \in C
      BY <3>1 DEF Due, Steps
    <3> HIDE DEF x, rest, A, S
    <3>3. ASSUME NEW new \in Tournaments, Undoes(matches, new.matches, C), NEW todo \in Seq(S)
          PROVE  [t |-> new, todo |-> todo] \in A
      BY <3>3 DEF A
    <3>4. UndoOn(f, u) =
            CASE x.act = "undo" ->
                   [t |-> u.t, todo |-> IF stands THEN Undoing(u.t.matches, x.match) \o rest ELSE rest]
              [] x.act = "withdraw" -> [t |-> Withdrawn(u.t, x.match, x.who), todo |-> rest]
              [] x.act = "clear"    -> [t |-> Cleared(u.t, f, x.match), todo |-> rest]
      BY <2>3 DEF UndoOn, x, rest
    <3>5. CASE x.act = "undo" /\ stands
      <4>1. x.match \in C
        BY <2>1, <3>2, <3>5 DEF Undoes
      <4>2. Undoing(u.t.matches, x.match) \in Seq(S)
        BY <1>1, <2>1, <3>5, <4>1, UndoingType DEF S
      <4>3. Undoing(u.t.matches, x.match) \o rest \in Seq(S)
        BY <3>1, <4>2, Concatenated
      <4>4. UndoOn(f, u) = [t |-> u.t, todo |-> Undoing(u.t.matches, x.match) \o rest]
        BY <3>4, <3>5
      <4> QED
        BY <2>1, <3>3, <4>3, <4>4
    <3>6. CASE x.act = "undo" /\ ~stands
      <4>1. UndoOn(f, u) = [t |-> u.t, todo |-> rest]
        BY <3>4, <3>6
      <4> QED
        BY <2>1, <3>1, <3>3, <4>1
    <3>7. CASE x.act = "withdraw"
      <4>1. UndoOn(f, u) = [t |-> Withdrawn(u.t, x.match, x.who), todo |-> rest]
        BY <3>4, <3>7
      <4>2. /\ Withdrawn(u.t, x.match, x.who) \in Tournaments
            /\ Undoes(matches, Withdrawn(u.t, x.match, x.who).matches, C)
        BY <2>1, WithdrawnUndoes
      <4> QED
        BY <3>1, <3>3, <4>1, <4>2
    <3>8. CASE x.act = "clear"
      <4>1. UndoOn(f, u) = [t |-> Cleared(u.t, f, x.match), todo |-> rest]
        BY <3>4, <3>8
      <4>2. /\ Cleared(u.t, f, x.match) \in Tournaments
            /\ Undoes(matches, Cleared(u.t, f, x.match).matches, C)
        <5>1. x.match \in C
          BY <3>2, <3>8
        <5> QED
          BY <1>1, <2>1, <5>1, ClearedUndoes
      <4> QED
        BY <3>1, <3>3, <4>1, <4>2
    <3> QED
      BY <3>2, <3>5, <3>6, <3>7, <3>8 DEF Acts
  <2> QED
    BY <2>2, <2>3
<1> QED
  BY <1>3, <1>4 DEF UndoneIn

\* A retraction undoes no results but those in a set it cannot leave.
LEMMA RetractedUndoes ==
  ASSUME NEW t \in Tournaments, NEW f, NEW C, Closed(t.matches, C), NEW match \in C
  PROVE  /\ Retracted(t, f, match) \in Tournaments
         /\ Undoes(t.matches, Retracted(t, f, match).matches, C)
<1>1. IsFiniteSet(DOMAIN t.matches)
  BY TournamentForm, BracketsForm DEF Plans
<1>2. \E u \in UndoneIn(t.matches, C) : Retracted(t, f, match) = u.t
  BY <1>1, UndoneWithin, RetractedBy
<1> QED
  BY <1>2 DEF UndoneIn

\* Any match may be among those undone.
LEMMA RetractedType ==
  ASSUME NEW t \in Tournaments, NEW f, NEW match \in DOMAIN t.matches
  PROVE  /\ Retracted(t, f, match) \in Tournaments
         /\ match \in DOMAIN Retracted(t, f, match).matches
<1> DEFINE C == IF match = GrandFinal(1) THEN {match} ELSE DOMAIN t.matches
<1>1. \A x \in DOMAIN t.matches :
        {t.matches[x].next, t.matches[x].loserNext} \subseteq DOMAIN t.matches \cup {None}
  BY TournamentForm, MatchType
<1>2. Closed(t.matches, C)
  <2>1. match = GrandFinal(1) => t.matches[match].next = None /\ t.matches[match].loserNext = None
    BY TournamentForm, BracketsForm DEF ResetLinked
  <2> QED
    BY <1>1, <2>1 DEF Closed
<1>3. match \in C
  OBVIOUS
<1>4. /\ Retracted(t, f, match) \in Tournaments
      /\ Undoes(t.matches, Retracted(t, f, match).matches, C)
  <2> HIDE DEF C
  <2> QED
    BY <1>2, <1>3, RetractedUndoes
<1> QED
  BY <1>4, GrandFinals DEF Undoes

-----------------------------------------------------------------------------
(* Removing a contestant *)

LEMMA ForfeitedType ==
  ASSUME NEW t \in Tournaments, NEW match \in DOMAIN t.matches, NEW f,
         NEW next, NEW confirming \in BOOLEAN
  PROVE  LET new == Forfeited(t, f, match, next, confirming)
         IN  /\ new \in Tournaments
             /\ DOMAIN new.matches = DOMAIN t.matches
             /\ Keeps(t.matches, new.matches)
<1> DEFINE rows == t.matches[match].entries
           sole == (CHOOSE e \in rows : TRUE).who
           there == next # None /\ sole \in Entrants(t.matches[next].entries)
           advanced == IF there THEN t ELSE Sent(t, next, sole)
           done == AsConfirmed(advanced, match)
           new == Forfeited(t, f, match, next, confirming)
<1>1. new = IF Cardinality(rows) # 1 THEN t
            ELSE IF confirming THEN Concluded(done, f, match, next, sole) ELSE advanced
  BY DEF Forfeited, AsConfirmed
<1>2. CASE Cardinality(rows) # 1
  BY <1>1, <1>2 DEF Keeps
<1>3. CASE Cardinality(rows) = 1
  <2>1. rows \in Rows
    BY TournamentForm, MatchType
  <2>2. sole \in Contestants
    BY <1>3, <2>1, SoleType
  <2> HIDE DEF sole, rows, new
  <2>3. /\ advanced \in Tournaments
        /\ DOMAIN advanced.matches = DOMAIN t.matches
        /\ Keeps(t.matches, advanced.matches)
    <3>1. CASE advanced = t
      BY <3>1 DEF Keeps
    <3>2. CASE advanced = Sent(t, next, sole)
      <4>1. Sent(t, next, sole) \in Tournaments /\ SameButRows(t.matches, Sent(t, next, sole).matches)
        BY <2>2, SentType
      <4>2. Keeps(t.matches, Sent(t, next, sole).matches)
        BY <4>1, SameKeeps
      <4> QED
        BY <3>2, <4>1, <4>2 DEF SameButRows
    <3> QED
      BY <3>1, <3>2
  <2> HIDE DEF advanced
  <2>4. /\ done \in Tournaments
        /\ DOMAIN done.matches = DOMAIN t.matches
        /\ Keeps(t.matches, done.matches)
    <3>1. /\ done \in Tournaments
          /\ DOMAIN done.matches = DOMAIN advanced.matches
          /\ Keeps(advanced.matches, done.matches)
      BY <2>3, ConfirmType
    <3> HIDE DEF done
    <3> QED
      BY <2>3, <3>1, KeepsTransitive
  <2> HIDE DEF done
  <2>5. /\ Concluded(done, f, match, next, sole) \in Tournaments
        /\ Concluded(done, f, match, next, sole).matches = done.matches
    BY <2>2, <2>4, ConcludedType
  <2>6. new = Concluded(done, f, match, next, sole) \/ new = advanced
    BY <1>1, <1>3
  <2>7. /\ new \in Tournaments
        /\ DOMAIN new.matches = DOMAIN t.matches
        /\ Keeps(t.matches, new.matches)
    BY <2>3, <2>4, <2>5, <2>6
  <2> QED
    BY <2>7 DEF new
<1> QED
  BY <1>2, <1>3

\* The rows of a contestant go from some matches.
Without(t, who, open) ==
  [t EXCEPT !.matches = [x \in DOMAIN @ |-> IF x \in open THEN Vacated(@[x], who) ELSE @[x]]]

LEMMA VacatedType ==
  ASSUME NEW ids, NEW match \in MatchIn(ids), NEW who
  PROVE  /\ Vacated(match, who) \in MatchIn(ids)
         /\ Vacated(match, who).next = match.next
         /\ Vacated(match, who).loserNext = match.loserNext
         /\ Vacated(match, who).confirmed = match.confirmed
         /\ Vacated(match, who).entries = {e \in match.entries : e.who # who}
<1> DEFINE left == {e \in match.entries : e.who # who}
<1>1. left \in Rows
  <2>1. match.entries \in Rows
    BY DEF MatchIn
  <2> QED
    BY <2>1, SomeRows
<1>2. Vacated(match, who) = [match EXCEPT !.entries = left]
  BY DEF Vacated, MatchIn
<1> QED
  BY <1>1, <1>2 DEF MatchIn

LEMMA WithoutType ==
  ASSUME NEW t \in Tournaments, NEW who, NEW open
  PROVE  Without(t, who, open) \in Tournaments /\ SameButRows(t.matches, Without(t, who, open).matches)
<1> DEFINE matches == t.matches
           new == [x \in DOMAIN matches |-> IF x \in open THEN Vacated(matches[x], who) ELSE matches[x]]
<1>1. matches \in Brackets /\ matches \in [DOMAIN matches -> MatchIn(DOMAIN matches)]
  BY TournamentForm, BracketsForm
<1>2. Without(t, who, open) = [t EXCEPT !.matches = new]
  BY DEF Without, Tournaments
<1> HIDE DEF matches
<1>3. ASSUME NEW x \in DOMAIN matches
      PROVE  /\ new[x] \in MatchIn(DOMAIN matches)
             /\ new[x].next = matches[x].next
             /\ new[x].loserNext = matches[x].loserNext
             /\ new[x].confirmed = matches[x].confirmed
  <2>1. matches[x] \in MatchIn(DOMAIN matches)
    BY <1>1
  <2>2. /\ Vacated(matches[x], who) \in MatchIn(DOMAIN matches)
        /\ Vacated(matches[x], who).next = matches[x].next
        /\ Vacated(matches[x], who).loserNext = matches[x].loserNext
        /\ Vacated(matches[x], who).confirmed = matches[x].confirmed
    BY <2>1, VacatedType
  <2>3. new[x] = Vacated(matches[x], who) \/ new[x] = matches[x]
    OBVIOUS
  <2> HIDE DEF new
  <2> QED
    BY <2>1, <2>2, <2>3
<1>4. DOMAIN new = DOMAIN matches
  OBVIOUS
<1>5. new \in [DOMAIN matches -> MatchIn(DOMAIN matches)]
  BY <1>3
<1> HIDE DEF new
<1>6. new \in Brackets
  BY <1>1, <1>3, <1>5, SameLinks
<1>7. Without(t, who, open) \in Tournaments /\ Without(t, who, open).matches = new
  BY <1>2, <1>6, TournamentForm DEF Tournaments
<1> QED
  BY <1>3, <1>4, <1>7 DEF SameButRows, matches

\* One more match is looked at.
Looked(f, links, confirming, s) ==
  LET x == CHOOSE x \in s.open : TRUE
  IN  IF s.open = {} THEN s
      ELSE [t |-> Forfeited(s.t, f, x, links[x], confirming), open |-> s.open \ {x}]

\* Whatever holds at first and with every match holds at the end.
LEMMA RemovedBy ==
  ASSUME NEW A, NEW t, NEW f, NEW who, NEW links, NEW confirming,
         IsFiniteSet(DOMAIN links \cap DOMAIN t.matches),
         [t |-> Without(t, who, DOMAIN links \cap DOMAIN t.matches),
          open |-> DOMAIN links \cap DOMAIN t.matches] \in A,
         \A s \in A : Looked(f, links, confirming, s) \in A
  PROVE  \E s \in A : Removed(t, f, who, links, confirming) = s.t
<1> DEFINE open == DOMAIN links \cap DOMAIN t.matches
           a == [t |-> Without(t, who, open), open |-> open]
           step == [x \in Nat \X A |-> Looked(f, links, confirming, x[2])]
           Rec(g) == g = [k \in Nat |-> IF k = 0 THEN a
                                        ELSE Looked(f, links, confirming, g[k - 1])]
           after == CHOOSE g : Rec(g)
           n == Cardinality(open)
<1>1. step \in [Nat \X A -> A]
  OBVIOUS
<1>2. PICK g \in [Nat -> A] : Unfolds(g, a, step)
  <2> HIDE DEF step
  <2> QED
    BY <1>1, Iterated
<1>3. Rec(g)
  <2>1. ASSUME NEW k \in Nat
        PROVE  g[k] = IF k = 0 THEN a ELSE Looked(f, links, confirming, g[k - 1])
    <3>1. g[k] = IF k = 0 THEN a ELSE step[<<k, g[k - 1]>>]
      <4> HIDE DEF step, a
      <4> QED
        BY <1>2 DEF Unfolds
    <3>2. ASSUME k # 0 PROVE step[<<k, g[k - 1]>>] = Looked(f, links, confirming, g[k - 1])
      <4>1. k - 1 \in Nat /\ g[k - 1] \in A
        BY <3>2
      <4> QED
        BY <4>1
    <3> HIDE DEF step, a
    <3> QED
      BY <3>1, <3>2
  <2>2. g = [k \in Nat |-> g[k]]
    OBVIOUS
  <2> HIDE DEF a
  <2> QED
    BY <2>1, <2>2
<1>4. Rec(after)
  <2> HIDE DEF Rec
  <2> QED
    BY <1>3
<1>5. after \in [Nat -> A]
  <2> DEFINE S == {k \in Nat : after[k] \in A}
  <2> HIDE DEF after
  <2>1. \A k \in Nat : after[k] = IF k = 0 THEN a ELSE Looked(f, links, confirming, after[k - 1])
    <3> HIDE DEF a
    <3> QED
      BY <1>4
  <2>2. after = [k \in Nat |-> after[k]]
    <3> HIDE DEF a
    <3> QED
      BY <1>4
  <2>3. 0 \in S
    BY <2>1
  <2> HIDE DEF a
  <2>4. ASSUME NEW k \in Nat, k \in S PROVE k + 1 \in S
    <3>1. k + 1 \in Nat /\ k + 1 # 0 /\ (k + 1) - 1 = k
      OBVIOUS
    <3>2. after[k + 1] = Looked(f, links, confirming, after[k])
      BY <2>1, <3>1
    <3> QED
      BY <2>4, <3>1, <3>2
  <2> HIDE DEF S
  <2>5. Nat \subseteq S
    BY <2>3, <2>4, Induction
  <2> USE DEF S
  <2> QED
    BY <2>2, <2>5
<1>6. Removed(t, f, who, links, confirming) = after[n].t
  BY DEF Removed, Without, Looked
<1>7. after[n] \in A
  <2>1. n \in Nat
    BY FS_CardinalityType
  <2> HIDE DEF after, n
  <2> QED
    BY <1>5, <2>1
<1> QED
  BY <1>6, <1>7

LEMMA RemovedType ==
  ASSUME NEW t \in Tournaments, NEW f, NEW who, NEW links, NEW confirming \in BOOLEAN
  PROVE  /\ Removed(t, f, who, links, confirming) \in Tournaments
         /\ Keeps(t.matches, Removed(t, f, who, links, confirming).matches)
<1> DEFINE ids == DOMAIN t.matches
           open == DOMAIN links \cap ids
           A == {s \in [t : Tournaments, open : SUBSET ids] :
                   DOMAIN s.t.matches = ids /\ Keeps(t.matches, s.t.matches)}
<1>1. IsFiniteSet(open)
  <2>1. ids \in Plans
    BY TournamentForm, BracketsForm
  <2> QED
    BY <2>1, FS_Subset DEF Plans
<1>2. [t |-> Without(t, who, open), open |-> open] \in A
  <2>1. Without(t, who, open) \in Tournaments /\ SameButRows(t.matches, Without(t, who, open).matches)
    BY WithoutType
  <2>2. Keeps(t.matches, Without(t, who, open).matches)
    BY <2>1, SameKeeps
  <2> QED
    BY <2>1, <2>2 DEF SameButRows
<1>3. ASSUME NEW s \in A PROVE Looked(f, links, confirming, s) \in A
  <2> DEFINE x == CHOOSE x \in s.open : TRUE
             new == Forfeited(s.t, f, x, links[x], confirming)
  <2>1. CASE s.open = {}
    BY <2>1 DEF Looked
  <2>2. CASE s.open # {}
    <3>1. s.t \in Tournaments /\ x \in DOMAIN s.t.matches /\ s.open \in SUBSET ids
      BY <2>2
    <3>2. /\ new \in Tournaments
          /\ DOMAIN new.matches = DOMAIN s.t.matches
          /\ Keeps(s.t.matches, new.matches)
      <4> HIDE DEF x
      <4> QED
        BY <3>1, ForfeitedType
    <3>3. Looked(f, links, confirming, s) = [t |-> new, open |-> s.open \ {x}]
      BY <2>2 DEF Looked
    <3> HIDE DEF new, x
    <3>4. DOMAIN new.matches = ids /\ Keeps(t.matches, new.matches)
      BY <3>2, KeepsTransitive
    <3> QED
      BY <3>1, <3>2, <3>3, <3>4
  <2> QED
    BY <2>1, <2>2
<1>4. \E s \in A : Removed(t, f, who, links, confirming) = s.t
  <2> HIDE DEF A
  <2> QED
    BY <1>1, <1>2, <1>3, RemovedBy
<1> QED
  BY <1>4

-----------------------------------------------------------------------------
(* Generated brackets *)

\* The matches of one bracket with at most a rounds of at most b matches.
LEMMA GridFinite ==
  ASSUME NEW bracket, NEW a \in Nat, NEW b \in Nat,
         NEW ids \in SUBSET ({bracket} \X (0..a) \X (0..b))
  PROVE  IsFiniteSet(ids)
<1> DEFINE grid == (0..a) \X (0..b)
           f == [x \in grid |-> <<bracket, x[1], x[2]>>]
<1>1. IsFiniteSet(grid)
  <2>1. IsFiniteSet(0..a) /\ IsFiniteSet(0..b)
    BY FS_Interval
  <2> QED
    BY <2>1, FS_Product
<1>2. f \in [grid -> {bracket} \X (0..a) \X (0..b)]
  OBVIOUS
<1>3. IsFiniteSet({f[x] : x \in grid})
  <2> HIDE DEF f, grid
  <2> QED
    BY <1>1, <1>2, Mapped
<1>4. ASSUME NEW id \in ids PROVE \E x \in grid : id = f[x]
  <2>1. id = <<bracket, id[2], id[3]>> /\ <<id[2], id[3]>> \in grid
    OBVIOUS
  <2>2. f[<<id[2], id[3]>>] = id
    BY <2>1
  <2> HIDE DEF f, grid
  <2> QED
    BY <2>1, <2>2
<1>5. ids \in SUBSET {f[x] : x \in grid}
  <2> HIDE DEF f, grid
  <2> QED
    BY <1>4
<1> QED
  BY <1>3, <1>5, FS_Subset

LEMMA TreeForm ==
  ASSUME NEW bracket \in {"MAIN", "WB"}, NEW p \in Nat \ {0}
  PROVE  /\ Tree(bracket, p) \in Plans
         /\ \A r, m : <<bracket, r, m>> \in Tree(bracket, p) <=>
                        r \in 0..(p - 1) /\ m \in 0..(Pow2[p - 1 - r] - 1)
         /\ \A id \in Tree(bracket, p) : /\ id = <<bracket, id[2], id[3]>>
                                         /\ id[2] \in 0..(p - 1)
                                         /\ id[3] \in 0..(Pow2[p - 1 - id[2]] - 1)
<1> DEFINE Row2(r) == {<<bracket, r, m>> : m \in 0..(Pow2[p - 1 - r] - 1)}
<1>1. Tree(bracket, p) = UNION {Row2(r) : r \in 0..(p - 1)}
  BY DEF Tree
<1>2. ASSUME NEW id \in Tree(bracket, p)
      PROVE  \E r \in 0..(p - 1) : \E m \in 0..(Pow2[p - 1 - r] - 1) : id = <<bracket, r, m>>
  BY <1>1
<1>3. \A id \in Tree(bracket, p) : /\ id = <<bracket, id[2], id[3]>>
                                   /\ id[2] \in 0..(p - 1)
                                   /\ id[3] \in 0..(Pow2[p - 1 - id[2]] - 1)
  BY <1>2
<1>4. \A r, m : <<bracket, r, m>> \in Tree(bracket, p) <=>
                  r \in 0..(p - 1) /\ m \in 0..(Pow2[p - 1 - r] - 1)
  <2>1. ASSUME NEW r, NEW m, <<bracket, r, m>> \in Tree(bracket, p)
        PROVE  r \in 0..(p - 1) /\ m \in 0..(Pow2[p - 1 - r] - 1)
    BY <1>2, <2>1
  <2>2. ASSUME NEW r, NEW m, r \in 0..(p - 1) /\ m \in 0..(Pow2[p - 1 - r] - 1)
        PROVE  <<bracket, r, m>> \in Tree(bracket, p)
    BY <1>1, <2>2
  <2> QED
    BY <2>1, <2>2
<1>5. \A id \in Tree(bracket, p) : id \in {bracket} \X (0..p) \X (0..Pow2[p])
  <2> TAKE id \in Tree(bracket, p)
  <2>1. id = <<bracket, id[2], id[3]>> /\ id[2] \in 0..(p - 1) /\ id[3] \in 0..(Pow2[p - 1 - id[2]] - 1)
    BY <1>3
  <2>2. p - 1 - id[2] \in Nat /\ p - 1 - id[2] <= p
    BY <2>1
  <2>3. Pow2[p - 1 - id[2]] <= Pow2[p] /\ Pow2[p] \in Nat /\ Pow2[p - 1 - id[2]] \in Nat
    BY <2>2, Pow2Monotone, Pow2Type
  <2>4. id[2] \in 0..p /\ id[3] \in 0..Pow2[p]
    BY <2>1, <2>3
  <2> QED
    BY <2>1, <2>4
<1>6. IsFiniteSet(Tree(bracket, p))
  <2>1. Tree(bracket, p) \in SUBSET ({bracket} \X (0..p) \X (0..Pow2[p]))
    BY <1>5
  <2> QED
    BY <2>1, GridFinite, Pow2Type
<1>7. Tree(bracket, p) \subseteq Ids
  <2>1. Pow2[p] \in Nat
    BY Pow2Type
  <2> QED
    BY <1>5, <2>1 DEF Ids
<1> QED
  BY <1>3, <1>4, <1>6, <1>7 DEF Plans

\* A bracket without a reset is one if its links are.
LEMMA PlainBracket ==
  ASSUME NEW ids \in Plans, GrandFinal(1) \notin ids, NEW matches \in [ids -> MatchIn(ids)]
  PROVE  matches \in Brackets
<1>1. \A x \in ids : /\ matches[x].next \in ids \cup {None}
                     /\ matches[x].loserNext \in ids \cup {None}
  BY DEF MatchIn
<1>2. GrandFinal(1) # None
  BY GrandFinals
<1>3. ResetLinked(matches)
  BY <1>1, <1>2 DEF ResetLinked
<1> QED
  BY <1>3 DEF Brackets

LEMMA PlacedType ==
  ASSUME NEW list \in Seq(Contestants), Len(list) >= 2,
         NEW m \in 0..(Pow2[Rounds(list) - 1] - 1)
  PROVE  Placed(list, m) \in SUBSET Contestants /\ Alone(list, m) \in BOOLEAN
<1> DEFINE p == Rounds(list)
           seeds == {SeedOrder[p][2 * m + k] : k \in {1, 2}}
<1>1. p \in Nat \ {0} /\ Pow2[p] = 2 * Pow2[p - 1] /\ Pow2[p - 1] \in Nat
  <2>1. p \in Nat \ {0} /\ p - 1 \in Nat
    BY RoundsType
  <2> HIDE DEF p
  <2> QED
    BY <2>1, Pow2Grows
<1>2. \A k \in {1, 2} : SeedOrder[p][2 * m + k] \in 0..(Pow2[p] - 1)
  <2>1. SeedOrder[p] \in [1..Pow2[p] -> 0..(Pow2[p] - 1)]
    <3> HIDE DEF p
    <3> QED
      BY <1>1, SeedOrderUnfolds
  <2>2. m \in 0..(Pow2[p - 1] - 1)
    OBVIOUS
  <2> HIDE DEF p
  <2>3. \A k \in {1, 2} : 2 * m + k \in 1..Pow2[p]
    BY <1>1, <2>2
  <2> QED
    BY <2>1, <2>3
<1>3. seeds \in SUBSET Nat
  <2>1. Pow2[p] \in Nat
    BY <1>1
  <2> HIDE DEF p
  <2> QED
    BY <1>2, <2>1
<1>4. Placed(list, m) = {list[s + 1] : s \in {x \in seeds : x < Len(list)}}
  BY DEF Placed
<1> HIDE DEF seeds
<1>5. Placed(list, m) \in SUBSET Contestants
  BY <1>3, <1>4
<1> QED
  BY <1>5 DEF Alone

LEMMA StartersType ==
  ASSUME NEW list \in Seq(Contestants), Len(list) >= 2,
         NEW r \in 0..(Rounds(list) - 1), NEW m \in 0..(Pow2[Rounds(list) - 1 - r] - 1)
  PROVE  Starters(list, r, m) \in SUBSET Contestants
<1> DEFINE p == Rounds(list)
<1>1. p \in Nat \ {0} /\ r \in 0..(p - 1) /\ m \in 0..(Pow2[p - 1 - r] - 1)
  BY RoundsType
<1>2. CASE r = 0
  <2>1. m \in 0..(Pow2[p - 1] - 1)
    BY <1>1, <1>2
  <2> QED
    BY <1>2, <2>1, PlacedType DEF Starters
<1>3. CASE r = 1
  <2> DEFINE from == {x \in {2 * m, 2 * m + 1} : Alone(list, x)}
  <2>1. p - 1 - r = (p - 1) - 1 /\ p - 1 \in Nat \ {0}
    <3> HIDE DEF p
    <3> QED
      BY <1>1, <1>3
  <2>2. Pow2[p - 1] = 2 * Pow2[(p - 1) - 1] /\ Pow2[(p - 1) - 1] \in Nat
    <3> DEFINE q == p - 1
    <3>1. q \in Nat \ {0} /\ q - 1 \in Nat
      BY <2>1
    <3> HIDE DEF q
    <3>2. Pow2[q] = 2 * Pow2[q - 1] /\ Pow2[q - 1] \in Nat
      BY <3>1, Pow2Grows, Pow2Type
    <3> QED
      BY <3>2 DEF q
  <2>3. m \in 0..(Pow2[(p - 1) - 1] - 1)
    BY <2>1
  <2>4. \A x \in from : x \in 0..(Pow2[p - 1] - 1)
    <3> HIDE DEF p
    <3> QED
      BY <2>2, <2>3
  <2>5. \A x \in from : Placed(list, x) \in SUBSET Contestants
    <3> HIDE DEF from
    <3> QED
      BY <2>4, PlacedType
  <2>6. Starters(list, r, m) = UNION {Placed(list, k) : k \in from}
    BY <1>3 DEF Starters
  <2> HIDE DEF from
  <2> QED
    BY <2>5, <2>6
<1>4. CASE r # 0 /\ r # 1
  BY <1>4 DEF Starters
<1> QED
  BY <1>2, <1>3, <1>4

\* Half as many matches in the next round.
LEMMA NextRound ==
  ASSUME NEW p \in Nat \ {0}, NEW r \in 0..(p - 1), r < p - 1, NEW m \in 0..(Pow2[p - 1 - r] - 1)
  PROVE  r + 1 \in 0..(p - 1) /\ m \div 2 \in 0..(Pow2[p - 1 - (r + 1)] - 1)
<1> DEFINE q == p - 1 - r
<1>1. q \in Nat \ {0} /\ q - 1 \in Nat /\ p - 1 - (r + 1) = q - 1
  OBVIOUS
<1>2. m \in 0..(Pow2[q] - 1)
  OBVIOUS
<1> HIDE DEF q
<1>3. Pow2[q] = 2 * Pow2[q - 1] /\ Pow2[q - 1] \in Nat
  BY <1>1, Pow2Grows, Pow2Type
<1>4. m \div 2 \in 0..(Pow2[q - 1] - 1)
  BY <1>2, <1>3
<1> QED
  BY <1>1, <1>4

LEMMA SingleEliminationType ==
  ASSUME NEW list \in Seq(Contestants), Len(list) >= 2
  PROVE  SingleElimination(list) \in Brackets
<1> DEFINE p == Rounds(list)
           third == IF p >= 2 THEN {ThirdPlace} ELSE {}
           tree == Tree("MAIN", p)
           ids == tree \cup third
           Next1(r, m) == IF r < p - 1 THEN <<"MAIN", r + 1, m \div 2>> ELSE None
           LoserNext(r) == IF p >= 2 /\ r = p - 2 THEN ThirdPlace ELSE None
           Over(r, m) == r = 0 /\ p > 1 /\ Alone(list, m)
           Main(r, m) == Made(Next1(r, m), LoserNext(r), Over(r, m), Starters(list, r, m))
           matches == [id \in ids |->
                         IF id = ThirdPlace THEN Made(None, None, FALSE, {}) ELSE Main(id[2], id[3])]
<1>1. SingleElimination(list) = matches
  BY DEF SingleElimination
<1>2. p \in Nat \ {0}
  BY RoundsType
<1>3. /\ tree \in Plans
      /\ \A r, m : <<"MAIN", r, m>> \in tree <=> r \in 0..(p - 1) /\ m \in 0..(Pow2[p - 1 - r] - 1)
      /\ \A id \in tree : /\ id = <<"MAIN", id[2], id[3]>>
                          /\ id[2] \in 0..(p - 1)
                          /\ id[3] \in 0..(Pow2[p - 1 - id[2]] - 1)
  <2> HIDE DEF p
  <2> QED
    BY <1>2, TreeForm
<1>4. ASSUME NEW r \in 0..(p - 1), NEW m \in 0..(Pow2[p - 1 - r] - 1)
      PROVE  Main(r, m) \in MatchIn(ids)
  <2>1. Starters(list, r, m) \in SUBSET Contestants
    BY StartersType
  <2>2. Next1(r, m) \in ids \cup {None}
    <3>1. CASE r < p - 1
      <4>1. r + 1 \in 0..(p - 1) /\ m \div 2 \in 0..(Pow2[p - 1 - (r + 1)] - 1)
        <5>1. p \in Nat \ {0} /\ r \in 0..(p - 1) /\ m \in 0..(Pow2[p - 1 - r] - 1)
          BY <1>2
        <5> HIDE DEF p
        <5> QED
          BY <3>1, <5>1, NextRound
      <4>2. <<"MAIN", r + 1, m \div 2>> \in tree
        <5> HIDE DEF p, tree
        <5> QED
          BY <1>3, <4>1
      <4> HIDE DEF p, tree
      <4> QED
        BY <3>1, <4>2
    <3>2. CASE ~(r < p - 1)
      BY <3>2
    <3> QED
      BY <3>1, <3>2
  <2>3. LoserNext(r) \in ids \cup {None}
    <3> HIDE DEF tree
    <3> QED
      OBVIOUS
  <2>4. Over(r, m) \in BOOLEAN
    OBVIOUS
  <2> HIDE DEF Next1, LoserNext, Over, ids
  <2> QED
    BY <2>1, <2>2, <2>3, <2>4, MadeType
<1>5. Made(None, None, FALSE, {}) \in MatchIn(ids)
  <2> HIDE DEF ids
  <2> QED
    BY FreshType DEF Made, MatchIn
<1>6. ids \in Plans /\ GrandFinal(1) \notin ids
  <2>1. ThirdPlace \in Ids /\ ThirdPlace # GrandFinal(1)
    BY DEF ThirdPlace, Ids, GrandFinal
  <2>2. GrandFinal(1) \notin tree
    <3> HIDE DEF tree, p
    <3>1. \A id \in tree : id[1] = "MAIN"
      BY <1>3
    <3> QED
      BY <3>1 DEF GrandFinal
  <2>3. IsFiniteSet(tree) /\ tree \subseteq Ids
    <3> HIDE DEF tree
    <3> QED
      BY <1>3 DEF Plans
  <2> HIDE DEF tree, p
  <2>4. IsFiniteSet(third)
    BY FS_Singleton, FS_EmptySet
  <2>5. IsFiniteSet(ids)
    BY <2>3, <2>4, FS_Union
  <2> QED
    BY <2>1, <2>2, <2>3, <2>5 DEF Plans
<1>7. matches \in [ids -> MatchIn(ids)]
  <2> HIDE DEF Main, p, tree
  <2>1. ASSUME NEW id \in ids PROVE matches[id] \in MatchIn(ids)
    <3>1. CASE id = ThirdPlace
      BY <1>5, <3>1
    <3>2. CASE id # ThirdPlace
      <4>1. id \in tree
        BY <3>2
      <4>2. Main(id[2], id[3]) \in MatchIn(ids)
        BY <1>3, <1>4, <4>1
      <4> QED
        BY <3>2, <4>2
    <3> QED
      BY <3>1, <3>2
  <2> HIDE DEF ids
  <2> QED
    BY <2>1
<1> HIDE DEF matches, ids
<1> QED
  BY <1>1, <1>6, <1>7, PlainBracket

\* The rounds of the losers' bracket.
LEMMA LowerForm ==
  ASSUME NEW p \in Nat, p >= 2
  PROVE  /\ Lower(p) \in Plans
         /\ \A r, m : <<"LB", r, m>> \in Lower(p) <=>
                        r \in 1..(2 * (p - 1)) /\ m \in 0..(LowerCount(p, r) - 1)
         /\ \A id \in Lower(p) : /\ id = <<"LB", id[2], id[3]>>
                                 /\ id[2] \in 1..(2 * (p - 1))
                                 /\ id[3] \in 0..(LowerCount(p, id[2]) - 1)
         /\ \A r \in 1..(2 * (p - 1)) : LowerCount(p, r) \in Nat \ {0}
<1>1. ASSUME NEW r \in 1..(2 * (p - 1))
      PROVE  LowerCount(p, r) \in Nat \ {0} /\ LowerCount(p, r) <= Pow2[p]
  <2> DEFINE k == p - 2 - ((r - 1) \div 2)
  <2>1. k \in Nat /\ k <= p
    OBVIOUS
  <2>2. LowerCount(p, r) = Pow2[k]
    BY DEF LowerCount
  <2> HIDE DEF k
  <2> QED
    BY <2>1, <2>2, Pow2Grows, Pow2Monotone
<1>2. Lower(p) = UNION {{<<"LB", r, m>> : m \in 0..(LowerCount(p, r) - 1)} : r \in 1..(2 * (p - 1))}
  BY DEF Lower
<1>3. ASSUME NEW id \in Lower(p)
      PROVE  \E r \in 1..(2 * (p - 1)) : \E m \in 0..(LowerCount(p, r) - 1) : id = <<"LB", r, m>>
  BY <1>2
<1>4. \A id \in Lower(p) : /\ id = <<"LB", id[2], id[3]>>
                           /\ id[2] \in 1..(2 * (p - 1))
                           /\ id[3] \in 0..(LowerCount(p, id[2]) - 1)
  BY <1>3
<1>5. \A r, m : <<"LB", r, m>> \in Lower(p) <=>
                  r \in 1..(2 * (p - 1)) /\ m \in 0..(LowerCount(p, r) - 1)
  <2>1. ASSUME NEW r, NEW m, <<"LB", r, m>> \in Lower(p)
        PROVE  r \in 1..(2 * (p - 1)) /\ m \in 0..(LowerCount(p, r) - 1)
    BY <1>3, <2>1
  <2>2. ASSUME NEW r, NEW m, r \in 1..(2 * (p - 1)) /\ m \in 0..(LowerCount(p, r) - 1)
        PROVE  <<"LB", r, m>> \in Lower(p)
    BY <1>2, <2>2
  <2> QED
    BY <2>1, <2>2
<1>6. Pow2[p] \in Nat /\ 2 * (p - 1) \in Nat
  BY Pow2Type
<1>7. \A id \in Lower(p) : id \in {"LB"} \X (0..(2 * (p - 1))) \X (0..Pow2[p])
  <2> TAKE id \in Lower(p)
  <2>1. id = <<"LB", id[2], id[3]>> /\ id[2] \in 1..(2 * (p - 1)) /\ id[3] \in 0..(LowerCount(p, id[2]) - 1)
    BY <1>4
  <2>2. id[2] \in 0..(2 * (p - 1)) /\ id[3] \in 0..Pow2[p]
    BY <1>1, <1>6, <2>1
  <2> QED
    BY <2>1, <2>2
<1>8. IsFiniteSet(Lower(p))
  <2>1. Lower(p) \in SUBSET ({"LB"} \X (0..(2 * (p - 1))) \X (0..Pow2[p]))
    BY <1>7
  <2> QED
    BY <1>6, <2>1, GridFinite
<1>9. Lower(p) \subseteq Ids
  BY <1>6, <1>7 DEF Ids
<1> QED
  BY <1>1, <1>4, <1>5, <1>8, <1>9 DEF Plans

\* Every losers' match leads to one of the next round, or to the final.
LEMMA LowerNextType ==
  ASSUME NEW p \in Nat, p >= 2, NEW r \in 1..(2 * (p - 1)), NEW m \in 0..(LowerCount(p, r) - 1)
  PROVE  LowerNext(p, r, m) \in Lower(p) \cup {GrandFinal(0)}
<1> DEFINE k == p - 2 - ((r - 1) \div 2)
<1>1. CASE r = 2 * (p - 1)
  BY <1>1 DEF LowerNext
<1>2. CASE r # 2 * (p - 1) /\ r % 2 = 1
  <2>1. r + 1 \in 1..(2 * (p - 1)) /\ ((r + 1) - 1) \div 2 = (r - 1) \div 2
    BY <1>2
  <2>2. LowerCount(p, r + 1) = LowerCount(p, r)
    BY <2>1 DEF LowerCount
  <2>3. LowerNext(p, r, m) = <<"LB", r + 1, m>>
    BY <1>2 DEF LowerNext
  <2> QED
    BY <2>1, <2>2, <2>3, LowerForm
<1>3. CASE r # 2 * (p - 1) /\ r % 2 # 1
  <2>1. r + 1 \in 1..(2 * (p - 1)) /\ ((r + 1) - 1) \div 2 = (r - 1) \div 2 + 1
    BY <1>3
  <2>2. k \in Nat \ {0} /\ k - 1 \in Nat /\ p - 2 - (((r + 1) - 1) \div 2) = k - 1
    BY <1>3, <2>1
  <2>3. LowerCount(p, r) = Pow2[k] /\ LowerCount(p, r + 1) = Pow2[k - 1]
    BY <2>2 DEF LowerCount
  <2> HIDE DEF k
  <2>4. Pow2[k] = 2 * Pow2[k - 1] /\ Pow2[k - 1] \in Nat
    BY <2>2, Pow2Grows, Pow2Type
  <2>5. m \div 2 \in 0..(LowerCount(p, r + 1) - 1)
    BY <2>3, <2>4
  <2>6. LowerNext(p, r, m) = <<"LB", r + 1, m \div 2>>
    BY <1>3 DEF LowerNext
  <2> QED
    BY <2>1, <2>5, <2>6, LowerForm
<1> QED
  BY <1>1, <1>2, <1>3

LEMMA LoserTargetType ==
  ASSUME NEW list \in Seq(Contestants), Len(list) >= 4,
         NEW r \in 0..(Rounds(list) - 1), NEW m \in Nat
  PROVE  LoserTarget(list, r, m) \in Lower(Rounds(list)) \cup {None}
<1> DEFINE p == Rounds(list)
           round == IF r = 0 THEN 1 ELSE 2 * r
<1>1. p \in Nat /\ p >= 2 /\ r \in 0..(p - 1)
  BY RoundsType
<1>2. LoserTarget(list, r, m) \in {None, <<"LB", round, m % LowerCount(p, round)>>}
  BY DEF LoserTarget
<1> HIDE DEF p
<1>3. round \in 1..(2 * (p - 1))
  BY <1>1
<1> HIDE DEF round
<1>4. LowerCount(p, round) \in Nat \ {0}
  BY <1>1, <1>3, LowerForm
<1>5. m % LowerCount(p, round) \in 0..(LowerCount(p, round) - 1)
  BY <1>4
<1>6. <<"LB", round, m % LowerCount(p, round)>> \in Lower(p)
  BY <1>1, <1>3, <1>5, LowerForm
<1> QED
  BY <1>2, <1>6 DEF p

LEMMA DoubleEliminationType ==
  ASSUME NEW list \in Seq(Contestants), Len(list) >= 4
  PROVE  DoubleElimination(list) \in Brackets
<1> DEFINE p == Rounds(list)
           upper == Tree("WB", p)
           lower == Lower(p)
           ids == upper \cup lower \cup {GrandFinal(0)}
           Next1(r, m) == IF r < p - 1 THEN <<"WB", r + 1, m \div 2>> ELSE GrandFinal(0)
           Over(r, m) == r = 0 /\ Alone(list, m)
           Upper(r, m) == Made(Next1(r, m), LoserTarget(list, r, m), Over(r, m), Starters(list, r, m))
           Onward(id) == IF id \in DeadLower(list) THEN None ELSE LowerNext(p, id[2], id[3])
           Losing(id) == Made(Onward(id), None, FALSE, {})
           matches == [id \in ids |->
                         CASE id \in upper -> Upper(id[2], id[3])
                           [] id \in lower -> Losing(id)
                           [] OTHER -> Made(None, None, FALSE, {})]
<1>1. DoubleElimination(list) = matches
  BY DEF DoubleElimination
<1>2. p \in Nat \ {0} /\ p >= 2
  BY RoundsType
<1>3. /\ upper \in Plans
      /\ \A r, m : <<"WB", r, m>> \in upper <=> r \in 0..(p - 1) /\ m \in 0..(Pow2[p - 1 - r] - 1)
      /\ \A id \in upper : /\ id = <<"WB", id[2], id[3]>>
                           /\ id[2] \in 0..(p - 1)
                           /\ id[3] \in 0..(Pow2[p - 1 - id[2]] - 1)
  <2> HIDE DEF p
  <2> QED
    BY <1>2, TreeForm
<1>4. /\ lower \in Plans
      /\ \A id \in lower : /\ id = <<"LB", id[2], id[3]>>
                           /\ id[2] \in 1..(2 * (p - 1))
                           /\ id[3] \in 0..(LowerCount(p, id[2]) - 1)
  <2> HIDE DEF p
  <2> QED
    BY <1>2, LowerForm
<1>5. ASSUME NEW r \in 0..(p - 1), NEW m \in 0..(Pow2[p - 1 - r] - 1)
      PROVE  Upper(r, m) \in MatchIn(ids)
  <2>1. Starters(list, r, m) \in SUBSET Contestants
    BY StartersType
  <2>2. Next1(r, m) \in ids \cup {None}
    <3>1. CASE r < p - 1
      <4>1. r + 1 \in 0..(p - 1) /\ m \div 2 \in 0..(Pow2[p - 1 - (r + 1)] - 1)
        <5>1. p \in Nat \ {0} /\ r \in 0..(p - 1) /\ m \in 0..(Pow2[p - 1 - r] - 1)
          BY <1>2
        <5> HIDE DEF p
        <5> QED
          BY <3>1, <5>1, NextRound
      <4>2. <<"WB", r + 1, m \div 2>> \in upper
        <5> HIDE DEF p, upper
        <5> QED
          BY <1>3, <4>1
      <4> HIDE DEF p, upper
      <4> QED
        BY <3>1, <4>2
    <3>2. CASE ~(r < p - 1)
      BY <3>2
    <3> QED
      BY <3>1, <3>2
  <2>3. LoserTarget(list, r, m) \in ids \cup {None}
    <3>1. m \in Nat
      <4>1. p - 1 - r \in Nat
        <5>1. p \in Nat /\ r \in 0..(p - 1)
          BY <1>2
        <5> HIDE DEF p
        <5> QED
          BY <5>1
      <4>2. Pow2[p - 1 - r] \in Nat
        <5> DEFINE q == p - 1 - r
        <5>1. q \in Nat
          BY <4>1
        <5> HIDE DEF q
        <5>2. Pow2[q] \in Nat
          BY <5>1, Pow2Type
        <5> QED
          BY <5>2 DEF q
      <4> DEFINE k == Pow2[p - 1 - r]
      <4>3. m \in 0..(k - 1) /\ k \in Nat
        BY <4>2
      <4> HIDE DEF k
      <4> QED
        BY <4>3
    <3>2. LoserTarget(list, r, m) \in Lower(Rounds(list)) \cup {None}
      BY <3>1, LoserTargetType
    <3> HIDE DEF upper
    <3> QED
      BY <3>2
  <2>4. Over(r, m) \in BOOLEAN
    OBVIOUS
  <2> HIDE DEF Next1, Over, ids
  <2> QED
    BY <2>1, <2>2, <2>3, <2>4, MadeType
<1>6. ASSUME NEW id \in lower
      PROVE  Losing(id) \in MatchIn(ids)
  <2>1. LowerNext(p, id[2], id[3]) \in lower \cup {GrandFinal(0)}
    <3>1. id[2] \in 1..(2 * (p - 1)) /\ id[3] \in 0..(LowerCount(p, id[2]) - 1)
      <4> HIDE DEF p, lower
      <4> QED
        BY <1>4
    <3> HIDE DEF p
    <3> QED
      BY <1>2, <3>1, LowerNextType
  <2>2. Onward(id) \in ids \cup {None}
    <3> HIDE DEF lower, upper
    <3> QED
      BY <2>1
  <2>3. {} \in SUBSET Contestants /\ FALSE \in BOOLEAN
    OBVIOUS
  <2> HIDE DEF Onward, ids
  <2> QED
    BY <2>2, FreshType DEF Made, MatchIn
<1>7. Made(None, None, FALSE, {}) \in MatchIn(ids)
  <2> HIDE DEF ids
  <2> QED
    BY FreshType DEF Made, MatchIn
<1>8. ids \in Plans /\ GrandFinal(1) \notin ids
  <2>1. IsFiniteSet(upper) /\ upper \subseteq Ids /\ IsFiniteSet(lower) /\ lower \subseteq Ids
    <3> HIDE DEF upper, lower
    <3> QED
      BY <1>3, <1>4 DEF Plans
  <2>2. GrandFinal(1) \notin upper /\ GrandFinal(1) \notin lower
    <3> HIDE DEF upper, lower, p
    <3>1. (\A id \in upper : id[1] = "WB") /\ (\A id \in lower : id[1] = "LB")
      BY <1>3, <1>4
    <3> QED
      BY <3>1 DEF GrandFinal
  <2> HIDE DEF upper, lower
  <2>3. IsFiniteSet(upper \cup lower)
    BY <2>1, FS_Union
  <2>4. IsFiniteSet(ids)
    BY <2>3, FS_AddElement
  <2> QED
    BY <2>1, <2>2, <2>4, GrandFinals DEF Plans
<1>9. matches \in [ids -> MatchIn(ids)]
  <2> HIDE DEF Upper, Losing, p, upper, lower
  <2>1. ASSUME NEW id \in ids PROVE matches[id] \in MatchIn(ids)
    <3>1. CASE id \in upper
      <4>1. Upper(id[2], id[3]) \in MatchIn(ids)
        BY <1>3, <1>5, <3>1
      <4>2. matches[id] = Upper(id[2], id[3])
        <5>1. id \notin lower
          <6>1. id[1] = "WB" /\ \A x \in lower : x[1] = "LB"
            BY <1>3, <1>4, <3>1
          <6> QED
            BY <6>1
        <5> QED
          BY <3>1, <5>1
      <4> QED
        BY <4>1, <4>2
    <3>2. CASE id \notin upper /\ id \in lower
      <4>1. matches[id] = Losing(id)
        BY <3>2
      <4> QED
        BY <1>6, <3>2, <4>1
    <3>3. CASE id \notin upper /\ id \notin lower
      <4>1. matches[id] = Made(None, None, FALSE, {})
        BY <3>3
      <4> HIDE DEF matches, ids
      <4> QED
        BY <1>7, <4>1
    <3> QED
      BY <3>1, <3>2, <3>3
  <2> HIDE DEF ids
  <2> QED
    BY <2>1
<1> HIDE DEF matches, ids
<1> QED
  BY <1>1, <1>8, <1>9, PlainBracket

LEMMA RoundRobinType ==
  ASSUME NEW list \in Seq(Contestants), Len(list) >= 2
  PROVE  RoundRobin(list) \in Brackets
<1> DEFINE n == Len(list) + (Len(list) % 2)
           Pair(id) == CirclePairs(list, id[2])[id[3]]
           ids == {id \in {"RR"} \X (0..(n - 2)) \X (1..(n \div 2)) : Pair(id) \subseteq 1..Len(list)}
           matches == [id \in ids |-> Made(None, None, FALSE, {list[k] : k \in Pair(id)})]
<1>1. RoundRobin(list) = matches
  BY DEF RoundRobin
<1>2. n \in Nat /\ n - 2 \in Nat /\ n \div 2 \in Nat
  OBVIOUS
<1> HIDE DEF n, Pair
<1>3. ids \in Plans
  <2>1. ids \in SUBSET ({"RR"} \X (0..(n - 2)) \X (0..(n \div 2)))
    BY <1>2
  <2>2. IsFiniteSet(ids)
    <3> HIDE DEF ids
    <3> QED
      BY <1>2, <2>1, GridFinite
  <2>3. ids \subseteq Ids
    BY <1>2 DEF Ids
  <2> QED
    BY <2>2, <2>3 DEF Plans
<1>4. GrandFinal(1) \notin ids
  BY DEF GrandFinal
<1>5. \A id \in ids : Pair(id) \subseteq 1..Len(list)
  OBVIOUS
<1> HIDE DEF ids
<1>6. ASSUME NEW id \in ids PROVE matches[id] \in MatchIn(ids)
  <2> DEFINE who == {list[k] : k \in Pair(id)}
  <2>1. who \in SUBSET Contestants
    BY <1>5
  <2>2. matches[id] = Made(None, None, FALSE, who)
    OBVIOUS
  <2> HIDE DEF who, matches
  <2> QED
    BY <2>1, <2>2, FreshType DEF Made, MatchIn
<1>7. matches \in [ids -> MatchIn(ids)]
  BY <1>6
<1> HIDE DEF matches
<1> QED
  BY <1>1, <1>3, <1>4, <1>7, PlainBracket

\* The bracket that is generated is one.
LEMMA BracketType ==
  ASSUME NEW f \in Formats, NEW list \in Seq(Contestants),
         Len(list) >= IF f.mode = "DE" THEN 4 ELSE 2
  PROVE  Bracket(f, list) \in Brackets
<1>1. f.mode \in {"SE", "DE", "RR"}
  BY FormatsChecked
<1>2. Len(list) \in Nat /\ Len(list) >= 2
  OBVIOUS
<1>3. CASE f.mode = "SE"
  BY <1>2, <1>3, SingleEliminationType DEF Bracket
<1>4. CASE f.mode = "DE"
  BY <1>2, <1>4, DoubleEliminationType DEF Bracket
<1>5. CASE f.mode = "RR"
  BY <1>2, <1>5, RoundRobinType DEF Bracket
<1> QED
  BY <1>1, <1>3, <1>4, <1>5

-----------------------------------------------------------------------------
(* Type correctness *)

Kinds == {"none", "generate", "scores", "correction", "status", "write", "removal", "delete"}

RequestOK(r) ==
  /\ r.kind \in Kinds
  /\ r.kind = "scores" => r.winner \in Contestants \cup {None}
  /\ r.kind \in {"status", "write"} => r.new \in Statuses /\ r.winner \in Contestants \cup {None}
  /\ r.kind = "removal" => r.confirming \in BOOLEAN
  /\ r.kind = "delete" => r \in [kind : {"delete"}, step : {"winner", "row"}, team : Contestants]

RequestsOK == /\ request = [w \in Workers |-> request[w]]
              /\ \A w \in Workers : RequestOK(request[w])

BracketInv ==
  /\ format \in Formats
  /\ tournament \in Tournaments
  /\ roster \in [Contestants -> {"active", "removed", "gone"}]
  /\ RequestsOK
  /\ generation \in 0..(format.regenerations + 1)
  /\ corrections \in 0..format.corrections
  /\ raced \in BOOLEAN /\ marred \in BOOLEAN

LEMMA InitInv == HistoryInit => BracketInv
<1> SUFFICES ASSUME HistoryInit PROVE BracketInv
  OBVIOUS
<1> USE DEF HistoryInit, Init
<1>1. format \in Formats
  OBVIOUS
<1>2. tournament \in Tournaments
  <2> DEFINE none == <<>>
  <2>1. {} \in Plans
    BY FS_EmptySet DEF Plans
  <2>2. GrandFinal(1) \notin {} /\ none \in [{} -> MatchIn({})]
    OBVIOUS
  <2>3. none \in Brackets
    <3> HIDE DEF none
    <3> QED
      BY <2>1, <2>2, PlainBracket
  <2> QED
    BY <2>3 DEF Tournaments, Statuses
<1>3. roster \in [Contestants -> {"active", "removed", "gone"}]
  OBVIOUS
<1>4. RequestsOK
  BY DEF RequestsOK, RequestOK, Idle, Kinds
<1>5. generation \in 0..(format.regenerations + 1) /\ corrections \in 0..format.corrections
  BY <1>1, FormatsChecked
<1>6. raced \in BOOLEAN /\ marred \in BOOLEAN
  OBVIOUS
<1> QED
  BY <1>1, <1>2, <1>3, <1>4, <1>5, <1>6 DEF BracketInv

\* A request changes for one worker.
LEMMA RequestReplaced ==
  ASSUME RequestsOK, NEW w \in Workers, NEW r, RequestOK(r),
         request' = [request EXCEPT ![w] = r]
  PROVE  RequestsOK'
BY DEF RequestsOK, RequestOK

LEMMA RequestAnswered ==
  ASSUME RequestsOK, NEW w \in Workers, Answer(w)
  PROVE  RequestsOK'
<1>1. RequestOK(Idle)
  BY DEF RequestOK, Idle, Kinds
<1> QED
  BY <1>1, RequestReplaced DEF Answer

LEMMA RequestSame ==
  ASSUME RequestsOK, UNCHANGED request
  PROVE  RequestsOK'
BY DEF RequestsOK, RequestOK

\* What a step does, if it does not retract results: the types are kept,
\* and the results of the bracket.
Keeping ==
  /\ format' = format
  /\ tournament' \in Tournaments
  /\ roster' \in [Contestants -> {"active", "removed", "gone"}]
  /\ RequestsOK'
  /\ generation' \in 0..(format.regenerations + 1)
  /\ corrections' \in 0..format.corrections
  /\ generation' # generation \/ Keeps(tournament.matches, tournament'.matches)

LEMMA SameTournament ==
  ASSUME BracketInv, UNCHANGED tournament
  PROVE  /\ tournament' \in Tournaments
         /\ Keeps(tournament.matches, tournament'.matches)
BY DEF BracketInv, Keeps

\* Other columns.
LEMMA SameMatches ==
  ASSUME NEW t \in Tournaments, NEW status \in Statuses, NEW winner \in Contestants \cup {None}
  PROVE  /\ [t EXCEPT !.status = status, !.winner = winner] \in Tournaments
         /\ [t EXCEPT !.winner = winner] \in Tournaments
         /\ Keeps(t.matches, [t EXCEPT !.status = status, !.winner = winner].matches)
         /\ Keeps(t.matches, [t EXCEPT !.winner = winner].matches)
BY DEF Tournaments, Keeps

LEMMA RequestBracketKeeps ==
  ASSUME BracketInv, NEW w \in Workers, RequestBracket(w)
  PROVE  Keeping
<1>1. RequestOK([kind |-> "generate"])
  BY DEF RequestOK, Kinds
<1>2. RequestsOK'
  BY <1>1, RequestReplaced DEF RequestBracket, Take, BracketInv
<1> QED
  BY <1>2, SameTournament DEF RequestBracket, BracketInv, Keeping

LEMMA GenerateBracketKeeps ==
  ASSUME BracketInv, NEW w \in Workers, GenerateBracket(w)
  PROVE  Keeping
<1> USE DEF BracketInv
<1>1. RequestsOK'
  BY RequestAnswered DEF GenerateBracket
<1>2. Entries \in Seq(Contestants)
  <2>1. Active \subseteq Contestants
    BY DEF Active
  <2>2. Entries \in [1..Cardinality(Active) -> Contestants] /\ Cardinality(Active) \in Nat
    BY <2>1, EntriesComplete
  <2> QED
    BY <2>2, Listed
<1>3. Bracket(format, Entries) \in Brackets
  <2>1. Len(Entries) >= IF format.mode = "DE" THEN 4 ELSE 2
    BY DEF GenerateBracket
  <2> QED
    BY <1>2, <2>1, BracketType
<1>4. tournament' \in Tournaments
  <2>1. tournament' = [tournament EXCEPT !.matches = Bracket(format, Entries)]
    BY DEF GenerateBracket
  <2> QED
    BY <1>3, <2>1, TournamentForm
<1>5. generation' # generation /\ generation' \in 0..(format.regenerations + 1)
  BY FormatsChecked DEF GenerateBracket
<1> QED
  BY <1>1, <1>4, <1>5 DEF GenerateBracket, Keeping

LEMMA EnterResultKeeps ==
  ASSUME BracketInv, NEW m \in Matches, NEW who \in Contestants \cup {None}, EnterResult(m, who)
  PROVE  Keeping
<1> USE DEF BracketInv
<1>1. RequestsOK'
  BY RequestSame DEF EnterResult
<1>2. tournament' \in Tournaments /\ Keeps(tournament.matches, tournament'.matches)
  BY ConfirmedType DEF EnterResult, Matches
<1> QED
  BY <1>1, <1>2 DEF EnterResult, Keeping

LEMMA CheckScoresKeeps ==
  ASSUME BracketInv, NEW w \in Workers, NEW m \in Matches,
         NEW who \in Contestants \cup {None}, CheckScores(w, m, who)
  PROVE  Keeping
<1> DEFINE r == [kind |-> "scores", match |-> m, winner |-> who, generation |-> generation,
                 entrants |-> Entrants(tournament.matches[m].entries)]
<1>1. RequestOK(r)
  BY DEF RequestOK, Kinds
<1>2. RequestsOK'
  <2>1. request' = [request EXCEPT ![w] = r]
    BY DEF CheckScores, Take
  <2> HIDE DEF r
  <2> QED
    BY <1>1, <2>1, RequestReplaced DEF BracketInv
<1> QED
  BY <1>2, SameTournament DEF CheckScores, BracketInv, Keeping

LEMMA SubmitScoresKeeps ==
  ASSUME BracketInv, NEW w \in Workers, SubmitScores(w)
  PROVE  Keeping
<1> USE DEF BracketInv
<1>1. RequestsOK'
  BY RequestAnswered DEF SubmitScores
<1>2. /\ request[w].match \in DOMAIN tournament.matches
      /\ Playable(format, tournament.matches[request[w].match])
  BY DEF SubmitScores, StillValid, Known, Matches
<1>3. request[w].winner \in Contestants \cup {None}
  BY DEF SubmitScores, Serving, RequestsOK, RequestOK
<1>4. tournament' = Confirmed(tournament, format, request[w].match, request[w].winner)
  BY DEF SubmitScores
<1>5. tournament' \in Tournaments /\ Keeps(tournament.matches, tournament'.matches)
  BY <1>2, <1>3, <1>4, ConfirmedType
<1> QED
  BY <1>1, <1>5 DEF SubmitScores, Keeping

LEMMA OpenCorrectionKeeps ==
  ASSUME BracketInv, NEW w \in Workers, NEW m \in Matches, OpenCorrection(w, m)
  PROVE  Keeping
<1> DEFINE r == [kind |-> "correction", match |-> m, generation |-> generation,
                 acknowledged |-> AtStake(tournament.matches, m)]
<1>1. RequestOK(r)
  BY DEF RequestOK, Kinds
<1>2. RequestsOK'
  <2>1. request' = [request EXCEPT ![w] = r]
    BY DEF OpenCorrection, Take
  <2> HIDE DEF r
  <2> QED
    BY <1>1, <2>1, RequestReplaced DEF BracketInv
<1> QED
  BY <1>2, SameTournament DEF OpenCorrection, BracketInv, Keeping

LEMMA ChangeStatusKeeps ==
  ASSUME BracketInv, NEW w \in Workers, NEW new \in Statuses, ChangeStatus(w, new)
  PROVE  Keeping
<1> DEFINE r == [kind |-> "status", new |-> new,
                 status |-> tournament.status, winner |-> tournament.winner]
<1>1. RequestOK(r)
  BY TournamentForm DEF RequestOK, Kinds, BracketInv
<1>2. RequestsOK'
  <2>1. request' = [request EXCEPT ![w] = r]
    BY DEF ChangeStatus, Take
  <2> HIDE DEF r
  <2> QED
    BY <1>1, <2>1, RequestReplaced DEF BracketInv
<1> QED
  BY <1>2, SameTournament DEF ChangeStatus, BracketInv, Keeping

LEMMA RereadTournamentKeeps ==
  ASSUME BracketInv, NEW w \in Workers, RereadTournament(w)
  PROVE  Keeping
<1> DEFINE was == request[w]
           r == [kind |-> "write", new |-> was.new, status |-> was.status, winner |-> was.winner,
                 rowStatus |-> tournament.status, rowWinner |-> tournament.winner]
<1>1. RequestOK(r)
  <2>1. was.new \in Statuses /\ was.winner \in Contestants \cup {None}
    BY DEF RereadTournament, Serving, RequestsOK, RequestOK, BracketInv
  <2> HIDE DEF was
  <2> QED
    BY <2>1 DEF RequestOK, Kinds
<1>2. RequestsOK'
  <2>1. request' = [request EXCEPT ![w] = r]
    BY DEF RereadTournament, RequestsOK, BracketInv
  <2> HIDE DEF r
  <2> QED
    BY <1>1, <2>1, RequestReplaced DEF BracketInv
<1> QED
  BY <1>2, SameTournament DEF RereadTournament, BracketInv, Keeping

LEMMA WriteStatusKeeps ==
  ASSUME BracketInv, NEW w \in Workers, WriteStatus(w)
  PROVE  Keeping
<1> USE DEF BracketInv
<1> DEFINE r == request[w]
           status == IF r.new # r.rowStatus THEN r.new ELSE tournament.status
           winner == IF r.winner # r.rowWinner THEN r.winner ELSE tournament.winner
<1>1. RequestsOK'
  BY RequestAnswered DEF WriteStatus
<1>2. status \in Statuses /\ winner \in Contestants \cup {None}
  <2>1. r.new \in Statuses /\ r.winner \in Contestants \cup {None}
    BY DEF WriteStatus, Serving, RequestsOK, RequestOK
  <2>2. tournament.status \in Statuses /\ tournament.winner \in Contestants \cup {None}
    BY TournamentForm
  <2> QED
    BY <2>1, <2>2
<1>3. tournament' = [tournament EXCEPT !.status = status, !.winner = winner]
  BY DEF WriteStatus, Tournaments
<1>4. tournament' \in Tournaments /\ Keeps(tournament.matches, tournament'.matches)
  <2> HIDE DEF status, winner
  <2> QED
    BY <1>2, <1>3, SameMatches
<1> QED
  BY <1>1, <1>4 DEF WriteStatus, Keeping

LEMMA RemoveContestantKeeps ==
  ASSUME BracketInv, NEW c \in Contestants, RemoveContestant(c)
  PROVE  Keeping
<1> USE DEF BracketInv
<1>1. RequestsOK'
  BY RequestSame DEF RemoveContestant
<1>2. tournament' = Removed(tournament, format, c, OpenMatches(tournament.matches, c), TRUE)
  BY DEF RemoveContestant
<1>3. tournament' \in Tournaments /\ Keeps(tournament.matches, tournament'.matches)
  <2> DEFINE links == OpenMatches(tournament.matches, c)
  <2>1. \A confirming \in BOOLEAN :
          /\ Removed(tournament, format, c, links, confirming) \in Tournaments
          /\ Keeps(tournament.matches, Removed(tournament, format, c, links, confirming).matches)
    <3> HIDE DEF links
    <3> QED
      BY RemovedType
  <2> HIDE DEF links
  <2> QED
    BY <1>2, <2>1 DEF links
<1>4. roster' \in [Contestants -> {"active", "removed", "gone"}]
  BY DEF RemoveContestant
<1> QED
  BY <1>1, <1>3, <1>4 DEF RemoveContestant, Keeping

LEMMA FindTeamEntriesKeeps ==
  ASSUME BracketInv, NEW w \in Workers, NEW c \in Contestants, NEW confirming \in BOOLEAN,
         FindTeamEntries(w, c, confirming)
  PROVE  Keeping
<1> DEFINE r == [kind |-> "removal", team |-> c, confirming |-> confirming,
                 generation |-> generation, links |-> OpenMatches(tournament.matches, c)]
<1>1. RequestOK(r)
  BY DEF RequestOK, Kinds
<1>2. RequestsOK'
  <2>1. request' = [request EXCEPT ![w] = r]
    BY DEF FindTeamEntries, Take
  <2> HIDE DEF r
  <2> QED
    BY <1>1, <2>1, RequestReplaced DEF BracketInv
<1> QED
  BY <1>2, SameTournament DEF FindTeamEntries, BracketInv, Keeping

LEMMA RemoveTeamKeeps ==
  ASSUME BracketInv, NEW w \in Workers, RemoveTeam(w)
  PROVE  Keeping
<1> USE DEF BracketInv
<1> DEFINE r == request[w]
           removed == Removed(tournament, format, r.team, r.links, r.confirming)
<1>1. RequestsOK'
  BY RequestAnswered DEF RemoveTeam
<1>2. tournament' = IF r.generation # generation THEN tournament ELSE removed
  BY DEF RemoveTeam
<1>3. removed \in Tournaments /\ Keeps(tournament.matches, removed.matches)
  <2>1. r.confirming \in BOOLEAN
    BY DEF RemoveTeam, Serving, RequestsOK, RequestOK
  <2> HIDE DEF r
  <2> QED
    BY <2>1, RemovedType
<1>4. tournament' \in Tournaments /\ Keeps(tournament.matches, tournament'.matches)
  <2> HIDE DEF removed
  <2> QED
    BY <1>2, <1>3 DEF Keeps
<1>5. roster' \in [Contestants -> {"active", "removed", "gone"}]
  BY DEF RemoveTeam
<1> QED
  BY <1>1, <1>4, <1>5 DEF RemoveTeam, Keeping

LEMMA RemoveUnplacedKeeps ==
  ASSUME BracketInv, NEW c \in Contestants, RemoveUnplaced(c)
  PROVE  Keeping
<1> USE DEF BracketInv
<1> DEFINE winner == IF tournament.winner = c THEN None ELSE tournament.winner
<1>1. RequestsOK'
  BY RequestSame DEF RemoveUnplaced
<1>2. tournament' = [tournament EXCEPT !.winner = winner]
  BY DEF RemoveUnplaced, Tournaments
<1>3. winner \in Contestants \cup {None}
  BY TournamentForm
<1>4. tournament' \in Tournaments /\ Keeps(tournament.matches, tournament'.matches)
  <2>1. tournament.status \in Statuses
    BY TournamentForm
  <2> HIDE DEF winner
  <2> QED
    BY <1>2, <1>3, <2>1, SameMatches
<1>5. roster' \in [Contestants -> {"active", "removed", "gone"}]
  BY DEF RemoveUnplaced
<1> QED
  BY <1>1, <1>4, <1>5 DEF RemoveUnplaced, Keeping

LEMMA DeleteTeamEntriesKeeps ==
  ASSUME BracketInv, NEW w \in Workers, NEW c \in Contestants, DeleteTeamEntries(w, c)
  PROVE  Keeping
<1> USE DEF BracketInv
<1> DEFINE r == [kind |-> "delete", step |-> "winner", team |-> c]
           ids == DOMAIN tournament.matches
<1>1. RequestOK(r)
  BY DEF RequestOK, Kinds
<1>2. RequestsOK'
  <2>1. request' = [request EXCEPT ![w] = r]
    BY DEF DeleteTeamEntries, Take
  <2> HIDE DEF r
  <2> QED
    BY <1>1, <2>1, RequestReplaced
<1>3. tournament' = Without(tournament, c, ids)
  BY DEF DeleteTeamEntries, Without
<1>4. tournament' \in Tournaments /\ Keeps(tournament.matches, tournament'.matches)
  <2> HIDE DEF ids
  <2>1. Without(tournament, c, ids) \in Tournaments
        /\ SameButRows(tournament.matches, Without(tournament, c, ids).matches)
    BY WithoutType
  <2> QED
    BY <1>3, <2>1, SameKeeps
<1> QED
  BY <1>2, <1>4 DEF DeleteTeamEntries, Keeping

LEMMA ClearTeamWinnerKeeps ==
  ASSUME BracketInv, NEW w \in Workers, ClearTeamWinner(w)
  PROVE  Keeping
<1> USE DEF BracketInv
<1> DEFINE was == request[w]
           r == [was EXCEPT !.step = "row"]
           winner == IF tournament.winner = was.team THEN None ELSE tournament.winner
<1>1. was \in [kind : {"delete"}, step : {"winner", "row"}, team : Contestants]
  BY DEF ClearTeamWinner, Serving, RequestsOK, RequestOK
<1>2. RequestOK(r)
  <2> HIDE DEF was
  <2> QED
    BY <1>1 DEF RequestOK, Kinds
<1>3. RequestsOK'
  <2>1. request' = [request EXCEPT ![w] = r]
    BY DEF ClearTeamWinner
  <2> HIDE DEF r
  <2> QED
    BY <1>2, <2>1, RequestReplaced
<1>4. tournament' = [tournament EXCEPT !.winner = winner]
  BY DEF ClearTeamWinner, Tournaments
<1>5. winner \in Contestants \cup {None}
  BY TournamentForm
<1>6. tournament' \in Tournaments /\ Keeps(tournament.matches, tournament'.matches)
  <2>1. tournament.status \in Statuses
    BY TournamentForm
  <2> HIDE DEF winner
  <2> QED
    BY <1>4, <1>5, <2>1, SameMatches
<1> QED
  BY <1>3, <1>6 DEF ClearTeamWinner, Keeping

LEMMA DeleteTeamRowKeeps ==
  ASSUME BracketInv, NEW w \in Workers, DeleteTeamRow(w)
  PROVE  Keeping
<1> USE DEF BracketInv
<1>1. RequestsOK'
  BY RequestAnswered DEF DeleteTeamRow
<1>2. roster' \in [Contestants -> {"active", "removed", "gone"}]
  BY DEF DeleteTeamRow
<1> QED
  BY <1>1, <1>2, SameTournament DEF DeleteTeamRow, Keeping

LEMMA AbandonKeeps ==
  ASSUME BracketInv, NEW w \in Workers, Abandon(w)
  PROVE  Keeping
<1>1. RequestsOK'
  BY RequestAnswered DEF Abandon, BracketInv
<1> QED
  BY <1>1, SameTournament DEF Abandon, BracketInv, Keeping

\* A correction keeps the types, and no result but those the retraction
\* undoes is undone.
LEMMA CorrectResultType ==
  ASSUME BracketInv, NEW w \in Workers, CorrectResult(w)
  PROVE  /\ tournament' \in Tournaments
         /\ RequestsOK'
         /\ corrections' \in 0..format.corrections
         /\ Keeps(Retracted(tournament, format, request[w].match).matches, tournament'.matches)
<1> USE DEF BracketInv
<1> DEFINE m == request[w].match
           retracted == Retracted(tournament, format, m)
<1>1. RequestsOK'
  BY RequestAnswered DEF CorrectResult
<1>2. corrections' \in 0..format.corrections
  BY FormatsChecked DEF CorrectResult
<1>3. m \in DOMAIN tournament.matches
  BY DEF CorrectResult, Known, Matches
<1>4. retracted \in Tournaments /\ m \in DOMAIN retracted.matches
  <2> HIDE DEF m
  <2> QED
    BY <1>3, RetractedType
<1>5. \/ tournament' = retracted
      \/ /\ Playable(format, retracted.matches[m])
         /\ \E who \in Outcomes(format, retracted.matches[m]) :
              tournament' = Confirmed(retracted, format, m, who)
  BY DEF CorrectResult
<1> HIDE DEF retracted, m
<1>6. CASE tournament' = retracted
  BY <1>1, <1>2, <1>4, <1>6 DEF Keeps, retracted, m
<1>7. CASE /\ Playable(format, retracted.matches[m])
           /\ \E who \in Outcomes(format, retracted.matches[m]) :
                tournament' = Confirmed(retracted, format, m, who)
  <2>1. PICK who \in Outcomes(format, retracted.matches[m]) :
               tournament' = Confirmed(retracted, format, m, who)
    BY <1>7
  <2>2. who \in Contestants \cup {None}
    <3>1. retracted.matches[m].entries \in Rows
      BY <1>4, TournamentForm, MatchType
    <3>2. Entrants(retracted.matches[m].entries) \subseteq Contestants
      BY <3>1, EntrantsType
    <3> QED
      BY <3>2 DEF Outcomes
  <2>3. /\ Confirmed(retracted, format, m, who) \in Tournaments
        /\ Keeps(retracted.matches, Confirmed(retracted, format, m, who).matches)
    BY <1>4, <1>7, <2>2, ConfirmedType
  <2> QED
    BY <1>1, <1>2, <2>1, <2>3 DEF retracted, m
<1> QED
  BY <1>5, <1>6, <1>7

\* Every step but a correction keeps the results of its bracket.
LEMMA StepKeeps ==
  ASSUME BracketInv, Next
  PROVE  Keeping \/ \E w \in Workers : CorrectResult(w)
<1> USE DEF Next
<1>1. CASE ResultEntered
  BY <1>1, EnterResultKeeps DEF ResultEntered
<1>2. CASE \E c \in Contestants : RemoveContestant(c) \/ RemoveUnplaced(c)
  BY <1>2, RemoveContestantKeeps, RemoveUnplacedKeeps
<1>3. ASSUME NEW w \in Workers,
             \/ RequestBracket(w)
             \/ GenerateBracket(w)
             \/ \E m \in Matches : \E who \in Contestants \cup {None} : CheckScores(w, m, who)
             \/ SubmitScores(w)
             \/ \E m \in Matches : OpenCorrection(w, m)
             \/ \E new \in Statuses : ChangeStatus(w, new)
             \/ RereadTournament(w)
             \/ WriteStatus(w)
      PROVE  Keeping
  BY <1>3, RequestBracketKeeps, GenerateBracketKeeps, CheckScoresKeeps, SubmitScoresKeeps,
     OpenCorrectionKeeps, ChangeStatusKeeps, RereadTournamentKeeps, WriteStatusKeeps
<1>4. ASSUME NEW w \in Workers,
             \/ \E c \in Contestants, confirming \in BOOLEAN : FindTeamEntries(w, c, confirming)
             \/ RemoveTeam(w)
             \/ \E c \in Contestants : DeleteTeamEntries(w, c)
             \/ ClearTeamWinner(w)
             \/ DeleteTeamRow(w)
             \/ Abandon(w)
      PROVE  Keeping
  BY <1>4, FindTeamEntriesKeeps, RemoveTeamKeeps, DeleteTeamEntriesKeeps, ClearTeamWinnerKeeps,
     DeleteTeamRowKeeps, AbandonKeeps
<1> QED
  BY <1>1, <1>2, <1>3, <1>4

LEMMA NextInv == BracketInv /\ [HistoryNext]_historyVars => BracketInv'
<1> SUFFICES ASSUME BracketInv, [HistoryNext]_historyVars PROVE BracketInv'
  OBVIOUS
<1>1. CASE UNCHANGED historyVars
  <2>1. RequestsOK'
    BY <1>1, RequestSame DEF historyVars, vars, BracketInv
  <2> QED
    BY <1>1, <2>1 DEF historyVars, vars, BracketInv
<1>2. CASE HistoryNext
  <2>1. raced' \in BOOLEAN /\ marred' \in BOOLEAN
    BY <1>2 DEF HistoryNext, Observe
  <2>2. CASE Keeping
    BY <2>1, <2>2 DEF Keeping, BracketInv
  <2>3. ASSUME NEW w \in Workers, CorrectResult(w) PROVE BracketInv'
    <3>1. /\ tournament' \in Tournaments
          /\ RequestsOK'
          /\ corrections' \in 0..format.corrections
      BY <2>3, CorrectResultType
    <3>2. UNCHANGED <<format, roster, generation>>
      BY <2>3 DEF CorrectResult
    <3> QED
      BY <2>1, <3>1, <3>2 DEF BracketInv
  <2> QED
    BY <1>2, <2>2, <2>3, StepKeeps DEF HistoryNext
<1> QED
  BY <1>1, <1>2

LEMMA InvTypes == BracketInv => BracketTypeOK
<1> SUFFICES ASSUME BracketInv PROVE BracketTypeOK
  OBVIOUS
<1> USE DEF BracketInv
<1>1. tournament.status \in Statuses /\ tournament.winner \in Contestants \cup {None}
  BY TournamentForm
<1>2. ASSUME NEW m \in Matches
      PROVE  /\ {Match(m).next, Match(m).loserNext} \subseteq Matches \cup {None}
             /\ Match(m).confirmed \in BOOLEAN
             /\ Match(m).entries \subseteq [who : Contestants, copy : Nat \ {0}, score : {None, 0, 1}]
  <2>1. tournament.matches \in Brackets /\ m \in DOMAIN tournament.matches
    BY TournamentForm DEF Matches
  <2> QED
    BY <2>1, MatchType DEF Match, Matches, Row
<1>3. \A w \in Workers :
        request[w].kind \in {"none", "generate", "scores", "correction", "status", "write",
                             "removal", "delete"}
  BY DEF RequestsOK, RequestOK, Kinds
<1>4. {raced, marred} \subseteq BOOLEAN
  OBVIOUS
<1> QED
  BY <1>1, <1>2, <1>3, <1>4 DEF BracketTypeOK

\* Every bracket, however it is generated, played, corrected and left, has
\* links within itself and rows of contestants, and its status and winner
\* are ones.
THEOREM BracketTypesHold == HistorySpec => []BracketTypeOK
<1>1. HistorySpec => []BracketInv
  BY InitInv, NextInv, PTL DEF HistorySpec
<1> QED
  BY <1>1, InvTypes, PTL

-----------------------------------------------------------------------------
(* What a correction affects *)

Walks(matches) == [seen : SUBSET (DOMAIN matches), todo : Seq(DOMAIN matches)]

Pending(walk, x) == \E i \in 1..Len(walk.todo) : walk.todo[i] = x

\* The links of a match have been seen, or the match was seen as the next
\* one of a match without a result only.
Passed(matches, seen, x) ==
  \/ {matches[x].next, matches[x].loserNext} \subseteq seen \cup {None}
  \/ \E y \in seen : ~matches[y].confirmed /\ matches[y].next = x

LEMMA LookAtWalks ==
  ASSUME NEW matches \in Brackets, NEW walk \in Walks(matches),
         NEW from \in DOMAIN matches, NEW x \in DOMAIN matches \cup {None}
  PROVE  LET new == LookAt(matches, walk, from, x)
         IN  /\ new \in Walks(matches)
             /\ walk.seen \subseteq new.seen
             /\ x # None => x \in new.seen
             /\ Len(new.todo) + Cardinality(walk.seen) <= Len(walk.todo) + Cardinality(new.seen)
             /\ \A y : Pending(walk, y) => Pending(new, y)
             /\ \A y \in new.seen \ walk.seen :
                  matches[y].confirmed => Pending(new, y) \/ Passed(matches, new.seen, y)
<1> DEFINE ids == DOMAIN matches
           new == LookAt(matches, walk, from, x)
<1>1. walk.seen \in SUBSET ids /\ walk.todo \in Seq(ids) /\ IsFiniteSet(ids) /\ None \notin ids
  BY BracketsForm, GrandFinals DEF Walks, Plans
<1>2. IsFiniteSet(walk.seen) /\ Cardinality(walk.seen) \in Nat
  BY <1>1, FS_Subset, FS_CardinalityType
<1>3. CASE x = None \/ x \in walk.seen
  <2>1. new = walk
    BY <1>3 DEF LookAt
  <2> QED
    BY <1>1, <1>2, <1>3, <2>1
<1>4. CASE x # None /\ x \notin walk.seen /\ matches[x].confirmed
  <2>1. new = [seen |-> walk.seen \cup {x}, todo |-> Append(walk.todo, x)]
    BY <1>4 DEF LookAt
  <2>2. new.seen = walk.seen \cup {x} /\ new.todo = Append(walk.todo, x)
    BY <2>1
  <2>3. new \in Walks(matches)
    BY <1>1, <1>4, <2>1 DEF Walks
  <2>4. Cardinality(walk.seen \cup {x}) = Cardinality(walk.seen) + 1
    BY <1>2, <1>4, FS_AddElement
  <2>5. Len(Append(walk.todo, x)) = Len(walk.todo) + 1
    BY <1>1
  <2>6. \A i \in 1..Len(walk.todo) : i \in 1..Len(new.todo) /\ new.todo[i] = walk.todo[i]
    BY <1>1, <2>2
  <2>7. Pending(new, x)
    BY <1>1, <2>2 DEF Pending
  <2>8. Len(walk.todo) \in Nat
    BY <1>1
  <2> HIDE DEF new
  <2>9. \A y : Pending(walk, y) => Pending(new, y)
    BY <2>6 DEF Pending
  <2>10. Len(new.todo) + Cardinality(walk.seen) <= Len(walk.todo) + Cardinality(new.seen)
    BY <1>2, <2>2, <2>4, <2>5, <2>8
  <2> QED
    BY <2>2, <2>3, <2>7, <2>9, <2>10 DEF new
<1>5. CASE x # None /\ x \notin walk.seen /\ ~matches[x].confirmed
  <2> DEFINE more == IF x = matches[from].loserNext THEN {matches[x].next} \ {None} ELSE {}
  <2>1. new = [walk EXCEPT !.seen = walk.seen \cup {x} \cup more]
    BY <1>5 DEF LookAt, Walks
  <2>2. more \in SUBSET ids
    <3>1. matches[x].next \in ids \cup {None}
      BY <1>5, MatchType
    <3> QED
      BY <3>1
  <2>3. \A y \in more : matches[x].next = y
    OBVIOUS
  <2> HIDE DEF more
  <2>4. new.seen = walk.seen \cup {x} \cup more /\ new.todo = walk.todo /\ new \in Walks(matches)
    BY <1>1, <1>5, <2>1, <2>2 DEF Walks
  <2> HIDE DEF new
  <2>5. Cardinality(walk.seen) <= Cardinality(new.seen) /\ Cardinality(new.seen) \in Nat
    <3>1. IsFiniteSet(new.seen)
      BY <1>1, <1>5, <2>2, <2>4, FS_Subset
    <3> QED
      BY <2>4, <3>1, FS_Subset, FS_CardinalityType
  <2>6. \A y \in new.seen \ walk.seen :
          matches[y].confirmed => Pending(new, y) \/ Passed(matches, new.seen, y)
    BY <1>5, <2>3, <2>4 DEF Passed
  <2>7. \A y : Pending(walk, y) => Pending(new, y)
    BY <2>4 DEF Pending
  <2>8. Len(new.todo) + Cardinality(walk.seen) <= Len(walk.todo) + Cardinality(new.seen)
    BY <1>1, <1>2, <2>4, <2>5
  <2> QED
    BY <2>4, <2>6, <2>7, <2>8 DEF new
<1> QED
  BY <1>3, <1>4, <1>5

\* The walk has k matches behind it and has lost none it has to follow.
WalkInv(matches, match, walk, k) ==
  /\ walk \in Walks(matches)
  /\ match \in walk.seen
  /\ \A x \in walk.seen :
       x = match \/ matches[x].confirmed => Pending(walk, x) \/ Passed(matches, walk.seen, x)
  /\ walk.todo # <<>> => k + Len(walk.todo) <= Cardinality(walk.seen)

LEMMA WalkOnInv ==
  ASSUME NEW matches \in Brackets, NEW match \in DOMAIN matches, NEW walk, NEW k \in Nat,
         WalkInv(matches, match, walk, k)
  PROVE  WalkInv(matches, match, WalkOn(matches, walk), k + 1)
<1> DEFINE ids == DOMAIN matches
<1>1. walk \in Walks(matches) /\ walk.seen \in SUBSET ids /\ walk.todo \in Seq(ids)
  BY DEF WalkInv, Walks
<1>2. CASE walk.todo = <<>>
  BY <1>2 DEF WalkInv, WalkOn
<1>3. CASE walk.todo # <<>>
  <2> DEFINE x == Head(walk.todo)
             on == [walk EXCEPT !.todo = Tail(walk.todo)]
             mid == LookAt(matches, on, x, matches[x].next)
             new == LookAt(matches, mid, x, matches[x].loserNext)
  <2>1. WalkOn(matches, walk) = new
    <3>1. WalkOn(matches, walk) = IF walk.todo = <<>> THEN walk ELSE new
      BY DEF WalkOn
    <3> HIDE DEF new
    <3> QED
      BY <1>3, <3>1
  <2>2. x \in ids /\ Tail(walk.todo) \in Seq(ids) /\ Len(Tail(walk.todo)) = Len(walk.todo) - 1
        /\ Len(walk.todo) \in Nat
    <3> HIDE DEF ids
    <3> QED
      BY <1>1, <1>3, Rest
  <2>3. on \in Walks(matches) /\ on.seen = walk.seen /\ on.todo = Tail(walk.todo)
    BY <1>1, <2>2 DEF Walks
  <2>4. \A y : Pending(walk, y) => y = x \/ Pending(on, y)
    <3> SUFFICES ASSUME NEW i \in 1..Len(walk.todo), walk.todo[i] # x
                 PROVE  Pending(on, walk.todo[i])
      BY DEF Pending
    <3>1. i # 1 /\ i - 1 \in 1..Len(on.todo)
      BY <1>1, <1>3, <2>2, <2>3
    <3>2. on.todo[i - 1] = walk.todo[i]
      BY <1>1, <1>3, <2>3, <3>1
    <3> QED
      BY <3>1, <3>2 DEF Pending
  <2>5. matches[x].next \in ids \cup {None} /\ matches[x].loserNext \in ids \cup {None}
    BY <2>2, MatchType
  <2> HIDE DEF x, on
  <2>6. /\ mid \in Walks(matches)
        /\ on.seen \subseteq mid.seen
        /\ matches[x].next # None => matches[x].next \in mid.seen
        /\ Len(mid.todo) + Cardinality(on.seen) <= Len(on.todo) + Cardinality(mid.seen)
        /\ \A y : Pending(on, y) => Pending(mid, y)
        /\ \A y \in mid.seen \ on.seen :
             matches[y].confirmed => Pending(mid, y) \/ Passed(matches, mid.seen, y)
    BY <2>2, <2>3, <2>5, LookAtWalks
  <2> HIDE DEF mid
  <2>7. /\ new \in Walks(matches)
        /\ mid.seen \subseteq new.seen
        /\ matches[x].loserNext # None => matches[x].loserNext \in new.seen
        /\ Len(new.todo) + Cardinality(mid.seen) <= Len(mid.todo) + Cardinality(new.seen)
        /\ \A y : Pending(mid, y) => Pending(new, y)
        /\ \A y \in new.seen \ mid.seen :
             matches[y].confirmed => Pending(new, y) \/ Passed(matches, new.seen, y)
    BY <2>2, <2>5, <2>6, LookAtWalks
  <2> HIDE DEF new
  <2>8. match \in new.seen
    BY <2>3, <2>6, <2>7 DEF WalkInv
  <2>9. \A y : Passed(matches, walk.seen, y) \/ Passed(matches, mid.seen, y) => Passed(matches, new.seen, y)
    BY <2>3, <2>6, <2>7 DEF Passed
  <2>10. Passed(matches, new.seen, x)
    BY <2>6, <2>7 DEF Passed
  <2>11. ASSUME NEW y \in new.seen, y = match \/ matches[y].confirmed
         PROVE  Pending(new, y) \/ Passed(matches, new.seen, y)
    <3>1. CASE y \in walk.seen
      <4>1. Pending(walk, y) \/ Passed(matches, walk.seen, y)
        BY <2>11, <3>1 DEF WalkInv
      <4> QED
        BY <2>4, <2>6, <2>7, <2>9, <2>10, <4>1
    <3>2. CASE y \notin walk.seen
      <4>1. matches[y].confirmed
        BY <2>11, <3>2 DEF WalkInv
      <4> QED
        BY <2>3, <2>6, <2>7, <2>9, <3>2, <4>1
    <3> QED
      BY <3>1, <3>2
  <2>12. (k + 1) + Len(new.todo) <= Cardinality(new.seen)
    <3>1. k + Len(walk.todo) <= Cardinality(walk.seen)
      BY <1>3 DEF WalkInv
    <3>2. \A seen \in SUBSET ids : Cardinality(seen) \in Nat
      <4>1. IsFiniteSet(ids)
        BY BracketsForm DEF Plans
      <4> QED
        BY <4>1, FS_Subset, FS_CardinalityType
    <3>3. \A u \in Walks(matches) : Cardinality(u.seen) \in Nat /\ Len(u.todo) \in Nat
      BY <3>2 DEF Walks
    <3>4. /\ Cardinality(walk.seen) \in Nat /\ Cardinality(mid.seen) \in Nat
          /\ Cardinality(new.seen) \in Nat
          /\ Len(mid.todo) \in Nat /\ Len(new.todo) \in Nat /\ Len(on.todo) = Len(walk.todo) - 1
      BY <1>1, <2>2, <2>3, <2>6, <2>7, <3>3
    <3>5. /\ Len(new.todo) + Cardinality(mid.seen) <= Len(mid.todo) + Cardinality(new.seen)
          /\ Len(mid.todo) + Cardinality(walk.seen) <= Len(on.todo) + Cardinality(mid.seen)
          /\ Len(walk.todo) \in Nat
      BY <2>2, <2>3, <2>6, <2>7
    <3>6. \A a, b, c, d, e, g \in Nat :
            d + e <= a - 1 + b /\ g + b <= d + c /\ k + a <= e => k + 1 + g <= c
      OBVIOUS
    <3> QED
      BY <3>1, <3>4, <3>5, <3>6
  <2> QED
    BY <2>1, <2>7, <2>8, <2>11, <2>12 DEF WalkInv
<1> QED
  BY <1>2, <1>3

\* The walk ends: whatever it saw that has a result is followed.
LEMMA WalkedFollows ==
  ASSUME NEW matches \in Brackets, NEW match \in DOMAIN matches
  PROVE  LET seen == Walked(matches, match).seen
         IN  /\ match \in seen
             /\ seen \subseteq DOMAIN matches
             /\ \A x \in seen : x = match \/ matches[x].confirmed => Passed(matches, seen, x)
<1> DEFINE ids == DOMAIN matches
           A == Walks(matches)
           a == [seen |-> {match}, todo |-> <<match>>]
           step == [x \in Nat \X A |-> WalkOn(matches, x[2])]
           Rec(g) == g = [k \in Nat |-> IF k = 0 THEN [seen |-> {match}, todo |-> <<match>>]
                                        ELSE WalkOn(matches, g[k - 1])]
           walk == CHOOSE g : Rec(g)
           n == Cardinality(ids)
<1>1. IsFiniteSet(ids) /\ n \in Nat
  BY BracketsForm, FS_CardinalityType DEF Plans
<1>2. a \in A
  <2>1. {match} \in SUBSET ids /\ <<match>> \in Seq(ids)
    OBVIOUS
  <2> HIDE DEF ids
  <2> QED
    BY <2>1 DEF Walks, ids
<1>3. WalkInv(matches, match, a, 0)
  <2>1. Pending(a, match)
    <3>1. a.todo = <<match>> /\ Len(<<match>>) = 1 /\ <<match>>[1] = match
      OBVIOUS
    <3> HIDE DEF a
    <3> QED
      BY <3>1 DEF Pending
  <2>2. Cardinality({match}) = 1
    BY FS_Singleton
  <2>3. a.seen = {match} /\ a.todo = <<match>> /\ Len(<<match>>) = 1
    OBVIOUS
  <2> HIDE DEF a
  <2> QED
    BY <1>2, <2>1, <2>2, <2>3 DEF WalkInv
<1>4. ASSUME NEW u \in A PROVE WalkOn(matches, u) \in A
  <2> DEFINE x == Head(u.todo)
             on == [u EXCEPT !.todo = Tail(u.todo)]
             mid == LookAt(matches, on, x, matches[x].next)
             new == LookAt(matches, mid, x, matches[x].loserNext)
  <2>1. WalkOn(matches, u) = IF u.todo = <<>> THEN u ELSE new
    BY DEF WalkOn
  <2>2. CASE u.todo # <<>>
    <3>1. x \in ids /\ on \in A
      <4>1. u.todo \in Seq(ids)
        BY DEF Walks
      <4>2. x \in ids /\ Tail(u.todo) \in Seq(ids)
        <5> HIDE DEF ids
        <5> QED
          BY <2>2, <4>1, Rest
      <4> QED
        BY <4>2 DEF Walks
    <3>2. matches[x].next \in ids \cup {None} /\ matches[x].loserNext \in ids \cup {None}
      BY <3>1, MatchType
    <3> HIDE DEF x, on
    <3>3. mid \in A
      BY <3>1, <3>2, LookAtWalks
    <3> HIDE DEF mid
    <3>4. new \in A
      BY <3>1, <3>2, <3>3, LookAtWalks
    <3> HIDE DEF new
    <3> QED
      BY <2>1, <2>2, <3>4
  <2> HIDE DEF new
  <2> QED
    BY <2>1, <2>2
<1>5. step \in [Nat \X A -> A]
  BY <1>4
<1>6. PICK g \in [Nat -> A] : Unfolds(g, a, step)
  <2> HIDE DEF step, a, A
  <2> QED
    BY <1>2, <1>5, Iterated
<1>7. Rec(g)
  <2>1. ASSUME NEW k \in Nat PROVE g[k] = IF k = 0 THEN a ELSE WalkOn(matches, g[k - 1])
    <3>1. g[k] = IF k = 0 THEN a ELSE step[<<k, g[k - 1]>>]
      <4> HIDE DEF step, a, A
      <4> QED
        BY <1>6 DEF Unfolds
    <3>2. ASSUME k # 0 PROVE step[<<k, g[k - 1]>>] = WalkOn(matches, g[k - 1])
      <4>1. k - 1 \in Nat /\ g[k - 1] \in A
        BY <3>2
      <4> HIDE DEF A
      <4> QED
        BY <4>1
    <3> HIDE DEF step, a
    <3> QED
      BY <3>1, <3>2
  <2>2. g = [k \in Nat |-> g[k]]
    OBVIOUS
  <2>3. g = [k \in Nat |-> IF k = 0 THEN a ELSE WalkOn(matches, g[k - 1])]
    <3> HIDE DEF a
    <3> QED
      BY <2>1, <2>2
  <2> QED
    BY <2>3
<1>8. Rec(walk)
  <2> HIDE DEF Rec
  <2> QED
    BY <1>7
<1>9. \A k \in Nat : walk[k] = IF k = 0 THEN a ELSE WalkOn(matches, walk[k - 1])
  <2>1. walk = [k \in Nat |-> IF k = 0 THEN a ELSE WalkOn(matches, walk[k - 1])]
    BY <1>8
  <2> HIDE DEF walk, a
  <2> QED
    BY <2>1
<1> HIDE DEF walk, a
<1>10. \A k \in Nat : WalkInv(matches, match, walk[k], k)
  <2> DEFINE S == {k \in Nat : WalkInv(matches, match, walk[k], k)}
  <2>1. 0 \in S
    BY <1>3, <1>9
  <2>2. ASSUME NEW k \in Nat, k \in S PROVE k + 1 \in S
    <3>1. k + 1 \in Nat /\ k + 1 # 0 /\ (k + 1) - 1 = k
      OBVIOUS
    <3>2. walk[k + 1] = WalkOn(matches, walk[k])
      BY <1>9, <3>1
    <3>3. WalkInv(matches, match, WalkOn(matches, walk[k]), k + 1)
      BY <2>2, WalkOnInv
    <3> QED
      BY <3>1, <3>2, <3>3
  <2> HIDE DEF S
  <2>3. Nat \subseteq S
    BY <2>1, <2>2, Induction
  <2> USE DEF S
  <2> QED
    BY <2>3
<1> DEFINE last == walk[n]
<1>11. Walked(matches, match) = last
  BY DEF Walked, walk
<1>12. WalkInv(matches, match, last, n)
  <2> HIDE DEF n
  <2> QED
    BY <1>1, <1>10
<1> HIDE DEF last
<1>13. last.seen \in SUBSET ids /\ last.todo \in Seq(ids)
  BY <1>12 DEF WalkInv, Walks
<1>14. last.todo = <<>>
  <2> SUFFICES ASSUME last.todo # <<>> PROVE FALSE
    OBVIOUS
  <2>1. n + Len(last.todo) <= Cardinality(last.seen)
    BY <1>12 DEF WalkInv
  <2>2. Cardinality(last.seen) <= n
    BY <1>1, <1>13, FS_Subset
  <2>3. Len(last.todo) \in Nat \ {0}
    <3> HIDE DEF ids
    <3> QED
      BY <1>13
  <2>4. Cardinality(last.seen) \in Nat
    BY <1>1, <1>13, FS_Subset, FS_CardinalityType
  <2> HIDE DEF n
  <2> QED
    BY <1>1, <2>1, <2>2, <2>3, <2>4
<1>15. \A x : ~Pending(last, x)
  BY <1>14 DEF Pending
<1> QED
  BY <1>11, <1>12, <1>13, <1>15 DEF WalkInv

\* The results a correction affects lead to no others, if it goes past no
\* match without a result that has passed somebody on.
LEMMA AffectedClosed ==
  ASSUME tournament \in Tournaments, NEW match \in Matches, Match(match).confirmed,
         \A m \in Affected(tournament.matches, match) : ~PassedOn(m)
  PROVE  Closed(tournament.matches,
                {match} \cup {m \in Affected(tournament.matches, match) : Match(m).confirmed})
<1> DEFINE matches == tournament.matches
           affected == Affected(matches, match)
           seen == Walked(matches, match).seen
           C == {match} \cup {m \in affected : Match(m).confirmed}
<1>1. matches \in Brackets /\ match \in DOMAIN matches /\ None \notin DOMAIN matches
  BY TournamentForm, BracketsForm, GrandFinals DEF Matches, Plans
<1>2. /\ match \in seen
      /\ seen \subseteq DOMAIN matches
      /\ \A x \in seen : x = match \/ matches[x].confirmed => Passed(matches, seen, x)
  BY <1>1, WalkedFollows
<1>3. affected = seen \ {match}
  BY DEF Affected
<1>4. \A m \in affected : ~PassedOn(m)
  OBVIOUS
<1> HIDE DEF seen, affected
<1>5. C \subseteq seen /\ \A x \in C : matches[x].confirmed
  BY <1>2, <1>3 DEF Match
<1>6. ASSUME NEW x \in C, NEW y \in seen, ~matches[y].confirmed, matches[y].next = x
      PROVE  FALSE
  <2>1. y \in affected
    BY <1>3, <1>6 DEF Match
  <2>2. x \in DOMAIN matches /\ matches[x].confirmed
    BY <1>2, <1>5
  <2>3. PassedOn(y)
    BY <1>1, <1>6, <2>2 DEF PassedOn
  <2> QED
    BY <1>4, <2>1, <2>3
<1>7. ASSUME NEW x \in C, NEW y \in {matches[x].next, matches[x].loserNext} \ {None}, matches[y].confirmed
      PROVE  y \in C
  <2>1. Passed(matches, seen, x)
    BY <1>2, <1>5
  <2>2. {matches[x].next, matches[x].loserNext} \subseteq seen \cup {None}
    BY <1>6, <2>1 DEF Passed
  <2>3. y \in seen
    BY <1>7, <2>2
  <2> QED
    BY <1>3, <1>7, <2>3 DEF Match
<1>8. C \subseteq DOMAIN matches
  BY <1>2, <1>5
<1> HIDE DEF C, matches
<1>9. Closed(matches, C)
  BY <1>7, <1>8 DEF Closed
<1> QED
  BY <1>9 DEF C, matches, affected, Match

Acknowledging ==
  generation' = generation /\ ~marred' =>
    \A m \in Undone : \E w \in Workers : /\ Serving(w, "correction")
                                         /\ m \in {request[w].match} \cup request[w].acknowledged

LEMMA CorrectionAcknowledged ==
  ASSUME BracketInv, Observe, NEW w \in Workers, CorrectResult(w), ~marred'
  PROVE  \A m \in Undone : m \in {request[w].match} \cup request[w].acknowledged
<1> DEFINE match == request[w].match
           matches == tournament.matches
           affected == Affected(matches, match)
           C == {match} \cup {m \in affected : Match(m).confirmed}
           retracted == Retracted(tournament, format, match)
<1>1. /\ Serving(w, "correction")
      /\ match \in Matches
      /\ Match(match).confirmed
      /\ AtStake(matches, match) \subseteq request[w].acknowledged
      /\ corrections' = corrections + 1
  BY DEF CorrectResult, Known, Acknowledged, Match
<1>2. corrections' # corrections
  BY <1>1, FormatsChecked DEF BracketInv
<1>3. \A m \in affected : ~PassedOn(m)
  <2>1. ~Mars(w)
    BY DEF Observe
  <2> QED
    BY <1>1, <1>2, <2>1 DEF Mars
<1>4. Closed(matches, C)
  BY <1>1, <1>3, AffectedClosed DEF BracketInv
<1>5. Undoes(matches, retracted.matches, C)
  <2>1. match \in C
    OBVIOUS
  <2> HIDE DEF C, match
  <2> QED
    BY <1>4, <2>1, RetractedUndoes DEF BracketInv
<1>6. Keeps(retracted.matches, tournament'.matches)
  BY CorrectResultType
<1>7. \A m \in C : m \in {match} \cup request[w].acknowledged
  BY <1>1 DEF AtStake, Match
<1> HIDE DEF C, retracted
<1>8. ASSUME NEW m \in Undone PROVE m \in C
  <2>1. m \in DOMAIN matches /\ matches[m].confirmed
        /\ ~(m \in DOMAIN tournament'.matches /\ tournament'.matches[m].confirmed)
    BY DEF Undone, Matches, Match
  <2> HIDE DEF matches
  <2> QED
    BY <1>5, <1>6, <2>1 DEF Undoes, Keeps
<1> QED
  BY <1>7, <1>8

\* Whatever the bracket, a step undoes the results of one match and of
\* those that were acknowledged with it, and of no others: the correction's
\* walk finds all the retraction reaches (classify_result_correction,
\* _unconfirm_match_impl).
THEOREM AcknowledgedOnlyHolds == HistorySpec => AcknowledgedOnly
<1>1. BracketInv /\ [HistoryNext]_historyVars => [Acknowledging]_historyVars
  <2> SUFFICES ASSUME BracketInv, HistoryNext PROVE Acknowledging
    OBVIOUS
  <2>1. CASE Keeping
    <3>1. ASSUME generation' = generation PROVE Undone = {}
      BY <2>1, <3>1 DEF Keeping, Keeps, Undone, Matches, Match
    <3> QED
      BY <3>1 DEF Acknowledging
  <2>2. ASSUME NEW w \in Workers, CorrectResult(w) PROVE Acknowledging
    <3>1. Serving(w, "correction")
      BY <2>2 DEF CorrectResult
    <3> QED
      BY <2>2, <3>1, CorrectionAcknowledged DEF Acknowledging, HistoryNext
  <2> QED
    BY <2>1, <2>2, StepKeeps DEF HistoryNext
<1>2. HistorySpec => []BracketInv
  BY InitInv, NextInv, PTL DEF HistorySpec
<1> QED
  BY <1>1, <1>2, PTL DEF HistorySpec, AcknowledgedOnly, Acknowledging

-----------------------------------------------------------------------------
(* The order of seeds *)

\* Two neighbouring places have a seed of the half as large order, and the
\* one that makes up the sum of all pairs.
LEMMA SeedPairs ==
  ASSUME NEW p \in Nat \ {0}
  PROVE  /\ Pow2[p - 1] \in Nat \ {0} /\ Pow2[p] = 2 * Pow2[p - 1]
         /\ \A m \in 0..(Pow2[p - 1] - 1) :
              /\ SeedOrder[p - 1][m + 1] \in 0..(Pow2[p - 1] - 1)
              /\ SeedOrder[p][2 * m + 1] = SeedOrder[p - 1][m + 1]
              /\ SeedOrder[p][2 * m + 2] = Pow2[p] - 1 - SeedOrder[p - 1][m + 1]
         /\ \A i \in 1..Pow2[p] :
              \E m \in 0..(Pow2[p - 1] - 1) : i = 2 * m + 1 \/ i = 2 * m + 2
<1> DEFINE h == Pow2[p - 1]
           half == SeedOrder[p - 1]
<1>1. p - 1 \in Nat /\ h \in Nat \ {0} /\ Pow2[p] = 2 * h
  BY Pow2Grows
<1>2. half \in [1..h -> 0..(h - 1)] /\ SeedOrder[p] = Halved(p, half)
  BY <1>1, SeedOrderUnfolds
<1> HIDE DEF h, half
<1>3. ASSUME NEW m \in 0..(h - 1)
      PROVE  /\ half[m + 1] \in 0..(h - 1)
             /\ SeedOrder[p][2 * m + 1] = half[m + 1]
             /\ SeedOrder[p][2 * m + 2] = Pow2[p] - 1 - half[m + 1]
  <2>1. /\ 2 * m + 1 \in 1..Pow2[p] /\ 2 * m + 2 \in 1..Pow2[p] /\ m + 1 \in 1..h
        /\ (2 * m + 1) % 2 = 1 /\ (2 * m + 2) % 2 = 0
        /\ (2 * m + 1 + 1) \div 2 = m + 1 /\ (2 * m + 2) \div 2 = m + 1
    BY <1>1
  <2>2. half[m + 1] \in 0..(h - 1)
    BY <1>2, <2>1
  <2>3. SeedOrder[p][2 * m + 1] = half[m + 1]
    BY <1>2, <2>1 DEF Halved
  <2>4. SeedOrder[p][2 * m + 2] = Pow2[p] - 1 - half[m + 1]
    BY <1>2, <2>1 DEF Halved
  <2> QED
    BY <2>2, <2>3, <2>4
<1>4. ASSUME NEW i \in 1..Pow2[p]
      PROVE  \E m \in 0..(h - 1) : i = 2 * m + 1 \/ i = 2 * m + 2
  <2>1. (i - 1) \div 2 \in 0..(h - 1)
    BY <1>1
  <2>2. i = 2 * ((i - 1) \div 2) + 1 \/ i = 2 * ((i - 1) \div 2) + 2
    BY <1>1
  <2> QED
    BY <2>1, <2>2
<1> QED
  BY <1>1, <1>3, <1>4 DEF h, half

\* Every seed has one place.
SeedsPlaced(p) ==
  /\ \A s \in 0..(Pow2[p] - 1) : \E i \in 1..Pow2[p] : SeedOrder[p][i] = s
  /\ \A i, j \in 1..Pow2[p] : SeedOrder[p][i] = SeedOrder[p][j] => i = j

LEMMA SeedsPlacedNext ==
  ASSUME NEW p \in Nat \ {0}, SeedsPlaced(p - 1)
  PROVE  SeedsPlaced(p)
<1> DEFINE h == Pow2[p - 1]
           half == SeedOrder[p - 1]
           whole == SeedOrder[p]
<1>1. /\ h \in Nat \ {0} /\ Pow2[p] = 2 * h
      /\ \A m \in 0..(h - 1) :
              /\ half[m + 1] \in 0..(h - 1)
              /\ whole[2 * m + 1] = half[m + 1]
              /\ whole[2 * m + 2] = 2 * h - 1 - half[m + 1]
      /\ \A i \in 1..(2 * h) : \E m \in 0..(h - 1) : i = 2 * m + 1 \/ i = 2 * m + 2
  BY SeedPairs
<1>2. /\ \A s \in 0..(h - 1) : \E i \in 1..h : half[i] = s
      /\ \A i, j \in 1..h : half[i] = half[j] => i = j
  BY DEF SeedsPlaced
<1> HIDE DEF h, half, whole
<1>3. ASSUME NEW s \in 0..(2 * h - 1) PROVE \E i \in 1..(2 * h) : whole[i] = s
  <2>1. CASE s <= h - 1
    <3>1. PICK i \in 1..h : half[i] = s
      BY <1>1, <1>2, <2>1
    <3>2. i - 1 \in 0..(h - 1) /\ (i - 1) + 1 = i /\ 2 * (i - 1) + 1 \in 1..(2 * h)
      BY <1>1
    <3> QED
      BY <1>1, <3>1, <3>2
  <2>2. CASE s > h - 1
    <3>1. 2 * h - 1 - s \in 0..(h - 1)
      BY <1>1, <2>2
    <3>2. PICK i \in 1..h : half[i] = 2 * h - 1 - s
      BY <1>2, <3>1
    <3>3. i - 1 \in 0..(h - 1) /\ (i - 1) + 1 = i /\ 2 * (i - 1) + 2 \in 1..(2 * h)
      BY <1>1
    <3>4. whole[2 * (i - 1) + 2] = 2 * h - 1 - (2 * h - 1 - s)
      BY <1>1, <3>2, <3>3
    <3> QED
      BY <1>1, <3>3, <3>4
  <2> QED
    BY <1>1, <2>1, <2>2
<1>4. ASSUME NEW i \in 1..(2 * h), NEW j \in 1..(2 * h), whole[i] = whole[j] PROVE i = j
  <2>1. PICK m \in 0..(h - 1) : i = 2 * m + 1 \/ i = 2 * m + 2
    BY <1>1
  <2>2. PICK n \in 0..(h - 1) : j = 2 * n + 1 \/ j = 2 * n + 2
    BY <1>1
  <2>3. /\ half[m + 1] \in 0..(h - 1) /\ whole[2 * m + 1] = half[m + 1]
        /\ whole[2 * m + 2] = 2 * h - 1 - half[m + 1]
    BY <1>1
  <2>4. /\ half[n + 1] \in 0..(h - 1) /\ whole[2 * n + 1] = half[n + 1]
        /\ whole[2 * n + 2] = 2 * h - 1 - half[n + 1]
    BY <1>1
  <2>5. half[m + 1] = half[n + 1] /\ (i - 2 * m = j - 2 * n)
    BY <1>1, <1>4, <2>1, <2>2, <2>3, <2>4
  <2>6. m + 1 \in 1..h /\ n + 1 \in 1..h
    BY <1>1
  <2>7. m = n
    BY <1>2, <2>5, <2>6
  <2> QED
    BY <2>5, <2>7
<1> QED
  BY <1>1, <1>3, <1>4 DEF SeedsPlaced, h, half, whole

LEMMA SeedsHavePlaces ==
  ASSUME NEW p \in Nat
  PROVE  SeedsPlaced(p)
<1> DEFINE S == {q \in Nat : SeedsPlaced(q)}
<1>1. 0 \in S
  <2>1. Pow2[0] = 1 /\ SeedOrder[0] = <<0>>
    BY SeedOrderUnfolds, Pow2Type
  <2>2. 0..(1 - 1) = {0} /\ 1..1 = {1}
    OBVIOUS
  <2> QED
    BY <2>1, <2>2 DEF SeedsPlaced
<1>2. ASSUME NEW q \in Nat, q \in S PROVE q + 1 \in S
  <2>1. q + 1 \in Nat \ {0} /\ (q + 1) - 1 = q
    OBVIOUS
  <2> QED
    BY <1>2, <2>1, SeedsPlacedNext
<1> HIDE DEF S
<1>3. Nat \subseteq S
  BY <1>1, <1>2, Induction
<1> QED
  BY <1>3 DEF S

\* The first 2^k seeds stand in different parts of 2^(p - k) places.
Apart(p) ==
  \A k \in 0..p : \A i, j \in 1..Pow2[p] :
    /\ SeedOrder[p][i] < Pow2[k] /\ SeedOrder[p][j] < Pow2[k]
    /\ i # j
    => (i - 1) \div Pow2[p - k] # (j - 1) \div Pow2[p - k]

LEMMA DoubledQuotient ==
  ASSUME NEW q \in Nat \ {0}, NEW a \in Nat
  PROVE  (2 * a) \div (2 * q) = a \div q
<1> DEFINE c == a \div q
           r == a % q
<1>1. /\ c \in Nat
      /\ r \in 0..(q - 1)
      /\ a = q * c + r
  <2>1. c \in Nat
    OBVIOUS
  <2>2. r \in 0..(q - 1)
    OBVIOUS
  <2>3. a = q * c + r
    OBVIOUS
  <2> QED
    BY <2>1, <2>2, <2>3
<1> HIDE DEF c, r
<1>2. 2 * a = (2 * q) * c + 2 * r
  BY <1>1
<1>3. (2 * q) \in Nat \ {0}
  OBVIOUS
<1>4. \A d \in Nat \ {0}, b \in Nat : \A e \in 0..(d - 1) : (d * b + e) \div d = b
  OBVIOUS
<1>5. 2 * r \in 0..((2 * q) - 1)
  BY <1>1
<1>6. ((2 * q) * c + 2 * r) \div (2 * q) = c
  BY <1>1, <1>3, <1>4, <1>5
<1> QED
  BY <1>2, <1>6 DEF c

LEMMA ApartNext ==
  ASSUME NEW p \in Nat \ {0}, Apart(p - 1)
  PROVE  Apart(p)
<1> DEFINE h == Pow2[p - 1]
           half == SeedOrder[p - 1]
           whole == SeedOrder[p]
<1>1. /\ h \in Nat \ {0} /\ Pow2[p] = 2 * h
      /\ \A m \in 0..(h - 1) :
              /\ half[m + 1] \in 0..(h - 1)
              /\ whole[2 * m + 1] = half[m + 1]
              /\ whole[2 * m + 2] = 2 * h - 1 - half[m + 1]
      /\ \A i \in 1..(2 * h) : \E m \in 0..(h - 1) : i = 2 * m + 1 \/ i = 2 * m + 2
  BY SeedPairs
<1> SUFFICES ASSUME NEW k \in 0..p, NEW i \in 1..(2 * h), NEW j \in 1..(2 * h),
                    whole[i] < Pow2[k], whole[j] < Pow2[k], i # j
             PROVE  (i - 1) \div Pow2[p - k] # (j - 1) \div Pow2[p - k]
  BY <1>1 DEF Apart
<1>2. CASE k = p
  <2>1. Pow2[p - k] = 1
    BY <1>2, Pow2Type
  <2>2. (i - 1) \div 1 = i - 1 /\ (j - 1) \div 1 = j - 1
    BY <1>1
  <2> QED
    BY <2>1, <2>2
<1>3. CASE k < p
  <2> DEFINE q == Pow2[p - 1 - k]
  <2>1. k \in 0..(p - 1) /\ p - k \in Nat /\ p - k # 0 /\ (p - k) - 1 = p - 1 - k
    BY <1>3
  <2>2. q \in Nat \ {0} /\ Pow2[p - k] = 2 * q
    BY <2>1, Pow2Grows
  <2>3. Pow2[k] <= h /\ Pow2[k] \in Nat
    BY <2>1, Pow2Monotone, Pow2Grows
  <2>4. \A a, b \in 1..h : half[a] < Pow2[k] /\ half[b] < Pow2[k] /\ a # b
                              => (a - 1) \div q # (b - 1) \div q
    BY <2>1 DEF Apart
  <2> HIDE DEF h, half, whole, q
  <2>5. PICK m \in 0..(h - 1) : i = 2 * m + 1 \/ i = 2 * m + 2
    BY <1>1
  <2>6. PICK n \in 0..(h - 1) : j = 2 * n + 1 \/ j = 2 * n + 2
    BY <1>1
  <2>7. i = 2 * m + 1 /\ half[m + 1] < Pow2[k]
    <3>1. half[m + 1] \in 0..(h - 1) /\ whole[2 * m + 1] = half[m + 1]
                    /\ whole[2 * m + 2] = 2 * h - 1 - half[m + 1]
      BY <1>1
    <3> QED
      BY <1>1, <2>3, <2>5, <3>1
  <2>8. j = 2 * n + 1 /\ half[n + 1] < Pow2[k]
    <3>1. half[n + 1] \in 0..(h - 1) /\ whole[2 * n + 1] = half[n + 1]
                    /\ whole[2 * n + 2] = 2 * h - 1 - half[n + 1]
      BY <1>1
    <3> QED
      BY <1>1, <2>3, <2>6, <3>1
  <2>9. /\ m + 1 \in 1..h /\ n + 1 \in 1..h /\ m + 1 # n + 1
        /\ (m + 1) - 1 = m /\ (n + 1) - 1 = n /\ i - 1 = 2 * m /\ j - 1 = 2 * n
        /\ m \in Nat /\ n \in Nat
    BY <1>1, <2>7, <2>8
  <2>10. m \div q # n \div q
    BY <2>4, <2>7, <2>8, <2>9
  <2>11. (i - 1) \div (2 * q) = m \div q /\ (j - 1) \div (2 * q) = n \div q
    BY <2>2, <2>9, DoubledQuotient
  <2> QED
    BY <2>2, <2>10, <2>11
<1> QED
  BY <1>2, <1>3

LEMMA SeedsApart ==
  ASSUME NEW p \in Nat
  PROVE  Apart(p)
<1> DEFINE S == {q \in Nat : Apart(q)}
<1>1. 0 \in S
  <2>1. 1..Pow2[0] = {1}
    BY Pow2Type
  <2> QED
    BY <2>1 DEF Apart
<1>2. ASSUME NEW q \in Nat, q \in S PROVE q + 1 \in S
  <2>1. q + 1 \in Nat \ {0} /\ (q + 1) - 1 = q
    OBVIOUS
  <2> QED
    BY <1>2, <2>1, ApartNext
<1> HIDE DEF S
<1>3. Nat \subseteq S
  BY <1>1, <1>2, Induction
<1> QED
  BY <1>3 DEF S

-----------------------------------------------------------------------------
(* Who is placed where *)

\* A list without repetitions.
Injective(list) == \A i, j \in 1..Len(list) : list[i] = list[j] => i = j

\* The two places of a match of the first round: the better seed is always
\* there, the other one if there are as many contestants.
LEMMA PlacedPair ==
  ASSUME NEW S, NEW list \in Seq(S), Len(list) >= 2,
         NEW m \in 0..(Pow2[Rounds(list) - 1] - 1)
  PROVE  LET p == Rounds(list)
             low == SeedOrder[p - 1][m + 1]
         IN  /\ low \in 0..(Pow2[p - 1] - 1)
             /\ low < Len(list)
             /\ Pow2[p] - 1 - low \in Nat /\ low < Pow2[p] - 1 - low
             /\ Placed(list, m) = {list[s + 1] : s \in {x \in {low, Pow2[p] - 1 - low} : x < Len(list)}}
<1> DEFINE p == Rounds(list)
           low == SeedOrder[p - 1][m + 1]
           high == Pow2[p] - 1 - low
<1>1. p \in Nat \ {0} /\ Pow2[p - 1] < Len(list) /\ Len(list) \in Nat
  BY RoundsType
<1>2. /\ Pow2[p - 1] \in Nat \ {0} /\ Pow2[p] = 2 * Pow2[p - 1]
      /\ low \in 0..(Pow2[p - 1] - 1)
      /\ SeedOrder[p][2 * m + 1] = low
      /\ SeedOrder[p][2 * m + 2] = high
  BY <1>1, SeedPairs
<1>3. {SeedOrder[p][2 * m + k] : k \in {1, 2}} = {low, high}
  BY <1>2
<1>4. Placed(list, m) = {list[s + 1] : s \in {x \in {low, high} : x < Len(list)}}
  BY <1>3 DEF Placed
<1> HIDE DEF p, low
<1>5. low < Len(list) /\ high \in Nat /\ low < high
  BY <1>1, <1>2
<1> QED
  BY <1>2, <1>4, <1>5 DEF p, low

\* Who is placed where, and who is alone there.
LEMMA PlacedWhere ==
  ASSUME NEW S, NEW list \in Seq(S), Len(list) >= 2, Injective(list),
         NEW m \in 0..(Pow2[Rounds(list) - 1] - 1), NEW k \in 1..Len(list)
  PROVE  LET p == Rounds(list)
             low == SeedOrder[p - 1][m + 1]
         IN  /\ list[k] \in Placed(list, m) <=> k - 1 \in {low, Pow2[p] - 1 - low}
             /\ list[k] \in Placed(list, m) =>
                  (Cardinality(Placed(list, m)) = 1 <=> k <= Pow2[p] - Len(list))
<1> DEFINE p == Rounds(list)
           n == Len(list)
           low == SeedOrder[p - 1][m + 1]
           whole == Pow2[p]
           high == whole - 1 - low
<1>1. n \in Nat
  OBVIOUS
<1>2. /\ low \in Nat /\ low < n /\ high \in Nat /\ low < high
      /\ Placed(list, m) = {list[s + 1] : s \in {x \in {low, high} : x < n}}
  BY PlacedPair
<1>3. whole \in Nat /\ whole >= n
  BY RoundsType, Pow2Grows
<1> HIDE DEF p, n, low, whole
<1>4. k \in 1..n /\ \A i, j \in 1..n : list[i] = list[j] => i = j
  BY DEF Injective, n
<1>5. list[k] \in Placed(list, m) <=> k - 1 \in {low, high}
  <2>1. ASSUME k - 1 \in {low, high} PROVE list[k] \in Placed(list, m)
    <3>1. k - 1 < n /\ (k - 1) + 1 = k
      BY <1>1, <1>4
    <3> QED
      BY <1>2, <2>1, <3>1
  <2>2. ASSUME list[k] \in Placed(list, m) PROVE k - 1 \in {low, high}
    <3>1. PICK s \in {low, high} : s < n /\ list[k] = list[s + 1]
      BY <1>2, <2>2
    <3>2. s + 1 \in 1..n
      BY <1>1, <1>2, <3>1
    <3>3. k = s + 1
      BY <1>4, <3>1, <3>2
    <3> QED
      BY <1>2, <3>1, <3>3
  <2> QED
    BY <2>1, <2>2
<1>6. ASSUME list[k] \in Placed(list, m)
      PROVE  Cardinality(Placed(list, m)) = 1 <=> k <= whole - n
  <2>1. k - 1 = low \/ k - 1 = high
    BY <1>5, <1>6
  <2>2. CASE high < n
    <3>1. Placed(list, m) = {list[low + 1], list[high + 1]}
      BY <1>2, <2>2
    <3>2. low + 1 \in 1..n /\ high + 1 \in 1..n /\ low + 1 # high + 1
      BY <1>1, <1>2, <2>2
    <3>3. list[low + 1] # list[high + 1]
      BY <1>4, <3>2
    <3>4. Cardinality(Placed(list, m)) = 2
      <4> DEFINE one == {list[low + 1]}
      <4>1. IsFiniteSet(one) /\ Cardinality(one) = 1
        BY FS_Singleton
      <4>2. Cardinality(one \cup {list[high + 1]}) = 1 + 1
        <5>1. list[high + 1] \notin one
          BY <3>3
        <5> HIDE DEF one
        <5> QED
          BY <4>1, <5>1, FS_AddElement
      <4> QED
        BY <3>1, <4>2
    <3>5. ~ (k <= whole - n)
      BY <1>1, <1>2, <1>3, <1>4, <2>1, <2>2
    <3> QED
      BY <3>4, <3>5
  <2>3. CASE ~(high < n)
    <3>1. Placed(list, m) = {list[low + 1]}
      BY <1>2, <2>3
    <3>2. Cardinality(Placed(list, m)) = 1
      BY <3>1, FS_Singleton
    <3>3. k - 1 # high
      BY <1>1, <1>2, <1>4, <2>3
    <3>4. k <= whole - n
      BY <1>1, <1>2, <1>3, <1>4, <2>1, <2>3, <3>3
    <3> QED
      BY <3>2, <3>4
  <2> QED
    BY <2>2, <2>3
<1> QED
  BY <1>5, <1>6 DEF p, n, low, whole

\* Everybody on the list is placed in one match of the first round.
LEMMA PlacedOnce ==
  ASSUME NEW S, NEW list \in Seq(S), Len(list) >= 2, Injective(list), NEW k \in 1..Len(list)
  PROVE  /\ \E m \in 0..(Pow2[Rounds(list) - 1] - 1) : list[k] \in Placed(list, m)
         /\ \A m, o \in 0..(Pow2[Rounds(list) - 1] - 1) :
              list[k] \in Placed(list, m) /\ list[k] \in Placed(list, o) => m = o
<1> DEFINE p == Rounds(list)
           h == Pow2[p - 1]
           half == SeedOrder[p - 1]
<1>1. /\ p \in Nat \ {0} /\ Pow2[p - 1] < Len(list) /\ Len(list) \in Nat
      /\ Pow2[p] >= Len(list)
  BY RoundsType
<1>2. h \in Nat \ {0} /\ Pow2[p] = 2 * h /\ half \in [1..h -> 0..(h - 1)] /\ p - 1 \in Nat
  <2> HIDE DEF p
  <2>1. p - 1 \in Nat
    BY <1>1
  <2>2. h \in Nat \ {0} /\ Pow2[p] = 2 * h
    BY <1>1, SeedPairs
  <2>3. half \in [1..h -> 0..(h - 1)]
    BY <2>1, SeedOrderUnfolds
  <2> QED
    BY <2>1, <2>2, <2>3
<1>3. /\ \A s \in 0..(h - 1) : \E i \in 1..h : half[i] = s
      /\ \A i, j \in 1..h : half[i] = half[j] => i = j
  BY <1>2, SeedsHavePlaces DEF SeedsPlaced
<1>4. \A m \in 0..(h - 1) : list[k] \in Placed(list, m) <=> k - 1 \in {half[m + 1], 2 * h - 1 - half[m + 1]}
  BY <1>2, PlacedWhere
<1>5. k - 1 \in 0..(2 * h - 1)
  BY <1>1, <1>2
<1> HIDE DEF p, h, half
<1>6. \E m \in 0..(h - 1) : list[k] \in Placed(list, m)
  <2> DEFINE s == IF k - 1 <= h - 1 THEN k - 1 ELSE 2 * h - 1 - (k - 1)
  <2>1. s \in 0..(h - 1) /\ (k - 1 = s \/ k - 1 = 2 * h - 1 - s)
    BY <1>2, <1>5
  <2>2. PICK i \in 1..h : half[i] = s
    BY <1>3, <2>1
  <2>3. i - 1 \in 0..(h - 1) /\ (i - 1) + 1 = i
    BY <1>2
  <2> HIDE DEF s
  <2> QED
    BY <1>4, <2>1, <2>2, <2>3
<1>7. ASSUME NEW m \in 0..(h - 1), NEW o \in 0..(h - 1),
             list[k] \in Placed(list, m), list[k] \in Placed(list, o)
      PROVE  m = o
  <2>1. /\ k - 1 \in {half[m + 1], 2 * h - 1 - half[m + 1]}
        /\ k - 1 \in {half[o + 1], 2 * h - 1 - half[o + 1]}
    BY <1>4, <1>7
  <2>2. m + 1 \in 1..h /\ o + 1 \in 1..h
    BY <1>2
  <2>3. half[m + 1] \in 0..(h - 1) /\ half[o + 1] \in 0..(h - 1)
    BY <1>2, <2>2
  <2>4. half[m + 1] = half[o + 1]
    BY <1>2, <1>5, <2>1, <2>3
  <2>5. m + 1 = o + 1
    BY <1>3, <2>2, <2>4
  <2> QED
    BY <2>5
<1> QED
  BY <1>6, <1>7 DEF p, h

\* The first 2^k of the list are placed in different parts of the tree.
LEMMA PlacedApart ==
  ASSUME NEW S, NEW list \in Seq(S), Len(list) >= 2, Injective(list),
         NEW k \in 0..(Rounds(list) - 1), NEW i \in 1..Pow2[k], NEW j \in 1..Pow2[k], i # j,
         NEW m \in 0..(Pow2[Rounds(list) - 1] - 1), NEW o \in 0..(Pow2[Rounds(list) - 1] - 1),
         list[i] \in Placed(list, m), list[j] \in Placed(list, o)
  PROVE  /\ i \in 1..Len(list) /\ j \in 1..Len(list)
         /\ m \div Pow2[Rounds(list) - 1 - k] # o \div Pow2[Rounds(list) - 1 - k]
<1> DEFINE p == Rounds(list)
           h == Pow2[p - 1]
           half == SeedOrder[p - 1]
<1>1. /\ p \in Nat \ {0} /\ Pow2[p - 1] < Len(list) /\ Len(list) \in Nat
  BY RoundsType
<1>2. h \in Nat \ {0} /\ Pow2[p] = 2 * h /\ half \in [1..h -> 0..(h - 1)] /\ p - 1 \in Nat
  <2>1. p - 1 \in Nat
    BY <1>1
  <2>2. h \in Nat \ {0} /\ Pow2[p] = 2 * h
    BY <1>1, SeedPairs
  <2>3. half \in [1..h -> 0..(h - 1)]
    BY <2>1, SeedOrderUnfolds
  <2> QED
    BY <2>1, <2>2, <2>3
<1>3. k \in 0..(p - 1) /\ Pow2[k] <= h /\ Pow2[k] \in Nat
  <2>1. k \in Nat /\ k <= p - 1 /\ k \in 0..(p - 1)
    BY <1>2
  <2>2. Pow2[k] <= h
    BY <1>2, <2>1, Pow2Monotone
  <2> QED
    BY <2>1, <2>2, Pow2Grows
<1>4. i \in 1..Len(list) /\ j \in 1..Len(list)
  BY <1>1, <1>2, <1>3
<1>5. /\ i - 1 \in {half[m + 1], 2 * h - 1 - half[m + 1]}
      /\ j - 1 \in {half[o + 1], 2 * h - 1 - half[o + 1]}
  BY <1>2, <1>4, PlacedWhere
<1>6. \A a, b \in 1..h : half[a] < Pow2[k] /\ half[b] < Pow2[k] /\ a # b
        => (a - 1) \div Pow2[p - 1 - k] # (b - 1) \div Pow2[p - 1 - k]
  BY <1>2, <1>3, SeedsApart DEF Apart
<1>7. m \in 0..(h - 1) /\ o \in 0..(h - 1)
  OBVIOUS
<1>8. QED
  <2> HIDE DEF p, h, half
  <2>1. /\ m + 1 \in 1..h /\ o + 1 \in 1..h /\ (m + 1) - 1 = m /\ (o + 1) - 1 = o
    BY <1>2, <1>7
  <2>2. half[m + 1] \in 0..(h - 1) /\ half[o + 1] \in 0..(h - 1)
    BY <1>2, <2>1
  <2>3. half[m + 1] = i - 1 /\ half[o + 1] = j - 1
    <3>1. i - 1 <= h - 1 /\ j - 1 <= h - 1 /\ i \in Int /\ j \in Int
      BY <1>2, <1>3
    <3>2. i - 1 # 2 * h - 1 - half[m + 1]
      BY <1>2, <2>2, <3>1
    <3>3. j - 1 # 2 * h - 1 - half[o + 1]
      BY <1>2, <2>2, <3>1
    <3> QED
      BY <1>5, <3>2, <3>3
  <2>4. m + 1 # o + 1 /\ half[m + 1] < Pow2[k] /\ half[o + 1] < Pow2[k]
    BY <1>3, <2>3
  <2>5. m \div Pow2[p - 1 - k] # o \div Pow2[p - 1 - k]
    BY <1>6, <2>1, <2>4
  <2> QED
    BY <1>4, <2>5 DEF p

-----------------------------------------------------------------------------
(* The schedule of a round robin *)

\* Who sits at position j in round r of 2 * h players: the first one stays,
\* the others move on by one place a round.
Seat(h, r, j) == IF j = 0 THEN 1 ELSE IF j > r THEN j + 1 - r ELSE j - r + 2 * h

PairOf(h, r, j) == {Seat(h, r, j - 1), Seat(h, r, 2 * h - j)}

LEMMA SeatMoves ==
  ASSUME NEW h \in Nat \ {0}, NEW r \in 0..(2 * h - 2), NEW j \in 0..(2 * h - 1)
  PROVE  (IF j = 0 THEN 1 ELSE 2 + ((j - 1 - r) % (2 * h - 1))) = Seat(h, r, j)
<1> SUFFICES ASSUME j # 0 PROVE 2 + ((j - 1 - r) % (2 * h - 1)) = Seat(h, r, j)
  BY DEF Seat
<1> DEFINE k == 2 * h - 1
           x == j - 1 - r
<1>1. k \in Nat \ {0} /\ x \in Int /\ x < k /\ -k < x
  OBVIOUS
<1> HIDE DEF k, x
<1>2. x % k = IF x >= 0 THEN x ELSE x + k
  <2>1. CASE x >= 0
    BY <1>1, <2>1
  <2>2. CASE x < 0
    <3>1. x + k \in 0..(k - 1) /\ x = k * (-1) + (x + k)
      BY <1>1, <2>2
    <3> QED
      BY <1>1, <2>2, <3>1
  <2> QED
    BY <1>1, <2>1, <2>2
<1> QED
  BY <1>1, <1>2 DEF k, x, Seat

\* In a round everybody sits in one place.
LEMMA SeatsDiffer ==
  ASSUME NEW h \in Nat \ {0}, NEW r \in 0..(2 * h - 2)
  PROVE  /\ \A j \in 0..(2 * h - 1) : Seat(h, r, j) \in 1..(2 * h)
         /\ \A i, j \in 0..(2 * h - 1) : Seat(h, r, i) = Seat(h, r, j) => i = j
BY DEF Seat

LEMMA PairsOfRound ==
  ASSUME NEW h \in Nat \ {0}, NEW r \in 0..(2 * h - 2), NEW j \in 1..h
  PROVE  /\ Seat(h, r, j - 1) \in 1..(2 * h) /\ Seat(h, r, 2 * h - j) \in 1..(2 * h)
         /\ Seat(h, r, j - 1) # Seat(h, r, 2 * h - j)
         /\ \A i \in 1..h : i # j => PairOf(h, r, i) \cap PairOf(h, r, j) = {}
<1>1. \A i \in 1..h : i - 1 \in 0..(2 * h - 1) /\ 2 * h - i \in 0..(2 * h - 1)
  OBVIOUS
<1>2. j - 1 # 2 * h - j
  OBVIOUS
<1>3. ASSUME NEW i \in 1..h, i # j
      PROVE  /\ i - 1 # j - 1 /\ i - 1 # 2 * h - j
             /\ 2 * h - i # j - 1 /\ 2 * h - i # 2 * h - j
  BY <1>3
<1> QED
  BY <1>1, <1>2, <1>3, SeatsDiffer DEF PairOf

\* The two who meet tell the round.
LEMMA MeetingTellsRound ==
  ASSUME NEW h \in Nat \ {0}, NEW r \in 0..(2 * h - 2), NEW j \in 1..h,
         NEW q \in 0..(2 * h - 2), NEW i \in 1..h, PairOf(h, r, j) = PairOf(h, q, i)
  PROVE  r = q /\ i = j
<1>1. ASSUME NEW s \in 0..(2 * h - 2)
      PROVE  /\ Seat(h, s, 0) = 1 /\ Seat(h, s, 2 * h - 1) = 2 * h - s
             /\ \A k \in 1..(2 * h - 1) : Seat(h, s, k) >= 2
             /\ \A k \in 2..h : Seat(h, s, k - 1) + Seat(h, s, 2 * h - k) + 2 * s
                                  \in {2 * h + 1, 4 * h, 6 * h - 1}
  BY DEF Seat
<1>2. r = q
  <2>1. CASE j = 1
    <3>1. PairOf(h, r, j) = {1, 2 * h - r}
      BY <1>1, <2>1 DEF PairOf
    <3>2. i = 1
      <4>1. CASE i # 1
        <5>1. i - 1 \in 1..(2 * h - 1) /\ 2 * h - i \in 1..(2 * h - 1)
          BY <4>1
        <5>2. 1 \notin PairOf(h, q, i)
          BY <1>1, <5>1 DEF PairOf
        <5> QED
          BY <3>1, <5>2
      <4> QED
        BY <4>1
    <3>3. PairOf(h, q, i) = {1, 2 * h - q}
      BY <1>1, <3>2 DEF PairOf
    <3>4. 2 * h - r # 1 /\ 2 * h - q # 1
      OBVIOUS
    <3>5. 2 * h - r = 2 * h - q
      BY <3>1, <3>3, <3>4
    <3> QED
      BY <3>5
  <2>2. CASE j # 1
    <3>1. j - 1 \in 1..(2 * h - 1) /\ 2 * h - j \in 1..(2 * h - 1) /\ j \in 2..h
      BY <2>2
    <3>2. 1 \notin PairOf(h, r, j)
      BY <1>1, <3>1 DEF PairOf
    <3>3. i # 1
      BY <1>1, <3>2 DEF PairOf
    <3>4. i \in 2..h
      BY <3>3
    <3> DEFINE a == Seat(h, r, j - 1)
               b == Seat(h, r, 2 * h - j)
               c == Seat(h, q, i - 1)
               d == Seat(h, q, 2 * h - i)
    <3>5. /\ a + b + 2 * r \in {2 * h + 1, 4 * h, 6 * h - 1}
          /\ c + d + 2 * q \in {2 * h + 1, 4 * h, 6 * h - 1}
      BY <1>1, <3>1, <3>4
    <3>6. a \in Int /\ b \in Int /\ c \in Int /\ d \in Int
      BY PairsOfRound
    <3>7. (a = c /\ b = d) \/ (a = d /\ b = c)
      <4>1. {a, b} = {c, d}
        BY DEF PairOf
      <4>2. a # b /\ c # d
        BY PairsOfRound
      <4> QED
        BY <4>1, <4>2
    <3> HIDE DEF a, b, c, d
    <3>8. a + b = c + d
      BY <3>6, <3>7
    <3>9. 2 * r - 2 * q \in {0, 2 * h - 1, -(2 * h - 1), 4 * h - 2, -(4 * h - 2)}
      BY <3>5, <3>6, <3>8
    <3> QED
      BY <3>9
  <2> QED
    BY <2>1, <2>2
<1>3. i = j
  <2>1. PairOf(h, r, j) # {}
    BY DEF PairOf
  <2> QED
    BY <1>2, <2>1, PairsOfRound
<1> QED
  BY <1>2, <1>3

\* Every two meet.
LEMMA EveryTwoMeet ==
  ASSUME NEW h \in Nat \ {0}, NEW x \in 1..(2 * h), NEW y \in 1..(2 * h), x < y
  PROVE  \E r \in 0..(2 * h - 2), j \in 1..h : PairOf(h, r, j) = {x, y}
<1>1. CASE x = 1
  <2>1. 2 * h - y \in 0..(2 * h - 2) /\ 1 \in 1..h
    BY <1>1
  <2>2. Seat(h, 2 * h - y, 1 - 1) = 1 /\ Seat(h, 2 * h - y, 2 * h - 1) = y
    BY <1>1 DEF Seat
  <2>3. PairOf(h, 2 * h - y, 1) = {x, y}
    BY <1>1, <2>2 DEF PairOf
  <2> QED
    BY <2>1, <2>3
<1>2. CASE x > 1
  <2>1. \E r \in 0..(2 * h - 2) : x + y + 2 * r \in {2 * h + 1, 4 * h, 6 * h - 1}
    <3>1. CASE (x + y) % 2 = 0
      <4>1. 2 * h - (x + y) \div 2 \in 0..(2 * h - 2)
        BY <1>2, <3>1
      <4>2. x + y + 2 * (2 * h - (x + y) \div 2) = 4 * h
        BY <1>2, <3>1
      <4> QED
        BY <4>1, <4>2
    <3>2. CASE (x + y) % 2 = 1 /\ x + y <= 2 * h + 1
      <4>1. (2 * h + 1 - (x + y)) \div 2 \in 0..(2 * h - 2)
        BY <1>2, <3>2
      <4>2. x + y + 2 * ((2 * h + 1 - (x + y)) \div 2) = 2 * h + 1
        BY <1>2, <3>2
      <4> QED
        BY <4>1, <4>2
    <3>3. CASE (x + y) % 2 = 1 /\ x + y > 2 * h + 1
      <4>1. (6 * h - 1 - (x + y)) \div 2 \in 0..(2 * h - 2)
        BY <1>2, <3>3
      <4>2. x + y + 2 * ((6 * h - 1 - (x + y)) \div 2) = 6 * h - 1
        BY <1>2, <3>3
      <4> QED
        BY <4>1, <4>2
    <3> QED
      BY <3>1, <3>2, <3>3
  <2>2. PICK r \in 0..(2 * h - 2) : x + y + 2 * r \in {2 * h + 1, 4 * h, 6 * h - 1}
    BY <2>1
  <2> DEFINE Place(z) == IF z + r <= 2 * h THEN z + r - 1 ELSE z + r - 2 * h
             a == Place(x)
             b == Place(y)
  <2>3. /\ a \in 1..(2 * h - 1) /\ Seat(h, r, a) = x
        /\ b \in 1..(2 * h - 1) /\ Seat(h, r, b) = y
    BY <1>2 DEF Seat
  <2>4. a + b = 2 * h - 1
    BY <1>2, <2>2
  <2> HIDE DEF a, b
  <2>5. CASE a < b
    <3>1. a + 1 \in 1..h /\ (a + 1) - 1 = a /\ 2 * h - (a + 1) = b
      BY <2>3, <2>4, <2>5
    <3>2. PairOf(h, r, a + 1) = {x, y}
      BY <2>3, <3>1 DEF PairOf
    <3> QED
      BY <3>1, <3>2
  <2>6. CASE ~(a < b)
    <3>1. b + 1 \in 1..h /\ (b + 1) - 1 = b /\ 2 * h - (b + 1) = a
      BY <2>3, <2>4, <2>6
    <3>2. PairOf(h, r, b + 1) = {x, y}
      BY <2>3, <3>1 DEF PairOf
    <3> QED
      BY <3>1, <3>2
  <2> QED
    BY <2>5, <2>6
<1> QED
  BY <1>1, <1>2

-----------------------------------------------------------------------------
(* A round robin *)

\* The matches of a round robin: of the pairs of an even number of players
\* those in which all are real.
Half(list) == (Len(list) + (Len(list) % 2)) \div 2

Meetings(list) ==
  {id \in {"RR"} \X (0..(2 * Half(list) - 2)) \X (1..Half(list)) :
     PairOf(Half(list), id[2], id[3]) \subseteq 1..Len(list)}

LEMMA HalfType ==
  ASSUME NEW S, NEW list \in Seq(S), Len(list) >= 2
  PROVE  /\ Half(list) \in Nat \ {0} /\ Len(list) \in Nat
         /\ Len(list) + (Len(list) % 2) = 2 * Half(list)
         /\ Len(list) \in {2 * Half(list) - 1, 2 * Half(list)}
<1> DEFINE n == Len(list)
<1>1. n \in Nat /\ n >= 2
  OBVIOUS
<1> HIDE DEF n
<1>2. /\ (n + (n % 2)) \div 2 \in Nat \ {0}
      /\ n + (n % 2) = 2 * ((n + (n % 2)) \div 2)
      /\ n \in {2 * ((n + (n % 2)) \div 2) - 1, 2 * ((n + (n % 2)) \div 2)}
  BY <1>1
<1> QED
  BY <1>1, <1>2 DEF n, Half

\* The circle method gives these pairs.
LEMMA RoundRobinForm ==
  ASSUME NEW S, NEW list \in Seq(S), Len(list) >= 2
  PROVE  /\ DOMAIN RoundRobin(list) = Meetings(list)
         /\ \A id \in Meetings(list) :
              RoundRobin(list)[id] =
                Made(None, None, FALSE, {list[k] : k \in PairOf(Half(list), id[2], id[3])})
<1> DEFINE n == Len(list) + (Len(list) % 2)
           h == Half(list)
           At(r, j) == IF j = 0 THEN 1 ELSE 2 + ((j - 1 - r) % (n - 1))
           Pair(id) == CirclePairs(list, id[2])[id[3]]
           ids == {id \in {"RR"} \X (0..(n - 2)) \X (1..(n \div 2)) : Pair(id) \subseteq 1..Len(list)}
<1>1. RoundRobin(list) = [id \in ids |-> Made(None, None, FALSE, {list[k] : k \in Pair(id)})]
  BY DEF RoundRobin
<1>2. h \in Nat \ {0} /\ n = 2 * h
  BY HalfType
<1>3. n - 2 = 2 * h - 2 /\ n - 1 = 2 * h - 1 /\ n \div 2 = h
  <2> HIDE DEF n, h
  <2> QED
    BY <1>2
<1>4. ASSUME NEW r \in 0..(2 * h - 2), NEW j \in 1..h
      PROVE  CirclePairs(list, r)[j] = PairOf(h, r, j)
  <2>1. CirclePairs(list, r) = [i \in 1..(n \div 2) |-> {At(r, i - 1), At(r, n - i)}]
    BY DEF CirclePairs
  <2>2. CirclePairs(list, r)[j] = {At(r, j - 1), At(r, n - j)}
    <3> HIDE DEF At, n, h
    <3> QED
      BY <1>3, <2>1
  <2>3. j - 1 \in 0..(2 * h - 1) /\ n - j \in 0..(2 * h - 1) /\ n - j = 2 * h - j
    <3> HIDE DEF n, h
    <3> QED
      BY <1>2
  <2>4. \A i \in 0..(2 * h - 1) : At(r, i) = Seat(h, r, i)
    <3> HIDE DEF n, h
    <3>1. TAKE i \in 0..(2 * h - 1)
    <3>2. At(r, i) = IF i = 0 THEN 1 ELSE 2 + ((i - 1 - r) % (2 * h - 1))
      BY <1>3
    <3> QED
      BY <1>2, <3>2, SeatMoves
  <2> HIDE DEF At, n, h
  <2> QED
    BY <2>2, <2>3, <2>4 DEF PairOf
<1>5. \A id \in {"RR"} \X (0..(2 * h - 2)) \X (1..h) : Pair(id) = PairOf(h, id[2], id[3])
  <2> HIDE DEF n, h
  <2> QED
    BY <1>4
<1>6. ids = Meetings(list)
  <2>1. Meetings(list) = {id \in {"RR"} \X (0..(2 * h - 2)) \X (1..h) :
                            PairOf(h, id[2], id[3]) \subseteq 1..Len(list)}
    BY DEF Meetings
  <2> HIDE DEF n, h, Pair
  <2> QED
    BY <1>3, <1>5, <2>1
<1>7. ASSUME NEW id \in Meetings(list)
      PROVE  Pair(id) = PairOf(h, id[2], id[3])
  <2>1. id \in {"RR"} \X (0..(2 * h - 2)) \X (1..h)
    BY DEF Meetings
  <2> HIDE DEF n, h, Pair
  <2> QED
    BY <1>5, <2>1
<1> HIDE DEF ids, Pair, n
<1> QED
  BY <1>1, <1>6, <1>7

LEMMA MeetingForm ==
  ASSUME NEW S, NEW list \in Seq(S), Len(list) >= 2
  PROVE  /\ \A id \in Meetings(list) :
              /\ id = <<"RR", id[2], id[3]>>
              /\ id[2] \in 0..(2 * Half(list) - 2) /\ id[3] \in 1..Half(list)
              /\ PairOf(Half(list), id[2], id[3]) \subseteq 1..Len(list)
         /\ \A r \in 0..(2 * Half(list) - 2), j \in 1..Half(list) :
              PairOf(Half(list), r, j) \subseteq 1..Len(list) <=> <<"RR", r, j>> \in Meetings(list)
BY DEF Meetings

\* Every two on the list meet once, and nobody plays twice in a round.
LEMMA MeetOnce ==
  ASSUME NEW S, NEW list \in Seq(S), Len(list) >= 2, Injective(list), NEW who,
         \A id \in Meetings(list) : who[id] = {list[k] : k \in PairOf(Half(list), id[2], id[3])}
  PROVE  /\ \A x, y \in 1..Len(list) : x # y =>
              \E id \in Meetings(list) : {m \in Meetings(list) : {list[x], list[y]} \subseteq who[m]} = {id}
         /\ \A m, o \in Meetings(list) : m[2] = o[2] /\ m # o => who[m] \cap who[o] = {}
<1> DEFINE h == Half(list)
           ids == Meetings(list)
<1>1. h \in Nat \ {0} /\ Len(list) \in Nat /\ Len(list) <= 2 * h
  BY HalfType
<1>2. /\ \A id \in ids : /\ id = <<"RR", id[2], id[3]>>
                         /\ id[2] \in 0..(2 * h - 2) /\ id[3] \in 1..h
                         /\ PairOf(h, id[2], id[3]) \subseteq 1..Len(list)
      /\ \A r \in 0..(2 * h - 2), j \in 1..h :
           PairOf(h, r, j) \subseteq 1..Len(list) => <<"RR", r, j>> \in ids
  BY MeetingForm
<1>3. \A id \in ids : who[id] = {list[k] : k \in PairOf(h, id[2], id[3])}
  OBVIOUS
<1>4. \A i, j \in 1..Len(list) : list[i] = list[j] => i = j
  BY DEF Injective
<1> HIDE DEF h, ids
<1>5. ASSUME NEW id \in ids, NEW x \in 1..Len(list)
      PROVE  list[x] \in who[id] <=> x \in PairOf(h, id[2], id[3])
  <2> DEFINE pair == PairOf(h, id[2], id[3])
  <2>1. pair \subseteq 1..Len(list) /\ who[id] = {list[k] : k \in pair}
    BY <1>2, <1>3
  <2> HIDE DEF pair
  <2>2. ASSUME list[x] \in who[id] PROVE x \in pair
    <3>1. PICK k \in pair : list[x] = list[k]
      BY <2>1, <2>2
    <3> QED
      BY <1>4, <2>1, <3>1
  <2>3. x \in pair => list[x] \in who[id]
    BY <2>1
  <2> QED
    BY <2>2, <2>3 DEF pair
<1>6. ASSUME NEW x \in 1..Len(list), NEW y \in 1..Len(list), x # y
      PROVE  \E id \in ids : {m \in ids : {list[x], list[y]} \subseteq who[m]} = {id}
  <2>1. \E r \in 0..(2 * h - 2), j \in 1..h : PairOf(h, r, j) = {x, y}
    <3>1. x \in 1..(2 * h) /\ y \in 1..(2 * h)
      BY <1>1
    <3>2. CASE x < y
      BY <1>1, <3>1, <3>2, EveryTwoMeet
    <3>3. CASE y < x
      <4>1. {x, y} = {y, x}
        OBVIOUS
      <4>2. \E r \in 0..(2 * h - 2), j \in 1..h : PairOf(h, r, j) = {y, x}
        BY <1>1, <3>1, <3>3, EveryTwoMeet
      <4> QED
        BY <4>1, <4>2
    <3> QED
      BY <1>6, <3>1, <3>2, <3>3
  <2>2. PICK r \in 0..(2 * h - 2), j \in 1..h : PairOf(h, r, j) = {x, y}
    BY <2>1
  <2> DEFINE id == <<"RR", r, j>>
  <2>3. id \in ids /\ id[2] = r /\ id[3] = j
    BY <1>2, <2>2
  <2>4. {list[x], list[y]} \subseteq who[id]
    BY <1>5, <2>2, <2>3
  <2>5. ASSUME NEW m \in ids, {list[x], list[y]} \subseteq who[m] PROVE m = id
    <3>1. {x, y} \subseteq PairOf(h, m[2], m[3])
      BY <1>5, <2>5
    <3>2. PairOf(h, m[2], m[3]) = {x, y}
      BY <1>6, <3>1 DEF PairOf
    <3>3. m[2] \in 0..(2 * h - 2) /\ m[3] \in 1..h /\ m = <<"RR", m[2], m[3]>>
      BY <1>2
    <3>4. m[2] = r /\ m[3] = j
      <4> DEFINE q == m[2]
                 i == m[3]
      <4>1. q \in 0..(2 * h - 2) /\ i \in 1..h /\ PairOf(h, q, i) = PairOf(h, r, j)
        BY <2>2, <3>2, <3>3
      <4> HIDE DEF q, i
      <4>2. q = r /\ i = j
        BY <1>1, <4>1, MeetingTellsRound
      <4> QED
        BY <4>2 DEF q, i
    <3> QED
      BY <3>3, <3>4
  <2> HIDE DEF id
  <2> QED
    BY <2>3, <2>4, <2>5
<1>7. ASSUME NEW m \in ids, NEW o \in ids, m[2] = o[2], m # o
      PROVE  who[m] \cap who[o] = {}
  <2>1. /\ m[2] \in 0..(2 * h - 2) /\ m[3] \in 1..h /\ o[3] \in 1..h /\ m[3] # o[3]
    BY <1>2, <1>7
  <2>2. PairOf(h, m[2], m[3]) \cap PairOf(h, o[2], o[3]) = {}
    BY <1>1, <1>7, <2>1, PairsOfRound
  <2>3. ASSUME NEW c \in who[m], c \in who[o] PROVE FALSE
    <3>1. PICK k \in PairOf(h, m[2], m[3]) : c = list[k]
      BY <1>3
    <3>2. k \in 1..Len(list)
      BY <1>2
    <3>3. k \in PairOf(h, o[2], o[3])
      BY <1>5, <2>3, <3>1, <3>2
    <3> QED
      BY <2>2, <3>1, <3>3
  <2> QED
    BY <2>3
<1> QED
  BY <1>6, <1>7 DEF ids

\* With an odd number of players one pair of each round is not played.
LEMMA SittingOut ==
  ASSUME NEW h \in Nat \ {0}, NEW r \in 0..(2 * h - 2), NEW j \in 1..h
  PROVE  /\ PairOf(h, r, j) \subseteq 1..(2 * h)
         /\ PairOf(h, r, j) \subseteq 1..(2 * h - 1) <=> j # (IF r < h THEN r + 1 ELSE 2 * h - r)
<1>1. j - 1 \in 0..(2 * h - 1) /\ 2 * h - j \in 0..(2 * h - 1)
  OBVIOUS
<1>2. \A i \in 0..(2 * h - 1) :
         /\ Seat(h, r, i) \in 1..(2 * h)
         /\ Seat(h, r, i) = 2 * h <=> i = (IF r = 0 THEN 2 * h - 1 ELSE r)
  BY DEF Seat
<1>3. PairOf(h, r, j) \subseteq 1..(2 * h)
  BY <1>1, <1>2 DEF PairOf
<1>4. PairOf(h, r, j) \subseteq 1..(2 * h - 1)
        <=> Seat(h, r, j - 1) # 2 * h /\ Seat(h, r, 2 * h - j) # 2 * h
  BY <1>1, <1>2 DEF PairOf
<1>5. Seat(h, r, j - 1) # 2 * h /\ Seat(h, r, 2 * h - j) # 2 * h
        <=> j # (IF r < h THEN r + 1 ELSE 2 * h - r)
  BY <1>1, <1>2
<1> QED
  BY <1>3, <1>4, <1>5

LEMMA GridSize ==
  ASSUME NEW a \in Nat, NEW b \in Nat
  PROVE  /\ IsFiniteSet((0..(a - 1)) \X (1..b))
         /\ Cardinality((0..(a - 1)) \X (1..b)) = a * b
<1>1. /\ IsFiniteSet(0..(a - 1)) /\ Cardinality(0..(a - 1)) = a
      /\ IsFiniteSet(1..b) /\ Cardinality(1..b) = b
  <2>1. a - 1 \in Int /\ b \in Int /\ 0 \in Int /\ 1 \in Int
    OBVIOUS
  <2>2. /\ IsFiniteSet(0..(a - 1)) /\ Cardinality(0..(a - 1)) = IF 0 > a - 1 THEN 0 ELSE (a - 1) - 0 + 1
        /\ IsFiniteSet(1..b) /\ Cardinality(1..b) = IF 1 > b THEN 0 ELSE b - 1 + 1
    BY <2>1, FS_Interval
  <2> QED
    BY <2>2
<1> QED
  BY <1>1, FS_Product

\* There are as many meetings as pairs.
LEMMA MeetingsCounted ==
  ASSUME NEW S, NEW list \in Seq(S), Len(list) >= 2
  PROVE  /\ IsFiniteSet(Meetings(list))
         /\ 2 * Cardinality(Meetings(list)) = Len(list) * (Len(list) - 1)
<1> DEFINE h == Half(list)
           n == Len(list)
           ids == Meetings(list)
           Out(r) == IF r < h THEN r + 1 ELSE 2 * h - r
<1>1. h \in Nat \ {0} /\ n \in {2 * h - 1, 2 * h}
  BY HalfType
<1>2. /\ \A id \in ids : /\ id = <<"RR", id[2], id[3]>>
                         /\ id[2] \in 0..(2 * h - 2) /\ id[3] \in 1..h
                         /\ PairOf(h, id[2], id[3]) \subseteq 1..n
      /\ \A r \in 0..(2 * h - 2), j \in 1..h :
           PairOf(h, r, j) \subseteq 1..n => <<"RR", r, j>> \in ids
  BY MeetingForm
<1> HIDE DEF h, n, ids
<1>3. CASE n = 2 * h
  <2> DEFINE grid == (0..((2 * h - 1) - 1)) \X (1..h)
             key == [x \in grid |-> <<"RR", x[1], x[2]>>]
  <2>1. IsFiniteSet(grid) /\ Cardinality(grid) = (2 * h - 1) * h
    <3>1. 2 * h - 1 \in Nat /\ h \in Nat
      BY <1>1
    <3> QED
      BY <3>1, GridSize
  <2>2. \A x \in grid : x = <<x[1], x[2]>> /\ x[1] \in 0..(2 * h - 2) /\ x[2] \in 1..h
    BY <1>1
  <2>3. \A x \in grid : key[x] = <<"RR", x[1], x[2]>> /\ key[x] \in ids
    BY <1>1, <1>2, <1>3, <2>2, SittingOut
  <2>4. \A id \in ids : <<id[2], id[3]>> \in grid /\ key[<<id[2], id[3]>>] = id
    BY <1>1, <1>2
  <2>5. \A x, y \in grid : key[x] = key[y] => x = y
    BY <2>2, <2>3
  <2>6. DOMAIN key = grid /\ key = [x \in grid |-> key[x]]
    OBVIOUS
  <2> HIDE DEF grid, key
  <2>7. key \in Bijection(grid, ids)
    BY <2>3, <2>4, <2>5, <2>6 DEF Bijection, Injection, IsInjective, Surjection
  <2>8. IsFiniteSet(ids) /\ Cardinality(ids) = (2 * h - 1) * h
    <3>1. ExistsBijection(grid, ids)
      BY <2>7 DEF ExistsBijection
    <3> QED
      BY <2>1, <3>1, FS_Bijection
  <2>9. 2 * ((2 * h - 1) * h) = (2 * h) * (2 * h - 1)
    BY <1>1
  <2> QED
    BY <1>3, <2>8, <2>9 DEF ids, n
<1>4. CASE n = 2 * h - 1
  <2> DEFINE grid == (0..((2 * h - 1) - 1)) \X (1..(h - 1))
             key == [x \in grid |-> <<"RR", x[1], IF x[2] < Out(x[1]) THEN x[2] ELSE x[2] + 1>>]
  <2>1. IsFiniteSet(grid) /\ Cardinality(grid) = (2 * h - 1) * (h - 1)
    <3>1. 2 * h - 1 \in Nat /\ h - 1 \in Nat
      BY <1>1
    <3> QED
      BY <3>1, GridSize
  <2>2. \A x \in grid : x = <<x[1], x[2]>> /\ x[1] \in 0..(2 * h - 2) /\ x[2] \in 1..(h - 1)
    BY <1>1
  <2>3. \A r \in 0..(2 * h - 2), j \in 1..h : PairOf(h, r, j) \subseteq 1..n <=> j # Out(r)
    BY <1>1, <1>4, SittingOut
  <2>4. \A r \in 0..(2 * h - 2) : Out(r) \in 1..h
    BY <1>1
  <2> HIDE DEF Out
  <2>5. ASSUME NEW x \in grid
        PROVE  /\ key[x] \in ids
               /\ key[x] = <<"RR", x[1], IF x[2] < Out(x[1]) THEN x[2] ELSE x[2] + 1>>
    <3> DEFINE j == IF x[2] < Out(x[1]) THEN x[2] ELSE x[2] + 1
    <3>1. x[1] \in 0..(2 * h - 2) /\ x[2] \in 1..(h - 1) /\ Out(x[1]) \in 1..h
      BY <2>2, <2>4
    <3>2. j \in 1..h /\ j # Out(x[1])
      BY <1>1, <3>1
    <3>3. key[x] = <<"RR", x[1], j>>
      OBVIOUS
    <3> HIDE DEF j, key, grid
    <3>4. key[x] \in ids
      BY <1>2, <2>3, <3>1, <3>2, <3>3
    <3> QED
      BY <3>3, <3>4 DEF j
  <2>6. \A id \in ids : \E x \in grid : key[x] = id
    <3>1. TAKE id \in ids
    <3>2. /\ id = <<"RR", id[2], id[3]>> /\ id[2] \in 0..(2 * h - 2) /\ id[3] \in 1..h
          /\ id[3] # Out(id[2]) /\ Out(id[2]) \in 1..h
      BY <1>2, <2>3, <2>4
    <3> DEFINE j == IF id[3] < Out(id[2]) THEN id[3] ELSE id[3] - 1
               x == <<id[2], j>>
    <3>3. j \in 1..(h - 1) /\ id[3] = IF j < Out(id[2]) THEN j ELSE j + 1
      BY <1>1, <3>2
    <3>4. x \in grid /\ x[1] = id[2] /\ x[2] = j
      <4> HIDE DEF j
      <4> QED
        BY <1>1, <3>2, <3>3
    <3>5. key[x] = <<"RR", id[2], IF j < Out(id[2]) THEN j ELSE j + 1>>
      <4> HIDE DEF x, j, grid, key
      <4> QED
        BY <2>5, <3>4
    <3> HIDE DEF x, j, key, grid
    <3> QED
      BY <3>2, <3>3, <3>4, <3>5
  <2>7. \A x, y \in grid : key[x] = key[y] => x = y
    <3>1. TAKE x, y \in grid
    <3>2. HAVE key[x] = key[y]
    <3>3. /\ x = <<x[1], x[2]>> /\ x[1] \in 0..(2 * h - 2) /\ x[2] \in 1..(h - 1)
          /\ y = <<y[1], y[2]>> /\ y[1] \in 0..(2 * h - 2) /\ y[2] \in 1..(h - 1)
      BY <2>2
    <3> HIDE DEF key, grid
    <3>4. /\ x[1] = y[1]
          /\ (IF x[2] < Out(x[1]) THEN x[2] ELSE x[2] + 1) = (IF y[2] < Out(y[1]) THEN y[2] ELSE y[2] + 1)
      BY <2>5, <3>2
    <3>5. Out(x[1]) \in 1..h
      BY <2>4, <3>3
    <3>6. x[2] = y[2]
      BY <1>1, <3>3, <3>4, <3>5
    <3> QED
      BY <3>3, <3>4, <3>6
  <2>8. DOMAIN key = grid /\ key = [x \in grid |-> key[x]]
    OBVIOUS
  <2> HIDE DEF grid, key
  <2>9. key \in Bijection(grid, ids)
    BY <2>5, <2>6, <2>7, <2>8 DEF Bijection, Injection, IsInjective, Surjection
  <2>10. IsFiniteSet(ids) /\ Cardinality(ids) = (2 * h - 1) * (h - 1)
    <3>1. ExistsBijection(grid, ids)
      BY <2>9 DEF ExistsBijection
    <3> QED
      BY <2>1, <3>1, FS_Bijection
  <2>11. 2 * ((2 * h - 1) * (h - 1)) = (2 * h - 1) * ((2 * h - 1) - 1)
    BY <1>1
  <2> QED
    BY <1>4, <2>10, <2>11 DEF ids, n
<1> QED
  BY <1>1, <1>3, <1>4

-----------------------------------------------------------------------------
(* What a generated bracket is like *)

LEMMA FreshEntrants ==
  ASSUME NEW who
  PROVE  Entrants(Fresh(who)) = who
<1> DEFINE Row1(c) == [who |-> c, copy |-> 1, score |-> None]
<1>1. Fresh(who) = {Row1(c) : c \in who} /\ \A c : Row1(c).who = c
  BY DEF Fresh
<1>2. Entrants(Fresh(who)) = {e.who : e \in Fresh(who)}
  BY DEF Entrants
<1> HIDE DEF Row1
<1>3. ASSUME NEW x \in Entrants(Fresh(who)) PROVE x \in who
  <2>1. PICK e \in Fresh(who) : x = e.who
    BY <1>2
  <2>2. PICK c \in who : e = Row1(c)
    BY <1>1
  <2> QED
    BY <1>1, <2>1, <2>2
<1>4. ASSUME NEW x \in who PROVE x \in Entrants(Fresh(who))
  <2>1. Row1(x) \in Fresh(who) /\ Row1(x).who = x
    BY <1>1
  <2> QED
    BY <1>2, <2>1
<1> QED
  BY <1>3, <1>4

LEMMA MadeForm ==
  ASSUME NEW next, NEW loserNext, NEW confirmed \in BOOLEAN, NEW who
  PROVE  /\ Made(next, loserNext, confirmed, who).next = next
         /\ Made(next, loserNext, confirmed, who).loserNext = loserNext
         /\ Made(next, loserNext, confirmed, who).confirmed = confirmed
         /\ Made(next, loserNext, confirmed, who).entries = Fresh(who)
BY DEF Made

\* The matches that have their contestants from the draw.
Starting == ({"MAIN", "WB"} \X {0} \X Nat) \cup ({"RR"} \X Nat \X Nat)

\* The first round of an elimination is drawn by the order of seeds.
FirstRound(matches, list, bracket) ==
  \A m \in 0..(Pow2[Rounds(list) - 1] - 1) :
    /\ <<bracket, 0, m>> \in DOMAIN matches
    /\ Entrants(matches[<<bracket, 0, m>>].entries) = Placed(list, m)

LEMMA FirstRoundForm ==
  ASSUME NEW bracket \in {"MAIN", "WB"}, NEW p \in Nat \ {0}
  PROVE  \A m \in 0..(Pow2[p - 1] - 1) : <<bracket, 0, m>> \in Tree(bracket, p)
<1>1. 0 \in 0..(p - 1) /\ p - 1 - 0 = p - 1
  OBVIOUS
<1> QED
  BY <1>1, TreeForm

LEMMA SingleEliminationForm ==
  ASSUME NEW S, NEW list \in Seq(S), Len(list) >= 2
  PROVE  LET p == Rounds(list)
             made == SingleElimination(list)
         IN  /\ DOMAIN made = Tree("MAIN", p) \cup (IF p >= 2 THEN {ThirdPlace} ELSE {})
             /\ FirstRound(made, list, "MAIN")
             /\ \A x \in Tree("MAIN", p) :
                  /\ made[x].next = IF x[2] < p - 1 THEN <<"MAIN", x[2] + 1, x[3] \div 2>> ELSE None
                  /\ made[x].loserNext = IF p >= 2 /\ x[2] = p - 2 THEN ThirdPlace ELSE None
                  /\ made[x].confirmed = (x[2] = 0 /\ p > 1 /\ Alone(list, x[3]))
                  /\ made[x].entries = Fresh(Starters(list, x[2], x[3]))
             /\ p >= 2 => made[ThirdPlace] = Made(None, None, FALSE, {})
<1> DEFINE p == Rounds(list)
           third == IF p >= 2 THEN {ThirdPlace} ELSE {}
           tree == Tree("MAIN", p)
           Next1(r, m) == IF r < p - 1 THEN <<"MAIN", r + 1, m \div 2>> ELSE None
           LoserNext(r) == IF p >= 2 /\ r = p - 2 THEN ThirdPlace ELSE None
           Over(r, m) == r = 0 /\ p > 1 /\ Alone(list, m)
           Main(r, m) == Made(Next1(r, m), LoserNext(r), Over(r, m), Starters(list, r, m))
           made == SingleElimination(list)
<1>1. made = [id \in tree \cup third |->
                IF id = ThirdPlace THEN Made(None, None, FALSE, {}) ELSE Main(id[2], id[3])]
  BY DEF SingleElimination
<1>2. p \in Nat \ {0}
  BY RoundsType
<1>3. \A id \in tree : id # ThirdPlace
  <2> HIDE DEF p
  <2>1. \A id \in tree : id = <<"MAIN", id[2], id[3]>>
    BY <1>2, TreeForm
  <2>2. \A a, b : <<"MAIN", a, b>> # ThirdPlace
    BY DEF ThirdPlace
  <2> QED
    BY <2>1, <2>2
<1> HIDE DEF made, tree, third, Main
<1>4. \A id \in tree : made[id] = Main(id[2], id[3])
  BY <1>1, <1>3
<1>5. DOMAIN made = tree \cup third
  BY <1>1
<1>6. \A id \in tree : /\ made[id].next = Next1(id[2], id[3])
                       /\ made[id].loserNext = LoserNext(id[2])
                       /\ made[id].confirmed = Over(id[2], id[3])
                       /\ made[id].entries = Fresh(Starters(list, id[2], id[3]))
  <2>1. \A id \in tree : Over(id[2], id[3]) \in BOOLEAN
    OBVIOUS
  <2> HIDE DEF Next1, LoserNext, Over
  <2> QED
    BY <1>4, <2>1, MadeForm DEF Main
<1>7. ASSUME NEW m \in 0..(Pow2[p - 1] - 1)
      PROVE  /\ <<"MAIN", 0, m>> \in DOMAIN made
             /\ Entrants(made[<<"MAIN", 0, m>>].entries) = Placed(list, m)
  <2> DEFINE x == <<"MAIN", 0, m>>
  <2>1. x \in tree
    <3>1. x \in Tree("MAIN", p)
      <4> HIDE DEF p
      <4> QED
        BY <1>2, FirstRoundForm
    <3> QED
      BY <3>1 DEF tree
  <2>2. Starters(list, x[2], x[3]) = Placed(list, m)
    BY DEF Starters
  <2> HIDE DEF x, Next1, LoserNext, p
  <2>3. made[x].entries = Fresh(Placed(list, m)) /\ x \in DOMAIN made
    BY <1>5, <1>6, <2>1, <2>2
  <2> QED
    BY <2>3, FreshEntrants DEF x
<1>8. p >= 2 => made[ThirdPlace] = Made(None, None, FALSE, {})
  BY <1>1 DEF third
<1> QED
  BY <1>5, <1>6, <1>7, <1>8 DEF made, tree, third, FirstRound

LEMMA DoubleEliminationForm ==
  ASSUME NEW S, NEW list \in Seq(S), Len(list) >= 4
  PROVE  LET p == Rounds(list)
             made == DoubleElimination(list)
         IN  /\ DOMAIN made = Tree("WB", p) \cup Lower(p) \cup {GrandFinal(0)}
             /\ FirstRound(made, list, "WB")
             /\ \A x \in Tree("WB", p) :
                  /\ made[x].next = IF x[2] < p - 1 THEN <<"WB", x[2] + 1, x[3] \div 2>> ELSE GrandFinal(0)
                  /\ made[x].loserNext = LoserTarget(list, x[2], x[3])
                  /\ made[x].confirmed = (x[2] = 0 /\ Alone(list, x[3]))
                  /\ made[x].entries = Fresh(Starters(list, x[2], x[3]))
             /\ \A x \in Lower(p) :
                  made[x] = Made(IF x \in DeadLower(list) THEN None ELSE LowerNext(p, x[2], x[3]),
                                 None, FALSE, {})
             /\ made[GrandFinal(0)] = Made(None, None, FALSE, {})
<1> DEFINE p == Rounds(list)
           upper == Tree("WB", p)
           lower == Lower(p)
           Next1(r, m) == IF r < p - 1 THEN <<"WB", r + 1, m \div 2>> ELSE GrandFinal(0)
           Over(r, m) == r = 0 /\ Alone(list, m)
           Upper(r, m) == Made(Next1(r, m), LoserTarget(list, r, m), Over(r, m), Starters(list, r, m))
           Onward(id) == IF id \in DeadLower(list) THEN None ELSE LowerNext(p, id[2], id[3])
           Losing(id) == Made(Onward(id), None, FALSE, {})
           made == DoubleElimination(list)
<1>1. made = [id \in upper \cup lower \cup {GrandFinal(0)} |->
                CASE id \in upper -> Upper(id[2], id[3])
                  [] id \in lower -> Losing(id)
                  [] OTHER -> Made(None, None, FALSE, {})]
  BY DEF DoubleElimination
<1>2. p \in Nat \ {0} /\ p >= 2
  BY RoundsType
<1>3. /\ \A id \in upper : id \notin lower /\ id # GrandFinal(0)
      /\ \A id \in lower : id \notin upper /\ id # GrandFinal(0)
  <2>1. \A id \in upper : id = <<"WB", id[2], id[3]>>
    <3> HIDE DEF p
    <3> QED
      BY <1>2, TreeForm
  <2>2. \A id \in lower : id = <<"LB", id[2], id[3]>>
    <3> HIDE DEF p
    <3> QED
      BY <1>2, LowerForm
  <2>3. \A a, b : <<"WB", a, b>> # GrandFinal(0) /\ <<"LB", a, b>> # GrandFinal(0)
    BY DEF GrandFinal
  <2>4. \A a, b, c, d : <<"WB", a, b>> # <<"LB", c, d>>
    OBVIOUS
  <2> HIDE DEF upper, lower
  <2> QED
    BY <2>1, <2>2, <2>3, <2>4
<1> HIDE DEF made, upper, lower, Upper, Losing
<1>4. /\ \A id \in upper : made[id] = Upper(id[2], id[3])
      /\ \A id \in lower : made[id] = Losing(id)
      /\ made[GrandFinal(0)] = Made(None, None, FALSE, {})
  BY <1>1, <1>3
<1>5. DOMAIN made = upper \cup lower \cup {GrandFinal(0)}
  BY <1>1
<1>6. \A id \in upper : /\ made[id].next = Next1(id[2], id[3])
                        /\ made[id].loserNext = LoserTarget(list, id[2], id[3])
                        /\ made[id].confirmed = Over(id[2], id[3])
                        /\ made[id].entries = Fresh(Starters(list, id[2], id[3]))
  <2>1. \A id \in upper : Over(id[2], id[3]) \in BOOLEAN
    OBVIOUS
  <2> HIDE DEF Next1, Over
  <2> QED
    BY <1>4, <2>1, MadeForm DEF Upper
<1>7. \A id \in lower : made[id] = Made(Onward(id), None, FALSE, {})
  BY <1>4 DEF Losing
<1>8. ASSUME NEW m \in 0..(Pow2[p - 1] - 1)
      PROVE  /\ <<"WB", 0, m>> \in DOMAIN made
             /\ Entrants(made[<<"WB", 0, m>>].entries) = Placed(list, m)
  <2> DEFINE x == <<"WB", 0, m>>
  <2>1. x \in upper
    <3>1. x \in Tree("WB", p)
      <4> HIDE DEF p
      <4> QED
        BY <1>2, FirstRoundForm
    <3> QED
      BY <3>1 DEF upper
  <2>2. Starters(list, x[2], x[3]) = Placed(list, m)
    BY DEF Starters
  <2> HIDE DEF x, Next1, p
  <2>3. made[x].entries = Fresh(Placed(list, m)) /\ x \in DOMAIN made
    BY <1>5, <1>6, <2>1, <2>2
  <2> QED
    BY <2>3, FreshEntrants DEF x
<1> QED
  BY <1>4, <1>5, <1>6, <1>7, <1>8 DEF made, upper, lower, FirstRound

\* Nothing leads to a dead match of the losers' bracket but what is dead.
LEMMA DeadLowerUnfolds ==
  ASSUME NEW S, NEW list \in Seq(S), Len(list) >= 4
  PROVE  LET p == Rounds(list)
             fed == {LoserTarget(list, id[2], id[3]) : id \in Tree("WB", p)}
         IN  \A x \in DeadLower(list) :
               /\ x \notin fed
               /\ x = <<"LB", x[2], x[3]>> /\ x[2] \in 1..(2 * (p - 1))
               /\ \/ x[2] = 1
                  \/ \A k \in 0..(LowerCount(p, x[2] - 1) - 1) :
                       <<"LB", x[2] - 1, k>> \in DeadLower(list) \/ LowerNext(p, x[2] - 1, k) # x
<1> DEFINE p == Rounds(list)
           fed == {LoserTarget(list, id[2], id[3]) : id \in Tree("WB", p)}
           K == 2 * (p - 1)
           Dying(r, D) == {m \in 0..(LowerCount(p, r) - 1) :
                             /\ <<"LB", r, m>> \notin fed
                             /\ r = 1 \/ \A k \in 0..(LowerCount(p, r - 1) - 1) :
                                           k \in D \/ LowerNext(p, r - 1, k) # <<"LB", r, m>>}
           Rec(f) == f = [r \in 0..K |->
                            IF r = 0 THEN {}
                            ELSE {m \in 0..(LowerCount(p, r) - 1) :
                                    /\ <<"LB", r, m>> \notin fed
                                    /\ r = 1 \/ \A k \in 0..(LowerCount(p, r - 1) - 1) :
                                                  k \in f[r - 1] \/ LowerNext(p, r - 1, k) # <<"LB", r, m>>}]
           dead == CHOOSE f : Rec(f)
           step == [x \in Nat \X SUBSET Nat |-> Dying(x[1], x[2]) \cap Nat]
<1>1. DeadLower(list) = UNION {{<<"LB", r, m>> : m \in dead[r]} : r \in 1..K}
  BY DEF DeadLower
<1>2. p \in Nat /\ p >= 2 /\ K \in Nat
  BY RoundsType
<1>3. PICK g \in [Nat -> SUBSET Nat] : Unfolds(g, {}, step)
  <2>1. step \in [Nat \X SUBSET Nat -> SUBSET Nat]
    <3> HIDE DEF Dying
    <3> QED
      OBVIOUS
  <2>2. {} \in SUBSET Nat
    OBVIOUS
  <2> HIDE DEF step
  <2> QED
    BY <2>1, <2>2, Iterated
<1>4. \A r \in Nat : g[r] = IF r = 0 THEN {} ELSE Dying(r, g[r - 1]) \cap Nat
  <2>1. \A r \in Nat : g[r] = IF r = 0 THEN {} ELSE step[<<r, g[r - 1]>>]
    <3> HIDE DEF step
    <3> QED
      BY <1>3 DEF Unfolds
  <2>2. ASSUME NEW r \in Nat, r # 0 PROVE step[<<r, g[r - 1]>>] = Dying(r, g[r - 1]) \cap Nat
    <3>1. r - 1 \in Nat
      BY <2>2
    <3>2. <<r, g[r - 1]>> \in Nat \X SUBSET Nat
      BY <1>3, <3>1
    <3> HIDE DEF Dying
    <3> QED
      BY <3>2
  <2> HIDE DEF step, Dying
  <2> QED
    BY <2>1, <2>2
<1>5. \A r, D : Dying(r, D) \cap Nat = Dying(r, D)
  <2> HIDE DEF fed, p
  <2> QED
    OBVIOUS
<1> DEFINE f1 == [r \in 0..K |-> g[r]]
<1>6. f1 = [r \in 0..K |-> IF r = 0 THEN {} ELSE Dying(r, f1[r - 1])]
  <2> HIDE DEF Dying, K
  <2>1. \A r \in 0..K : r \in Nat /\ (r # 0 => r - 1 \in 0..K)
    BY <1>2
  <2> QED
    BY <1>4, <1>5, <2>1
<1>7. Rec(f1)
  BY <1>6
<1>8. Rec(dead)
  <2> HIDE DEF Rec, f1
  <2> QED
    BY <1>7
<1>9. dead = [r \in 0..K |-> IF r = 0 THEN {} ELSE Dying(r, dead[r - 1])]
  <2> HIDE DEF dead, fed, p, K
  <2> QED
    BY <1>8
<1> HIDE DEF dead
<1>10. \A r \in 1..K : dead[r] = Dying(r, dead[r - 1])
  <2>1. \A r \in 1..K : r \in 0..K /\ r # 0
    BY <1>2
  <2> HIDE DEF Dying, K
  <2> QED
    BY <1>9, <2>1
<1>11. ASSUME NEW x \in DeadLower(list)
       PROVE  /\ x \notin fed
              /\ x = <<"LB", x[2], x[3]>> /\ x[2] \in 1..K
              /\ \/ x[2] = 1
                 \/ \A k \in 0..(LowerCount(p, x[2] - 1) - 1) :
                      <<"LB", x[2] - 1, k>> \in DeadLower(list) \/ LowerNext(p, x[2] - 1, k) # x
  <2>1. PICK r \in 1..K : \E m \in dead[r] : x = <<"LB", r, m>>
    BY <1>1
  <2>6. PICK m \in dead[r] : x = <<"LB", r, m>>
    BY <2>1
  <2>2. m \in Dying(r, dead[r - 1])
    BY <1>10, <2>6
  <2>3. /\ x \notin fed
        /\ r = 1 \/ \A k \in 0..(LowerCount(p, r - 1) - 1) :
                      k \in dead[r - 1] \/ LowerNext(p, r - 1, k) # x
    <3> HIDE DEF fed, p
    <3> QED
      BY <2>2, <2>6
  <2>4. r # 1 => r - 1 \in 1..K
    <3> HIDE DEF K
    <3> QED
      BY <1>2
  <2>5. r # 1 => \A k \in dead[r - 1] : <<"LB", r - 1, k>> \in DeadLower(list)
    <3> HIDE DEF K
    <3> QED
      BY <1>1, <2>4
  <2> HIDE DEF fed, p, K, Dying
  <2> QED
    BY <2>3, <2>5, <2>6
<1> QED
  BY <1>11

-----------------------------------------------------------------------------
(* The links of a bracket that is made *)

\* A bracket with the matches and links of another.
LinkedAs(made, matches) ==
  /\ DOMAIN matches = DOMAIN made
  /\ \A x \in DOMAIN made : /\ matches[x].next = made[x].next
                            /\ matches[x].loserNext = made[x].loserNext

\* No match leads back to those that have their contestants from the draw.
LinksUp(matches) ==
  \A x \in DOMAIN matches : matches[x].next \notin Starting /\ matches[x].loserNext \notin Starting

LEMMA NotStarting ==
  /\ None \notin Starting /\ ThirdPlace \notin Starting
  /\ \A o : GrandFinal(o) \notin Starting
  /\ \A r, m : <<"LB", r, m>> \notin Starting
  /\ \A b, r, m : r # 0 /\ b # "RR" => <<b, r, m>> \notin Starting
<1>1. None \notin Starting
  <2>1. Starting \subseteq {"MAIN", "WB", "LB", "GF", "P3", "RR"} \X Nat \X Nat
    BY DEF Starting
  <2> QED
    BY <2>1, NoneApart
<1>2. \A b, r, m : <<b, r, m>> \in Starting => b \in {"MAIN", "WB", "RR"} /\ (b # "RR" => r = 0)
  BY DEF Starting
<1> QED
  BY <1>1, <1>2 DEF ThirdPlace, GrandFinal

LEMMA SingleEliminationLinks ==
  ASSUME NEW S, NEW list \in Seq(S), Len(list) >= 2
  PROVE  LET made == SingleElimination(list)
             tree == Tree("MAIN", Rounds(list))
         IN  /\ LinksUp(made)
             /\ \A x \in DOMAIN made :
                  \/ x \in tree /\ x[1] = "MAIN"
                  \/ x = ThirdPlace /\ x[1] = "P3" /\ made[x].next = None
             /\ \A x \in tree : (made[x].next = None) <=> (x[2] = Rounds(list) - 1)
             /\ \A x \in DOMAIN made :
                  made[x].loserNext = None \/ (made[x].loserNext = ThirdPlace /\ ThirdPlace \in DOMAIN made)
<1> DEFINE p == Rounds(list)
           made == SingleElimination(list)
           tree == Tree("MAIN", p)
<1>1. p \in Nat \ {0}
  BY RoundsType
<1>2. \A id \in tree : id = <<"MAIN", id[2], id[3]>> /\ id[2] \in 0..(p - 1)
  <2> HIDE DEF p
  <2> QED
    BY <1>1, TreeForm
<1>3. /\ DOMAIN made = tree \cup (IF p >= 2 THEN {ThirdPlace} ELSE {})
      /\ \A x \in tree :
           /\ made[x].next = IF x[2] < p - 1 THEN <<"MAIN", x[2] + 1, x[3] \div 2>> ELSE None
           /\ made[x].loserNext = IF p >= 2 /\ x[2] = p - 2 THEN ThirdPlace ELSE None
      /\ p >= 2 => made[ThirdPlace].next = None /\ made[ThirdPlace].loserNext = None
  <2>1. p >= 2 => made[ThirdPlace] = Made(None, None, FALSE, {})
    BY SingleEliminationForm
  <2>2. Made(None, None, FALSE, {}).next = None /\ Made(None, None, FALSE, {}).loserNext = None
    BY DEF Made
  <2>3. p >= 2 => made[ThirdPlace].next = None /\ made[ThirdPlace].loserNext = None
    BY <2>1, <2>2
  <2> QED
    BY <2>3, SingleEliminationForm
<1> HIDE DEF p, made, tree
<1>4. \A x \in tree : /\ x[1] = "MAIN"
                      /\ x[2] < p - 1 => x[2] + 1 # 0
                      /\ ~(x[2] < p - 1) <=> x[2] = p - 1
  BY <1>1, <1>2
<1>5. ThirdPlace[1] = "P3"
  BY DEF ThirdPlace
<1>6. \A x \in tree : <<"MAIN", x[2] + 1, x[3] \div 2>> # None
  <2>1. \A x \in tree : x[2] \in Nat /\ x[3] \in Nat
    <3>1. tree \subseteq Ids
      BY <1>1, TreeForm DEF tree, p, Plans
    <3> QED
      BY <3>1 DEF Ids
  <2>2. \A x \in tree : <<"MAIN", x[2] + 1, x[3] \div 2>> \in Ids
    BY <2>1 DEF Ids
  <2> QED
    BY <2>2, GrandFinals
<1>7. LinksUp(made)
  <2>1. ASSUME NEW x \in tree
        PROVE  made[x].next \notin Starting /\ made[x].loserNext \notin Starting
    <3>1. made[x].loserNext \in {None, ThirdPlace}
      BY <1>3
    <3>2. CASE x[2] < p - 1
      <4>1. made[x].next = <<"MAIN", x[2] + 1, x[3] \div 2>> /\ x[2] + 1 # 0
        BY <1>3, <1>4, <3>2
      <4> QED
        BY <3>1, <4>1, NotStarting
    <3>3. CASE ~(x[2] < p - 1)
      BY <1>3, <3>1, <3>3, NotStarting
    <3> QED
      BY <3>2, <3>3
  <2>2. ASSUME NEW x \in DOMAIN made
        PROVE  made[x].next \notin Starting /\ made[x].loserNext \notin Starting
    <3>1. CASE x \in tree
      BY <2>1, <3>1
    <3>2. CASE x \notin tree
      <4>1. made[x].next = None /\ made[x].loserNext = None
        BY <1>3, <3>2
      <4> QED
        BY <4>1, NotStarting
    <3> QED
      BY <3>1, <3>2
  <2> QED
    BY <2>2 DEF LinksUp
<1>8. \A x \in DOMAIN made :
        \/ x \in tree /\ x[1] = "MAIN"
        \/ x = ThirdPlace /\ x[1] = "P3" /\ made[x].next = None
  BY <1>3, <1>4, <1>5
<1>9. \A x \in tree : (made[x].next = None) <=> (x[2] = p - 1)
  BY <1>3, <1>4, <1>6
<1>10. \A x \in DOMAIN made :
         made[x].loserNext = None \/ (made[x].loserNext = ThirdPlace /\ ThirdPlace \in DOMAIN made)
  BY <1>3
<1> QED
  BY <1>7, <1>8, <1>9, <1>10 DEF p, made, tree

\* The last round of a tree.
LEMMA LastRound ==
  ASSUME NEW p \in Nat \ {0}, NEW ids,
         {x \in ids : x[1] \in {"MAIN"}} = Tree("MAIN", p)
  PROVE  LET lastRound == CHOOSE r \in {x[2] : x \in {y \in ids : y[1] \in {"MAIN"}}} :
                            \A x \in {y \in ids : y[1] \in {"MAIN"}} : x[2] <= r
         IN  lastRound = p - 1
<1> DEFINE tree == Tree("MAIN", p)
           Last(r) == \A x \in tree : x[2] <= r
           lastRound == CHOOSE r \in {x[2] : x \in tree} : Last(r)
<1>1. /\ \A r, m : <<"MAIN", r, m>> \in tree <=> r \in 0..(p - 1) /\ m \in 0..(Pow2[p - 1 - r] - 1)
      /\ \A id \in tree : id[2] \in 0..(p - 1)
  BY TreeForm
<1>2. <<"MAIN", p - 1, 0>> \in tree
  <2>1. p - 1 \in 0..(p - 1) /\ p - 1 - (p - 1) = 0 /\ 0 \in 0..(1 - 1)
    OBVIOUS
  <2> QED
    BY <1>1, <2>1, Pow2Type
<1> HIDE DEF tree
<1>3. p - 1 \in {x[2] : x \in tree} /\ Last(p - 1)
  <2>1. <<"MAIN", p - 1, 0>>[2] = p - 1
    OBVIOUS
  <2>2. \A x \in tree : x[2] <= p - 1
    BY <1>1
  <2> QED
    BY <1>2, <2>1, <2>2
<1>4. lastRound \in {x[2] : x \in tree} /\ Last(lastRound)
  <2> HIDE DEF Last
  <2> QED
    BY <1>3
<1>5. lastRound \in 0..(p - 1) /\ p - 1 <= lastRound
  <2> HIDE DEF lastRound
  <2>1. lastRound \in 0..(p - 1)
    BY <1>1, <1>4
  <2>2. <<"MAIN", p - 1, 0>>[2] <= lastRound
    BY <1>2, <1>4
  <2> QED
    BY <2>1, <2>2
<1>6. lastRound = p - 1
  <2> HIDE DEF lastRound
  <2> QED
    BY <1>5
<1> QED
  BY <1>6 DEF tree

LEMMA DoubleEliminationLinks ==
  ASSUME NEW list \in Seq(Contestants), Len(list) >= 4
  PROVE  LET p == Rounds(list)
             made == DoubleElimination(list)
         IN  /\ LinksUp(made)
             /\ \A x \in DOMAIN made :
                  \/ /\ x \in Tree("WB", p) /\ x[1] = "WB"
                     /\ made[x].next # None
                     /\ made[x].loserNext \in Lower(p) \cup {None}
                  \/ /\ x \in Lower(p) /\ x[1] = "LB"
                     /\ made[x].next \in Lower(p) \cup {GrandFinal(0), None}
                     /\ made[x].next = None => \A y \in DOMAIN made : x \notin {made[y].next, made[y].loserNext}
                     /\ made[x].loserNext = None
                  \/ x = GrandFinal(0) /\ x[1] = "GF" /\ made[x].next = None /\ made[x].loserNext = None
             /\ Lower(p) \subseteq DOMAIN made /\ GrandFinal(0) \in DOMAIN made
<1> DEFINE p == Rounds(list)
           made == DoubleElimination(list)
           upper == Tree("WB", p)
           lower == Lower(p)
           fed == {LoserTarget(list, id[2], id[3]) : id \in Tree("WB", p)}
<1>1. p \in Nat /\ p >= 2 /\ p \in Nat \ {0}
  BY RoundsType
<1>2. /\ upper \subseteq Ids
      /\ \A id \in upper : id = <<"WB", id[2], id[3]>> /\ id[2] \in 0..(p - 1)
  <2> HIDE DEF p
  <2> QED
    BY <1>1, TreeForm DEF Plans
<1>3. /\ lower \subseteq Ids
      /\ \A id \in lower : /\ id = <<"LB", id[2], id[3]>>
                            /\ id[2] \in 1..(2 * (p - 1))
                            /\ id[3] \in 0..(LowerCount(p, id[2]) - 1)
  <2> HIDE DEF p
  <2> QED
    BY <1>1, LowerForm DEF Plans
<1>4. /\ DOMAIN made = upper \cup lower \cup {GrandFinal(0)}
      /\ \A x \in upper :
           /\ made[x].next = IF x[2] < p - 1 THEN <<"WB", x[2] + 1, x[3] \div 2>> ELSE GrandFinal(0)
           /\ made[x].loserNext = LoserTarget(list, x[2], x[3])
      /\ \A x \in lower :
           /\ made[x].next = IF x \in DeadLower(list) THEN None ELSE LowerNext(p, x[2], x[3])
           /\ made[x].loserNext = None
      /\ made[GrandFinal(0)].next = None /\ made[GrandFinal(0)].loserNext = None
  <2> DEFINE Onward(x) == IF x \in DeadLower(list) THEN None ELSE LowerNext(p, x[2], x[3])
  <2>1. /\ \A x \in lower : made[x] = Made(Onward(x), None, FALSE, {})
        /\ made[GrandFinal(0)] = Made(None, None, FALSE, {})
    BY DoubleEliminationForm
  <2> HIDE DEF Onward, lower
  <2>2. \A n : Made(n, None, FALSE, {}).next = n /\ Made(n, None, FALSE, {}).loserNext = None
    BY DEF Made
  <2>3. /\ \A x \in lower : made[x].next = Onward(x) /\ made[x].loserNext = None
        /\ made[GrandFinal(0)].next = None /\ made[GrandFinal(0)].loserNext = None
    BY <2>1, <2>2
  <2> QED
    BY <2>3, DoubleEliminationForm DEF Onward, lower
<1>5. \A x \in upper : x[2] \in Nat /\ x[3] \in Nat
  BY <1>2 DEF Ids
<1>6. \A x \in upper : LoserTarget(list, x[2], x[3]) \in lower \cup {None}
  <2>1. TAKE x \in upper
  <2> DEFINE r == x[2]
             m == x[3]
  <2>2. r \in 0..(p - 1) /\ m \in Nat
    BY <1>2, <1>5
  <2> HIDE DEF r, m
  <2>3. LoserTarget(list, r, m) \in Lower(p) \cup {None}
    BY <2>2, LoserTargetType
  <2> QED
    BY <2>3 DEF r, m
<1>7. \A x \in lower : LowerNext(p, x[2], x[3]) \in lower \cup {GrandFinal(0)}
  <2>1. TAKE x \in lower
  <2>2. x[2] \in 1..(2 * (p - 1)) /\ x[3] \in 0..(LowerCount(p, x[2]) - 1)
    BY <1>3
  <2> DEFINE r == x[2]
             m == x[3]
  <2> HIDE DEF p, r, m
  <2>3. LowerNext(p, r, m) \in Lower(p) \cup {GrandFinal(0)}
    BY <1>1, <2>2, LowerNextType DEF r, m
  <2> QED
    BY <2>3 DEF r, m
<1>8. \A x \in DeadLower(list) :
        /\ x \notin fed
        /\ x = <<"LB", x[2], x[3]>> /\ x[2] \in 1..(2 * (p - 1))
        /\ \/ x[2] = 1
           \/ \A k \in 0..(LowerCount(p, x[2] - 1) - 1) :
                <<"LB", x[2] - 1, k>> \in DeadLower(list) \/ LowerNext(p, x[2] - 1, k) # x
  BY DeadLowerUnfolds
<1>9. \A x \in upper : made[x].loserNext \in fed
  BY <1>4
<1> HIDE DEF p, made, upper, lower, fed
<1>10. \A x \in upper : made[x].next # None /\ made[x].next \notin Starting /\ made[x].next[1] # "LB"
  <2>1. TAKE x \in upper
  <2>2. CASE x[2] < p - 1
    <3>1. made[x].next = <<"WB", x[2] + 1, x[3] \div 2>>
      BY <1>4, <2>2
    <3>2. x[2] + 1 \in Nat /\ x[2] + 1 # 0 /\ x[3] \div 2 \in Nat
      BY <1>5
    <3>3. <<"WB", x[2] + 1, x[3] \div 2>> \in Ids
      BY <3>2 DEF Ids
    <3> QED
      BY <3>1, <3>2, <3>3, NotStarting, GrandFinals
  <2>3. CASE ~(x[2] < p - 1)
    <3>1. made[x].next = GrandFinal(0)
      BY <1>4, <2>3
    <3>2. GrandFinal(0)[1] # "LB"
      BY DEF GrandFinal
    <3> QED
      BY <3>1, <3>2, NotStarting, GrandFinals
  <2> QED
    BY <2>2, <2>3
<1>11. \A x \in lower : x \notin Starting /\ x[1] = "LB" /\ x # None
  BY <1>3, NotStarting, GrandFinals
<1>12. LinksUp(made)
  <2>1. ASSUME NEW x \in DOMAIN made
        PROVE  made[x].next \notin Starting /\ made[x].loserNext \notin Starting
    <3>1. CASE x \in upper
      BY <1>4, <1>6, <1>10, <1>11, <3>1, NotStarting
    <3>2. CASE x \in lower
      BY <1>4, <1>7, <1>11, <3>2, NotStarting
    <3>3. CASE x = GrandFinal(0)
      BY <1>4, <3>3, NotStarting
    <3> QED
      BY <1>4, <3>1, <3>2, <3>3
  <2> QED
    BY <2>1 DEF LinksUp
<1>13. ASSUME NEW x \in lower, made[x].next = None, NEW y \in DOMAIN made
       PROVE  x \notin {made[y].next, made[y].loserNext}
  <2>1. x \in DeadLower(list)
    <3>1. GrandFinal(0) # None
      BY GrandFinals
    <3> QED
      BY <1>4, <1>7, <1>11, <1>13, <3>1
  <2>2. CASE y \in upper
    <3>1. made[y].next # x
      BY <1>10, <1>11, <2>2
    <3>2. made[y].loserNext # x
      BY <1>8, <1>9, <2>1, <2>2
    <3> QED
      BY <3>1, <3>2
  <2>3. CASE y \in lower
    <3>1. made[y].loserNext # x
      BY <1>4, <1>11, <2>3
    <3>2. ASSUME made[y].next = x PROVE FALSE
      <4>1. y \notin DeadLower(list) /\ LowerNext(p, y[2], y[3]) = x
        BY <1>4, <1>11, <2>3, <3>2
      <4>2. /\ y = <<"LB", y[2], y[3]>> /\ y[2] \in 1..(2 * (p - 1))
            /\ y[3] \in 0..(LowerCount(p, y[2]) - 1)
        BY <1>3, <2>3
      <4>3. x[2] = y[2] + 1 /\ x[1] = "LB"
        <5>1. x = GrandFinal(0) \/ x[2] = y[2] + 1
          <6>1. \A i : <<"LB", y[2] + 1, i>>[2] = y[2] + 1
            OBVIOUS
          <6> QED
            BY <4>1, <6>1 DEF LowerNext
        <5>2. GrandFinal(0)[1] # "LB"
          BY DEF GrandFinal
        <5> QED
          BY <1>11, <5>1, <5>2
      <4>4. x[2] # 1 /\ x[2] - 1 = y[2]
        BY <1>1, <4>2, <4>3
      <4>5. <<"LB", y[2], y[3]>> \in DeadLower(list) \/ LowerNext(p, y[2], y[3]) # x
        BY <1>8, <2>1, <4>2, <4>4
      <4> QED
        BY <4>1, <4>2, <4>5
    <3> QED
      BY <3>1, <3>2
  <2>4. CASE y = GrandFinal(0)
    BY <1>4, <1>11, <2>4
  <2> QED
    BY <1>4, <2>2, <2>3, <2>4
<1>14. ASSUME NEW x \in DOMAIN made
       PROVE  \/ /\ x \in upper /\ x[1] = "WB"
                 /\ made[x].next # None
                 /\ made[x].loserNext \in lower \cup {None}
              \/ /\ x \in lower /\ x[1] = "LB"
                 /\ made[x].next \in lower \cup {GrandFinal(0), None}
                 /\ made[x].next = None => \A y \in DOMAIN made : x \notin {made[y].next, made[y].loserNext}
                 /\ made[x].loserNext = None
              \/ x = GrandFinal(0) /\ x[1] = "GF" /\ made[x].next = None /\ made[x].loserNext = None
  <2>1. CASE x \in upper
    <3>1. x[1] = "WB"
      BY <1>2, <2>1
    <3>2. made[x].next # None
      BY <1>10, <2>1
    <3>3. made[x].loserNext \in lower \cup {None}
      BY <1>4, <1>6, <2>1
    <3> QED
      BY <2>1, <3>1, <3>2, <3>3
  <2>2. CASE x \in lower
    BY <1>4, <1>7, <1>11, <1>13, <2>2
  <2>3. CASE x = GrandFinal(0)
    BY <1>4, <2>3 DEF GrandFinal
  <2> QED
    BY <1>4, <2>1, <2>2, <2>3
<1> QED
  BY <1>4, <1>12, <1>14 DEF made, upper, lower, p

-----------------------------------------------------------------------------
(* The draw, and confirming a result *)

\* A bracket that has grown out of the one that was made: it may have got
\* the match of a bracket reset, and whoever was drawn stands where they
\* were drawn.
Drawn(made, matches) ==
  /\ DOMAIN matches \ {GrandFinal(1)} = DOMAIN made
  /\ \A x \in DOMAIN made :
       /\ matches[x].loserNext = made[x].loserNext
       /\ IF x = GrandFinal(0) THEN matches[x].next \in {None, GrandFinal(1)}
          ELSE matches[x].next = made[x].next
       /\ x \in Starting => Entrants(matches[x].entries) = Entrants(made[x].entries)

\* The matches, their links and the draw are as they were.
SameDraw(matches, new) ==
  /\ DOMAIN new = DOMAIN matches
  /\ \A x \in DOMAIN matches :
       /\ new[x].next = matches[x].next
       /\ new[x].loserNext = matches[x].loserNext
       /\ x \in Starting => Entrants(new[x].entries) = Entrants(matches[x].entries)

LEMMA SameDrawTransitive ==
  ASSUME NEW a, NEW b, NEW c, SameDraw(a, b), SameDraw(b, c)
  PROVE  SameDraw(a, c)
BY DEF SameDraw

LEMMA SameDrawLinksUp ==
  ASSUME NEW a, NEW b, SameDraw(a, b), LinksUp(a)
  PROVE  LinksUp(b)
BY DEF SameDraw, LinksUp

LEMMA SameDrawDrawn ==
  ASSUME NEW made, NEW a, NEW b, SameDraw(a, b), Drawn(made, a)
  PROVE  Drawn(made, b)
<1>1. DOMAIN made \subseteq DOMAIN a
  BY DEF Drawn
<1> QED
  BY <1>1 DEF SameDraw, Drawn

\* What has been drawn is not led back to.
LEMMA DrawnLinksUp ==
  ASSUME NEW made, LinksUp(made), NEW matches \in Brackets, Drawn(made, matches)
  PROVE  LinksUp(matches)
<1>1. ASSUME NEW x \in DOMAIN matches
      PROVE  matches[x].next \notin Starting /\ matches[x].loserNext \notin Starting
  <2>1. CASE x = GrandFinal(1)
    <3>1. matches[x].next = None /\ matches[x].loserNext = None
      BY <2>1, BracketsForm DEF ResetLinked
    <3> QED
      BY <3>1, NotStarting
  <2>2. CASE x # GrandFinal(1)
    <3>1. x \in DOMAIN made
      BY <2>2 DEF Drawn
    <3>2. matches[x].loserNext \notin Starting
      BY <3>1 DEF Drawn, LinksUp
    <3>3. matches[x].next \in {None, GrandFinal(1), made[x].next}
      BY <3>1 DEF Drawn
    <3> QED
      BY <3>1, <3>2, <3>3, NotStarting DEF LinksUp
  <2> QED
    BY <2>1, <2>2
<1> QED
  BY <1>1 DEF LinksUp

LEMMA ResultEntrants ==
  ASSUME NEW rows \in Rows, NEW who
  PROVE  Entrants(WithResult(rows, who)) = Entrants(rows)
<1>1. \A e \in rows : [e EXCEPT !.score = IF who \in {e.who, None} THEN 1 ELSE 0].who = e.who
  BY DEF Rows, Row
<1>2. ASSUME NEW c \in Entrants(rows) PROVE c \in Entrants(WithResult(rows, who))
  <2>1. PICK e \in rows : c = e.who
    BY <1>2 DEF Entrants
  <2>2. [e EXCEPT !.score = IF who \in {e.who, None} THEN 1 ELSE 0] \in WithResult(rows, who)
    BY DEF WithResult
  <2> QED
    BY <1>1, <2>1, <2>2 DEF Entrants
<1>3. ASSUME NEW c \in Entrants(WithResult(rows, who)) PROVE c \in Entrants(rows)
  <2>1. PICK r \in WithResult(rows, who) : c = r.who
    BY <1>3 DEF Entrants
  <2>2. PICK e \in rows : r = [e EXCEPT !.score = IF who \in {e.who, None} THEN 1 ELSE 0]
    BY DEF WithResult
  <2> QED
    BY <1>1, <2>1, <2>2 DEF Entrants
<1> QED
  BY <1>2, <1>3

LEMMA ScorelessEntrants ==
  ASSUME NEW rows \in Rows
  PROVE  Entrants({[e EXCEPT !.score = None] : e \in rows}) = Entrants(rows)
<1> DEFINE bare == {[e EXCEPT !.score = None] : e \in rows}
<1>1. \A e \in rows : [e EXCEPT !.score = None].who = e.who
  BY DEF Rows, Row
<1>2. ASSUME NEW c \in Entrants(rows) PROVE c \in Entrants(bare)
  <2>1. PICK e \in rows : c = e.who
    BY <1>2 DEF Entrants
  <2>2. [e EXCEPT !.score = None] \in bare
    OBVIOUS
  <2> QED
    BY <1>1, <2>1, <2>2 DEF Entrants
<1>3. ASSUME NEW c \in Entrants(bare) PROVE c \in Entrants(rows)
  <2>1. PICK r \in bare : c = r.who
    BY <1>3 DEF Entrants
  <2>2. PICK e \in rows : r = [e EXCEPT !.score = None]
    OBVIOUS
  <2> QED
    BY <1>1, <2>1, <2>2 DEF Entrants
<1> QED
  BY <1>2, <1>3

\* Rows replaced in a match that is not drawn, or without anybody coming
\* or leaving.
LEMMA RowsReplacedDraw ==
  ASSUME NEW matches \in Brackets, NEW x, NEW rows,
         x \in Starting /\ x \in DOMAIN matches => Entrants(rows) = Entrants(matches[x].entries)
  PROVE  SameDraw(matches, [matches EXCEPT ![x].entries = rows])
<1> DEFINE new == [matches EXCEPT ![x].entries = rows]
<1>1. matches \in [DOMAIN matches -> MatchIn(DOMAIN matches)]
  BY BracketsForm
<1>2. ASSUME NEW y \in DOMAIN matches
      PROVE  /\ new[y].next = matches[y].next
             /\ new[y].loserNext = matches[y].loserNext
             /\ new[y].entries = IF y = x THEN rows ELSE matches[y].entries
  <2>1. matches[y] \in MatchIn(DOMAIN matches)
    BY <1>1
  <2> QED
    BY <2>1 DEF MatchIn
<1>3. DOMAIN new = DOMAIN matches
  OBVIOUS
<1> HIDE DEF new
<1>4. SameDraw(matches, new)
  BY <1>2, <1>3 DEF SameDraw
<1> QED
  BY <1>4 DEF new

LEMMA SentDraw ==
  ASSUME NEW t \in Tournaments, NEW match, match \notin Starting, NEW who
  PROVE  SameDraw(t.matches, Sent(t, match, who).matches)
<1>1. CASE match = None
  BY <1>1 DEF Sent, SameDraw
<1>2. CASE match # None
  <2> DEFINE rows == AddEntry(t.matches[match].entries, who)
             new == [t.matches EXCEPT ![match].entries = rows]
  <2>1. Sent(t, match, who).matches = new
    BY <1>2 DEF Sent, Tournaments
  <2>2. SameDraw(t.matches, new)
    <3> HIDE DEF rows
    <3> QED
      BY TournamentForm, RowsReplacedDraw
  <2> QED
    BY <2>1, <2>2
<1> QED
  BY <1>1, <1>2

LEMMA WithdrawnDraw ==
  ASSUME NEW t \in Tournaments, NEW match, match \notin Starting, NEW who
  PROVE  SameDraw(t.matches, Withdrawn(t, match, who).matches)
<1> DEFINE rows == {e \in t.matches[match].entries : e.who # who}
           new == [t.matches EXCEPT ![match].entries = rows]
<1>1. Withdrawn(t, match, who).matches = new
  BY DEF Withdrawn, Vacated, Tournaments
<1>2. SameDraw(t.matches, new)
  <2> HIDE DEF rows
  <2> QED
    BY TournamentForm, RowsReplacedDraw
<1> QED
  BY <1>1, <1>2

LEMMA ConfirmDraw ==
  ASSUME NEW t \in Tournaments, NEW match
  PROVE  SameDraw(t.matches, AsConfirmed(t, match).matches)
BY ConfirmType DEF SameDraw

LEMMA PassOnDraw ==
  ASSUME NEW t \in Tournaments, LinksUp(t.matches), NEW match \in DOMAIN t.matches
  PROVE  SameDraw(t.matches, PassOn(t, match).matches)
<1> DEFINE rows == t.matches[match].entries
           next == t.matches[match].next
           sole == (CHOOSE e \in rows : TRUE).who
           sent == Sent(t, next, sole)
           passed == AsConfirmed(sent, match)
<1>1. rows \in Rows
  BY TournamentForm, MatchType
<1>2. CASE PassOn(t, match) = t
  BY <1>2 DEF SameDraw
<1>3. CASE Cardinality(rows) = 1 /\ PassOn(t, match) = passed
  <2>1. sole \in Contestants
    BY <1>1, <1>3, SoleType
  <2>2. next \notin Starting
    BY DEF LinksUp
  <2>3. sent \in Tournaments /\ SameDraw(t.matches, sent.matches)
    <3> HIDE DEF next, sole
    <3> QED
      BY <2>1, <2>2, SentType, SentDraw
  <2>4. SameDraw(sent.matches, passed.matches)
    <3> HIDE DEF sent
    <3> QED
      BY <2>3, ConfirmDraw
  <2> HIDE DEF sent, passed
  <2> QED
    BY <1>3, <2>3, <2>4, SameDrawTransitive
<1>4. PassOn(t, match) = t \/ (Cardinality(rows) = 1 /\ PassOn(t, match) = passed)
  BY DEF PassOn, AsConfirmed
<1> QED
  BY <1>2, <1>3, <1>4

LEMMA ScoredDraw ==
  ASSUME NEW t \in Tournaments, NEW match \in DOMAIN t.matches, NEW who
  PROVE  SameDraw(t.matches, Scored(t, match, who).matches)
<1> DEFINE rows == WithResult(t.matches[match].entries, who)
           new == [t.matches EXCEPT ![match].entries = rows]
           mid == [t EXCEPT !.matches = new]
           set == AsConfirmed(mid, match)
<1>1. t.matches[match].entries \in Rows /\ t.matches \in Brackets
  BY TournamentForm, MatchType
<1>2. rows \in Rows /\ Entrants(rows) = Entrants(t.matches[match].entries)
  BY <1>1, WithResultType, ResultEntrants
<1>3. new \in Brackets /\ SameDraw(t.matches, new)
  <2> HIDE DEF rows
  <2> QED
    BY <1>1, <1>2, RowsReplaced, RowsReplacedDraw
<1>4. mid \in Tournaments /\ mid.matches = new
  <2> HIDE DEF new
  <2> QED
    BY <1>3, TournamentForm DEF Tournaments
<1>5. Scored(t, match, who) = set
  BY DEF Tournaments, AsConfirmed, Scored
<1>6. SameDraw(mid.matches, set.matches)
  <2>1. mid \in Tournaments
    BY <1>4
  <2> HIDE DEF mid
  <2> QED
    BY <2>1, ConfirmDraw
<1> HIDE DEF mid, new, set
<1> QED
  BY <1>3, <1>4, <1>5, <1>6, SameDrawTransitive

LEMMA WithResetDraw ==
  ASSUME NEW t \in Tournaments, GrandFinal(0) \in DOMAIN t.matches,
         NEW made, GrandFinal(1) \notin DOMAIN made, Drawn(made, t.matches)
  PROVE  Drawn(made, WithReset(t).matches)
<1> DEFINE first == GrandFinal(0)
           second == GrandFinal(1)
           matches == t.matches
           new == WithReset(t).matches
<1>1. new = [x \in DOMAIN matches \cup {second} |->
               CASE x = second -> Made(None, None, FALSE, Entrants(matches[first].entries))
                 [] x = first  -> [matches[first] EXCEPT !.next = second]
                 [] OTHER      -> matches[x]]
  BY DEF WithReset, Tournaments
<1>2. first # second
  BY GrandFinals
<1>3. DOMAIN new = DOMAIN matches \cup {second}
  BY <1>1
<1>4. \A x \in DOMAIN matches \ {first, second} : new[x] = matches[x]
  BY <1>1
<1>5. new[first] = [matches[first] EXCEPT !.next = second]
  BY <1>1, <1>2
<1>6. /\ new[first].next = second
      /\ new[first].loserNext = matches[first].loserNext
      /\ new[first].entries = matches[first].entries
  <2>1. matches[first] \in MatchIn(DOMAIN matches)
    BY TournamentForm, MatchType
  <2> HIDE DEF new, matches, first, second
  <2> QED
    BY <1>5, <2>1 DEF MatchIn
<1>7. first \notin Starting
  BY NotStarting
<1> HIDE DEF new, matches
<1>8. Drawn(made, matches)
  BY DEF matches
<1>9. DOMAIN new \ {second} = DOMAIN made
  BY <1>3, <1>8 DEF Drawn
<1>10. ASSUME NEW x \in DOMAIN made
       PROVE  /\ new[x].loserNext = made[x].loserNext
              /\ IF x = GrandFinal(0) THEN new[x].next \in {None, GrandFinal(1)}
                 ELSE new[x].next = made[x].next
              /\ x \in Starting => Entrants(new[x].entries) = Entrants(made[x].entries)
  <2>1. x # second /\ x \in DOMAIN matches
    BY <1>8 DEF Drawn
  <2>2. CASE x = first
    BY <1>6, <1>7, <1>8, <2>2 DEF Drawn
  <2>3. CASE x # first
    <3>1. new[x] = matches[x]
      BY <1>4, <2>1, <2>3
    <3> QED
      BY <1>8, <2>3, <3>1 DEF Drawn
  <2> QED
    BY <2>2, <2>3
<1>11. Drawn(made, new)
  BY <1>9, <1>10 DEF Drawn
<1> QED
  BY <1>11 DEF new

\* Confirming a result leaves the draw.
LEMMA ConfirmedDraw ==
  ASSUME NEW t \in Tournaments, NEW match \in DOMAIN t.matches, NEW f,
         NEW who \in Contestants \cup {None}, Playable(f, t.matches[match]),
         NEW made, GrandFinal(1) \notin DOMAIN made, LinksUp(made), Drawn(made, t.matches)
  PROVE  Drawn(made, Confirmed(t, f, match, who).matches)
<1> DEFINE rows == WithResult(t.matches[match].entries, who)
           set == Scored(t, match, who)
           next == t.matches[match].next
           lower == t.matches[match].loserNext
           advanced == Sent(set, next, who)
           sent == Sent(advanced, lower, Loser(rows))
           dropped == IF lower = None THEN advanced ELSE PassOn(sent, lower)
           done == IF NeedsReset(dropped, f, match, who) THEN WithReset(dropped) ELSE dropped
           last == Concluded(done, f, match, done.matches[match].next, who)
<1>1. Confirmed(t, f, match, who) = IF who = None THEN set ELSE last
  BY DEF Confirmed, Scored
<1>2. set \in Tournaments /\ SameDraw(t.matches, set.matches)
  BY ScoredType, ScoredDraw
<1>3. LinksUp(t.matches) /\ t.matches \in Brackets
  BY TournamentForm, DrawnLinksUp
<1>4. next \notin Starting /\ lower \notin Starting /\ lower \in DOMAIN t.matches \cup {None}
  BY <1>3, MatchType DEF LinksUp
<1> HIDE DEF set, next, lower
<1>5. CASE who = None
  BY <1>1, <1>2, <1>5, SameDrawDrawn
<1>6. CASE who # None
  <2>1. Loser(rows) \in Contestants
    BY <1>6, PlayableLoser
  <2> HIDE DEF rows
  <2>2. advanced \in Tournaments /\ SameDraw(t.matches, advanced.matches)
    <3>1. advanced \in Tournaments /\ SameDraw(set.matches, advanced.matches)
      BY <1>2, <1>4, <1>6, SentType, SentDraw
    <3> HIDE DEF advanced
    <3> QED
      BY <1>2, <3>1, SameDrawTransitive
  <2> HIDE DEF advanced
  <2>3. sent \in Tournaments /\ SameDraw(t.matches, sent.matches)
    <3>1. sent \in Tournaments /\ SameDraw(advanced.matches, sent.matches)
      BY <1>4, <2>1, <2>2, SentType, SentDraw
    <3> HIDE DEF sent
    <3> QED
      BY <2>2, <3>1, SameDrawTransitive
  <2> HIDE DEF sent
  <2>4. /\ dropped \in Tournaments /\ SameDraw(t.matches, dropped.matches)
    <3>1. CASE lower = None
      BY <2>2, <3>1
    <3>2. CASE lower # None
      <4>1. lower \in DOMAIN sent.matches /\ LinksUp(sent.matches)
        BY <1>3, <1>4, <2>3, <3>2, SameDrawLinksUp DEF SameDraw
      <4>2. PassOn(sent, lower) \in Tournaments /\ SameDraw(sent.matches, PassOn(sent, lower).matches)
        BY <2>3, <4>1, PassOnType, PassOnDraw
      <4> QED
        BY <2>3, <3>2, <4>2, SameDrawTransitive
    <3> QED
      BY <3>1, <3>2
  <2> HIDE DEF dropped
  <2>5. Drawn(made, dropped.matches)
    BY <2>4, SameDrawDrawn
  <2>6. done \in Tournaments /\ Drawn(made, done.matches)
    <3>1. CASE NeedsReset(dropped, f, match, who)
      <4>1. GrandFinal(0) \in DOMAIN dropped.matches /\ dropped.matches[GrandFinal(0)].next = None
        BY <2>4, <3>1 DEF NeedsReset, SameDraw
      <4>2. WithReset(dropped) \in Tournaments /\ Drawn(made, WithReset(dropped).matches)
        BY <2>4, <2>5, <4>1, WithResetType, WithResetDraw
      <4> QED
        BY <3>1, <4>2
    <3>2. CASE ~NeedsReset(dropped, f, match, who)
      BY <2>4, <2>5, <3>2
    <3> QED
      BY <3>1, <3>2
  <2> HIDE DEF done
  <2>7. last.matches = done.matches
    BY <2>6, ConcludedType
  <2> HIDE DEF last
  <2> QED
    BY <1>1, <1>6, <2>6, <2>7
<1> QED
  BY <1>5, <1>6

-----------------------------------------------------------------------------
(* The draw, and retracting a result *)

LEMMA OpenDraw ==
  ASSUME NEW t \in Tournaments, NEW match
  PROVE  SameDraw(t.matches, AsOpen(t, match).matches)
<1> DEFINE rows == {[e EXCEPT !.score = None] : e \in t.matches[match].entries}
           mid == [t.matches EXCEPT ![match].entries = rows]
           new == [mid EXCEPT ![match].confirmed = FALSE]
<1>1. ASSUME match \in DOMAIN t.matches
      PROVE  rows \in Rows /\ Entrants(rows) = Entrants(t.matches[match].entries)
  <2>1. t.matches[match].entries \in Rows
    BY <1>1, TournamentForm, MatchType
  <2> QED
    BY <2>1, ScorelessType, ScorelessEntrants
<1>2. mid \in Brackets /\ SameDraw(t.matches, mid)
  <2> HIDE DEF rows
  <2> QED
    BY <1>1, TournamentForm, RowsReplaced, RowsReplacedDraw
<1>3. mid \in [DOMAIN mid -> MatchIn(DOMAIN mid)]
  <2> HIDE DEF mid
  <2> QED
    BY <1>2, BracketsForm
<1>4. SameDraw(mid, new)
  <2>1. /\ DOMAIN new = DOMAIN mid
        /\ \A x \in DOMAIN mid : /\ new[x].next = mid[x].next
                                 /\ new[x].loserNext = mid[x].loserNext
                                 /\ new[x].entries = mid[x].entries
    <3> HIDE DEF mid
    <3> QED
      BY <1>3 DEF MatchIn
  <2> HIDE DEF mid, new
  <2> QED
    BY <2>1 DEF SameDraw
<1>5. AsOpen(t, match).matches = new
  <2>1. t.matches \in [DOMAIN t.matches -> MatchIn(DOMAIN t.matches)]
    BY TournamentForm, BracketsForm
  <2> QED
    BY <2>1 DEF AsOpen, Tournaments, MatchIn
<1> HIDE DEF new, mid
<1> QED
  BY <1>2, <1>4, <1>5, SameDrawTransitive

LEMMA WithoutResetDraw ==
  ASSUME NEW t \in Tournaments, NEW match,
         NEW made, GrandFinal(1) \notin DOMAIN made, Drawn(made, t.matches)
  PROVE  Drawn(made, WithoutReset(t, match).matches)
<1> DEFINE matches == t.matches
           new == WithoutReset(t, match).matches
<1>1. CASE ~HasReset(matches, match)
  BY <1>1 DEF WithoutReset
<1>2. CASE HasReset(matches, match)
  <2>1. new = [x \in DOMAIN matches \ {GrandFinal(1)} |->
                 IF x = match THEN [matches[x] EXCEPT !.next = None] ELSE matches[x]]
    BY <1>2 DEF WithoutReset, Tournaments
  <2>2. match = GrandFinal(0)
    BY <1>2 DEF HasReset
  <2>3. DOMAIN new = DOMAIN matches \ {GrandFinal(1)}
    BY <2>1
  <2>4. ASSUME NEW x \in DOMAIN new
        PROVE  /\ new[x].next = IF x = GrandFinal(0) THEN None ELSE matches[x].next
               /\ new[x].loserNext = matches[x].loserNext
               /\ new[x].entries = matches[x].entries
    <3>1. matches[x] \in MatchIn(DOMAIN matches)
      BY <2>3, <2>4, TournamentForm, MatchType
    <3>2. new[x] = IF x = match THEN [matches[x] EXCEPT !.next = None] ELSE matches[x]
      BY <2>1, <2>3
    <3> HIDE DEF new, matches
    <3> QED
      BY <2>2, <3>1, <3>2 DEF MatchIn
  <2> HIDE DEF new
  <2> QED
    BY <2>3, <2>4 DEF Drawn, new
<1> QED
  BY <1>1, <1>2

LEMMA ClearedDraw ==
  ASSUME NEW t \in Tournaments, NEW f, NEW match, match \in DOMAIN t.matches \/ match # GrandFinal(0),
         NEW made, GrandFinal(1) \notin DOMAIN made, Drawn(made, t.matches)
  PROVE  /\ Cleared(t, f, match) \in Tournaments
         /\ Drawn(made, Cleared(t, f, match).matches)
<1> DEFINE mid == WithoutReset(t, match)
           back == Reopened(mid, f, match)
<1>1. mid \in Tournaments /\ Drawn(made, mid.matches)
  BY WithoutResetType, WithoutResetDraw
<1> HIDE DEF mid
<1>2. back \in Tournaments /\ back.matches = mid.matches
  BY <1>1, ReopenedType
<1> HIDE DEF back
<1>3. Cleared(t, f, match) = AsOpen(back, match)
  BY DEF Cleared, AsOpen, back, mid
<1>4. AsOpen(back, match) \in Tournaments /\ SameDraw(back.matches, AsOpen(back, match).matches)
  BY <1>2, OpenType, OpenDraw
<1> QED
  BY <1>1, <1>2, <1>3, <1>4, SameDrawDrawn

\* Retracting a result leaves the draw, however far it reaches.
LEMMA RetractedDraw ==
  ASSUME NEW t \in Tournaments, NEW f, NEW match \in DOMAIN t.matches,
         NEW made, GrandFinal(1) \notin DOMAIN made, LinksUp(made), Drawn(made, t.matches)
  PROVE  Drawn(made, Retracted(t, f, match).matches)
<1> DEFINE S == {s \in Steps : /\ s.act = "withdraw" => s.match \notin Starting
                               /\ s.act = "clear" => s.match \in DOMAIN made \cup {GrandFinal(1)}}
           A == {u \in [t : Tournaments, todo : Seq(S)] : Drawn(made, u.t.matches)}
<1>1. ASSUME NEW new \in Brackets, Drawn(made, new), NEW x \in DOMAIN new
      PROVE  Undoing(new, x) \in Seq(S)
  <2>1. LinksUp(new)
    BY <1>1, DrawnLinksUp
  <2>2. DOMAIN new \subseteq Ids /\ None \notin Ids
    BY BracketsForm, GrandFinals DEF Plans
  <2>3. DOMAIN new \subseteq DOMAIN made \cup {GrandFinal(1)}
    BY <1>1 DEF Drawn
  <2>4. new[x].loserNext # None => new[x].loserNext \in DOMAIN new
    BY MatchType
  <2>5. ASSUME NEW y \in DOMAIN new, NEW who \in Contestants,
               y \in {new[x].next, new[x].loserNext}
                 \/ (new[x].loserNext # None /\ y = new[new[x].loserNext].next)
        PROVE  [act |-> "withdraw", match |-> y, who |-> who] \in S
    <3>1. y \notin Starting
      BY <2>1, <2>4, <2>5 DEF LinksUp
    <3> QED
      BY <2>2, <3>1 DEF Steps, Acts
  <2>6. ASSUME NEW y \in DOMAIN new
        PROVE  [act |-> "undo", match |-> y, who |-> None] \in S
    BY <2>2 DEF Steps, Acts
  <2>7. [act |-> "clear", match |-> x, who |-> None] \in S
    BY <2>2, <2>3 DEF Steps, Acts
  <2> HIDE DEF S
  <2> QED
    BY <2>5, <2>6, <2>7, UndoingSteps
<1>2. FirstUndo(t, match) \in A
  <2>1. Undoing(t.matches, match) \in Seq(S)
    <3> HIDE DEF S
    <3> QED
      BY <1>1, TournamentForm
  <2> HIDE DEF S
  <2> QED
    BY <2>1 DEF FirstUndo
<1>3. ASSUME NEW u \in A PROVE UndoOn(f, u) \in A
  <2>1. u.t \in Tournaments /\ u.todo \in Seq(S) /\ Drawn(made, u.t.matches) /\ u.t.matches \in Brackets
    BY <1>3, TournamentForm
  <2>2. CASE u.todo = <<>>
    BY <2>2 DEF UndoOn
  <2>3. CASE u.todo # <<>>
    <3> DEFINE x == Head(u.todo)
               rest == Tail(u.todo)
               stands == x.match \in DOMAIN u.t.matches /\ u.t.matches[x.match].confirmed
    <3>1. x \in S /\ rest \in Seq(S)
      <4> HIDE DEF S
      <4> QED
        BY <2>1, <2>3, Rest
    <3>2. /\ x.act \in Acts
          /\ x.act = "withdraw" => x.match \notin Starting
          /\ x.act = "clear" => x.match \in DOMAIN made \cup {GrandFinal(1)}
      BY <3>1 DEF Steps
    <3> HIDE DEF x, rest, A, S
    <3>3. ASSUME NEW new \in Tournaments, Drawn(made, new.matches), NEW todo \in Seq(S)
          PROVE  [t |-> new, todo |-> todo] \in A
      BY <3>3 DEF A
    <3>4. UndoOn(f, u) =
            CASE x.act = "undo" ->
                   [t |-> u.t, todo |-> IF stands THEN Undoing(u.t.matches, x.match) \o rest ELSE rest]
              [] x.act = "withdraw" -> [t |-> Withdrawn(u.t, x.match, x.who), todo |-> rest]
              [] x.act = "clear"    -> [t |-> Cleared(u.t, f, x.match), todo |-> rest]
      BY <2>3 DEF UndoOn, x, rest
    <3>5. CASE x.act = "undo" /\ stands
      <4>1. Undoing(u.t.matches, x.match) \in Seq(S)
        BY <1>1, <2>1, <3>5
      <4>2. Undoing(u.t.matches, x.match) \o rest \in Seq(S)
        BY <3>1, <4>1, Concatenated
      <4>3. UndoOn(f, u) = [t |-> u.t, todo |-> Undoing(u.t.matches, x.match) \o rest]
        BY <3>4, <3>5
      <4> QED
        BY <2>1, <3>3, <4>2, <4>3
    <3>6. CASE x.act = "undo" /\ ~stands
      <4>1. UndoOn(f, u) = [t |-> u.t, todo |-> rest]
        BY <3>4, <3>6
      <4> QED
        BY <2>1, <3>1, <3>3, <4>1
    <3>7. CASE x.act = "withdraw"
      <4>1. UndoOn(f, u) = [t |-> Withdrawn(u.t, x.match, x.who), todo |-> rest]
        BY <3>4, <3>7
      <4>2. /\ Withdrawn(u.t, x.match, x.who) \in Tournaments
            /\ SameDraw(u.t.matches, Withdrawn(u.t, x.match, x.who).matches)
        BY <2>1, <3>2, <3>7, WithdrawnType, WithdrawnDraw
      <4>3. Drawn(made, Withdrawn(u.t, x.match, x.who).matches)
        BY <2>1, <4>2, SameDrawDrawn
      <4> QED
        BY <3>1, <3>3, <4>1, <4>2, <4>3
    <3>8. CASE x.act = "clear"
      <4>1. UndoOn(f, u) = [t |-> Cleared(u.t, f, x.match), todo |-> rest]
        BY <3>4, <3>8
      <4>2. x.match \in DOMAIN u.t.matches \/ x.match # GrandFinal(0)
        BY <2>1, <3>2, <3>8, GrandFinals DEF Drawn
      <4>3. /\ Cleared(u.t, f, x.match) \in Tournaments
            /\ Drawn(made, Cleared(u.t, f, x.match).matches)
        BY <2>1, <4>2, ClearedDraw
      <4> QED
        BY <3>1, <3>3, <4>1, <4>3
    <3> QED
      BY <3>2, <3>5, <3>6, <3>7, <3>8 DEF Acts
  <2> QED
    BY <2>2, <2>3
<1>4. \E u \in A : Retracted(t, f, match) = u.t
  <2>1. IsFiniteSet(DOMAIN t.matches)
    BY TournamentForm, BracketsForm DEF Plans
  <2> HIDE DEF A
  <2> QED
    BY <1>2, <1>3, <2>1, RetractedBy
<1> QED
  BY <1>4

-----------------------------------------------------------------------------
(* Who is drawn *)

\* What is drawn: everybody in P once, and enough of them.
Drafted(f, list, P) ==
  /\ P \in SUBSET Contestants
  /\ list \in Seq(P) /\ list \in Seq(Contestants) /\ Injective(list)
  /\ \A c \in P : \E k \in 1..Len(list) : list[k] = c
  /\ Cardinality(P) = Len(list)
  /\ Len(list) >= IF f.mode = "DE" THEN 4 ELSE 2

LEMMA RoundRobinLinks ==
  ASSUME NEW S, NEW list \in Seq(S), Len(list) >= 2
  PROVE  LET made == RoundRobin(list)
         IN  /\ DOMAIN made = Meetings(list)
             /\ \A x \in Meetings(list) :
                  /\ x \in Starting /\ x[1] = "RR"
                  /\ made[x].next = None /\ made[x].loserNext = None
                  /\ Entrants(made[x].entries) = {list[k] : k \in PairOf(Half(list), x[2], x[3])}
<1> DEFINE made == RoundRobin(list)
<1>1. DOMAIN made = Meetings(list)
  BY RoundRobinForm
<1>2. ASSUME NEW x \in Meetings(list)
      PROVE  /\ x \in Starting /\ x[1] = "RR"
             /\ made[x].next = None /\ made[x].loserNext = None
             /\ Entrants(made[x].entries) = {list[k] : k \in PairOf(Half(list), x[2], x[3])}
  <2> DEFINE who == {list[k] : k \in PairOf(Half(list), x[2], x[3])}
  <2>1. made[x] = Made(None, None, FALSE, who)
    BY RoundRobinForm
  <2>2. x = <<"RR", x[2], x[3]>> /\ x[2] \in 0..(2 * Half(list) - 2) /\ x[3] \in 1..Half(list)
    BY MeetingForm
  <2>3. x[2] \in Nat /\ x[3] \in Nat
    <3>1. Half(list) \in Nat
      BY HalfType
    <3> QED
      BY <2>2, <3>1
  <2>4. x \in Starting /\ x[1] = "RR"
    BY <2>2, <2>3 DEF Starting
  <2> HIDE DEF who, made
  <2>5. made[x].next = None /\ made[x].loserNext = None /\ made[x].entries = Fresh(who)
    BY <2>1 DEF Made
  <2> QED
    BY <2>4, <2>5, FreshEntrants DEF who
<1> QED
  BY <1>1, <1>2

\* No bracket is made with a bracket reset, nor leads back to the draw.
LEMMA MadeLinks ==
  ASSUME NEW f \in Formats, NEW list \in Seq(Contestants),
         Len(list) >= IF f.mode = "DE" THEN 4 ELSE 2
  PROVE  LET made == Bracket(f, list)
         IN  /\ LinksUp(made)
             /\ GrandFinal(1) \notin DOMAIN made
             /\ GrandFinal(0) \in DOMAIN made => made[GrandFinal(0)].next = None
<1>1. \A o : GrandFinal(o)[1] = "GF"
  BY DEF GrandFinal
<1>2. CASE f.mode = "SE"
  <2> DEFINE made == SingleElimination(list)
  <2>1. Len(list) >= 2 /\ Bracket(f, list) = made
    BY <1>2 DEF Bracket
  <2>2. LinksUp(made) /\ \A x \in DOMAIN made : x[1] = "MAIN" \/ x[1] = "P3"
    BY <2>1, SingleEliminationLinks
  <2> HIDE DEF made
  <2> QED
    BY <1>1, <2>1, <2>2
<1>3. CASE f.mode = "DE"
  <2> DEFINE made == DoubleElimination(list)
  <2>1. Len(list) >= 4 /\ Bracket(f, list) = made
    BY <1>3 DEF Bracket
  <2>2. /\ LinksUp(made)
        /\ \A x \in DOMAIN made : \/ x[1] = "WB" \/ x[1] = "LB"
                                  \/ x = GrandFinal(0) /\ made[x].next = None
    BY <2>1, DoubleEliminationLinks
  <2> HIDE DEF made
  <2> QED
    BY <1>1, <2>1, <2>2, GrandFinals
<1>4. CASE f.mode = "RR"
  <2> DEFINE made == RoundRobin(list)
  <2>1. Len(list) >= 2 /\ Bracket(f, list) = made
    BY <1>4 DEF Bracket
  <2>2. \A x \in DOMAIN made : x[1] = "RR" /\ made[x].next = None /\ made[x].loserNext = None
    BY <2>1, RoundRobinLinks
  <2> HIDE DEF made
  <2> QED
    BY <1>1, <2>1, <2>2, NotStarting DEF LinksUp
<1> QED
  BY <1>2, <1>3, <1>4, FormatsChecked

\* Before a bracket reset the links are those that were made.
LEMMA DrawnLinked ==
  ASSUME NEW made, GrandFinal(0) \in DOMAIN made => made[GrandFinal(0)].next = None,
         GrandFinal(1) \notin DOMAIN made,
         NEW matches \in Brackets, Drawn(made, matches), GrandFinal(1) \notin DOMAIN matches
  PROVE  LinkedAs(made, matches)
<1>1. DOMAIN matches = DOMAIN made
  BY DEF Drawn
<1>2. ASSUME GrandFinal(0) \in DOMAIN matches
      PROVE  matches[GrandFinal(0)].next = None
  <2>1. matches[GrandFinal(0)].next \in DOMAIN matches \cup {None}
    BY <1>2, MatchType
  <2>2. matches[GrandFinal(0)].next \in {None, GrandFinal(1)}
    BY <1>1, <1>2 DEF Drawn
  <2> QED
    BY <2>1, <2>2
<1> QED
  BY <1>1, <1>2 DEF Drawn, LinkedAs

\* In an elimination everybody stands in the first round.
LEMMA DrawnFirstRound ==
  ASSUME NEW made, NEW matches, Drawn(made, matches), NEW bracket \in {"MAIN", "WB"},
         NEW list, Rounds(list) \in Nat \ {0}, FirstRound(made, list, bracket)
  PROVE  FirstRound(matches, list, bracket)
<1>1. ASSUME NEW m \in 0..(Pow2[Rounds(list) - 1] - 1)
      PROVE  /\ <<bracket, 0, m>> \in DOMAIN matches
             /\ Entrants(matches[<<bracket, 0, m>>].entries) = Placed(list, m)
  <2>1. m \in Nat
    <3>1. Pow2[Rounds(list) - 1] \in Nat
      BY Pow2Type
    <3> QED
      BY <3>1
  <2>2. <<bracket, 0, m>> \in Starting
    BY <2>1 DEF Starting
  <2>3. /\ <<bracket, 0, m>> \in DOMAIN made
        /\ Entrants(made[<<bracket, 0, m>>].entries) = Placed(list, m)
    BY DEF FirstRound
  <2> QED
    BY <2>2, <2>3 DEF Drawn
<1> QED
  BY <1>1 DEF FirstRound

LEMMA MadeFirstRound ==
  ASSUME NEW f \in Formats, f.mode # "RR", NEW list \in Seq(Contestants),
         Len(list) >= IF f.mode = "DE" THEN 4 ELSE 2
  PROVE  FirstRound(Bracket(f, list), list, IF f.mode = "DE" THEN "WB" ELSE "MAIN")
<1>1. CASE f.mode = "SE"
  <2>1. Len(list) >= 2 /\ Bracket(f, list) = SingleElimination(list)
    BY <1>1 DEF Bracket
  <2>2. FirstRound(SingleElimination(list), list, "MAIN")
    BY <2>1, SingleEliminationForm
  <2> QED
    BY <1>1, <2>1, <2>2
<1>2. CASE f.mode = "DE"
  <2>1. Len(list) >= 4 /\ Bracket(f, list) = DoubleElimination(list)
    BY <1>2 DEF Bracket
  <2>2. FirstRound(DoubleElimination(list), list, "WB")
    BY <2>1, DoubleEliminationForm
  <2> QED
    BY <1>2, <2>1, <2>2
<1> QED
  BY <1>1, <1>2, FormatsChecked

\* Whom a bracket has: at least those who were drawn, in a round robin
\* nobody else.
LEMMA ContestantsDrawn ==
  ASSUME NEW f \in Formats, NEW list, NEW P, Drafted(f, list, P),
         NEW matches \in Brackets, Drawn(Bracket(f, list), matches), GrandFinal(1) \notin DOMAIN matches
  PROVE  LET all == UNION {Entrants(matches[x].entries) : x \in DOMAIN matches}
         IN  /\ IsFiniteSet(all) /\ Cardinality(all) \in Nat
             /\ Cardinality(all) >= Len(list)
             /\ DOMAIN matches # {}
             /\ f.mode = "RR" => /\ Cardinality(all) = Len(list)
                                 /\ DOMAIN matches = Meetings(list)
<1> DEFINE all == UNION {Entrants(matches[x].entries) : x \in DOMAIN matches}
           made == Bracket(f, list)
<1>1. /\ P \subseteq Contestants /\ list \in Seq(P) /\ list \in Seq(Contestants) /\ Injective(list)
      /\ \A c \in P : \E k \in 1..Len(list) : list[k] = c
      /\ Cardinality(P) = Len(list)
      /\ Len(list) >= IF f.mode = "DE" THEN 4 ELSE 2
      /\ Len(list) \in Nat /\ Len(list) >= 2
  BY DEF Drafted
<1>2. all \subseteq Contestants
  <2>1. ASSUME NEW x \in DOMAIN matches PROVE Entrants(matches[x].entries) \subseteq Contestants
    <3>1. matches[x].entries \in Rows
      BY MatchType
    <3> QED
      BY <3>1, EntrantsType
  <2> QED
    BY <2>1
<1>3. IsFiniteSet(all) /\ Cardinality(all) \in Nat
  <2> HIDE DEF all
  <2> QED
    BY <1>2, SeedsDiffer, FS_Subset, FS_CardinalityType
<1>4. DOMAIN matches = DOMAIN made
  BY DEF Drawn
<1>5. CASE f.mode # "RR"
  <2> DEFINE bracket == IF f.mode = "DE" THEN "WB" ELSE "MAIN"
  <2>1. FirstRound(matches, list, bracket)
    <3>1. FirstRound(made, list, bracket)
      BY <1>1, <1>5, MadeFirstRound
    <3>2. Rounds(list) \in Nat \ {0}
      BY <1>1, RoundsType
    <3>3. bracket \in {"MAIN", "WB"}
      OBVIOUS
    <3> HIDE DEF made, bracket
    <3> QED
      BY <3>1, <3>2, <3>3, DrawnFirstRound DEF made
  <2> HIDE DEF bracket
  <2>2. ASSUME NEW c \in P PROVE c \in all
    <3>1. PICK k \in 1..Len(list) : list[k] = c
      BY <1>1
    <3>2. PICK m \in 0..(Pow2[Rounds(list) - 1] - 1) : list[k] \in Placed(list, m)
      BY <1>1, PlacedOnce
    <3>3. /\ <<bracket, 0, m>> \in DOMAIN matches
          /\ Entrants(matches[<<bracket, 0, m>>].entries) = Placed(list, m)
      BY <2>1 DEF FirstRound
    <3> QED
      BY <3>1, <3>2, <3>3
  <2>3. Cardinality(P) <= Cardinality(all)
    <3> HIDE DEF all
    <3> QED
      BY <1>3, <2>2, FS_Subset
  <2>4. DOMAIN matches # {}
    <3>1. 1 \in 1..Len(list)
      BY <1>1
    <3>2. PICK m \in 0..(Pow2[Rounds(list) - 1] - 1) : list[1] \in Placed(list, m)
      BY <1>1, <3>1, PlacedOnce
    <3> QED
      BY <2>1, <3>2 DEF FirstRound
  <2> HIDE DEF all
  <2> QED
    BY <1>1, <1>3, <1>5, <2>3, <2>4 DEF all
<1>6. CASE f.mode = "RR"
  <2>1. made = RoundRobin(list)
    BY <1>6 DEF Bracket
  <2> DEFINE who == [x \in Meetings(list) |-> Entrants(matches[x].entries)]
  <2>2. DOMAIN matches = Meetings(list)
    BY <1>1, <1>4, <2>1, RoundRobinLinks
  <2>3. \A x \in Meetings(list) : who[x] = {list[k] : k \in PairOf(Half(list), x[2], x[3])}
    <3>1. TAKE x \in Meetings(list)
    <3>2. x \in Starting /\ Entrants(made[x].entries) = {list[k] : k \in PairOf(Half(list), x[2], x[3])}
      BY <1>1, <2>1, RoundRobinLinks
    <3>3. Entrants(matches[x].entries) = Entrants(made[x].entries)
      BY <1>4, <2>2, <3>2 DEF Drawn
    <3> QED
      BY <3>2, <3>3
  <2>4. all = UNION {who[x] : x \in Meetings(list)}
    BY <2>2
  <2> HIDE DEF all, who
  <2>5. all \subseteq P
    <3>1. ASSUME NEW x \in Meetings(list) PROVE who[x] \subseteq P
      <4>1. PairOf(Half(list), x[2], x[3]) \subseteq 1..Len(list)
        BY <1>1, MeetingForm
      <4>2. \A k \in 1..Len(list) : list[k] \in P
        BY <1>1
      <4> QED
        BY <2>3, <4>1, <4>2
    <3> QED
      BY <2>4, <3>1
  <2>6. \A x, y \in 1..Len(list) : x # y =>
          \E id \in Meetings(list) : {m \in Meetings(list) : {list[x], list[y]} \subseteq who[m]} = {id}
    <3>1. list \in Seq(P) /\ Len(list) >= 2 /\ Injective(list)
      BY <1>1
    <3> QED
      BY <2>3, <3>1, MeetOnce
  <2>7. ASSUME NEW c \in P PROVE c \in all
    <3>1. PICK k \in 1..Len(list) : list[k] = c
      BY <1>1
    <3>2. PICK j \in 1..Len(list) : j # k
      <4>1. 1 \in 1..Len(list) /\ 2 \in 1..Len(list)
        BY <1>1
      <4> QED
        BY <4>1
    <3>3. PICK id \in Meetings(list) : {m \in Meetings(list) : {list[k], list[j]} \subseteq who[m]} = {id}
      BY <2>6, <3>2
    <3>4. {list[k], list[j]} \subseteq who[id]
      BY <3>3
    <3> QED
      BY <2>4, <3>1, <3>4
  <2>8. all = P
    BY <2>5, <2>7
  <2>9. DOMAIN matches # {}
    <3>1. 1 \in 1..Len(list) /\ 2 \in 1..Len(list) /\ 1 # 2
      BY <1>1
    <3>2. \E id \in Meetings(list) : TRUE
      BY <2>6, <3>1
    <3> QED
      BY <2>2, <3>2
  <2>10. Cardinality(all) = Len(list)
    BY <1>1, <2>8
  <2>11. Cardinality(all) >= Len(list)
    BY <1>1, <2>10
  <2> QED
    BY <1>3, <2>2, <2>9, <2>10, <2>11 DEF all
<1> QED
  BY <1>5, <1>6

-----------------------------------------------------------------------------
(* What a start asks for *)

\* The shape a start asks of a bracket, apart from its contestants.
Shaped(f, matches) ==
  LET ids == DOMAIN matches
      Of(brackets) == {x \in ids : x[1] \in brackets}
      lastRound == CHOOSE r \in {x[2] : x \in Of({"MAIN"})} :
                     \A x \in Of({"MAIN"}) : x[2] <= r
  IN  /\ f.mode = "SE" =>
           /\ \A x \in Of({"MAIN"}) : (matches[x].next = None) <=> (x[2] = lastRound)
           /\ \A x \in ids : matches[x].loserNext \in Of({"P3"}) \cup {None}
           /\ \A x \in Of({"P3"}) : matches[x].next = None
      /\ f.mode = "DE" =>
           /\ \A x \in Of({"GF"}) : matches[x].next = None /\ matches[x].loserNext = None
           /\ \A x \in Of({"WB"}) : /\ matches[x].next # None
                                    /\ matches[x].loserNext \in Of({"LB"}) \cup {None}
           /\ \A x \in Of({"LB"}) :
                /\ matches[x].next = None => Feeders(matches, x) = {}
                /\ matches[x].next \in Of({"LB", "GF"}) \cup {None}

LEMMA SingleEliminationShaped ==
  ASSUME NEW f, f.mode = "SE", NEW S, NEW list \in Seq(S), Len(list) >= 2,
         NEW matches, LinkedAs(SingleElimination(list), matches)
  PROVE  Shaped(f, matches)
<1> DEFINE made == SingleElimination(list)
           p == Rounds(list)
           tree == Tree("MAIN", p)
           ids == DOMAIN matches
           main == {x \in ids : x[1] \in {"MAIN"}}
           third == {x \in ids : x[1] \in {"P3"}}
           lastRound == CHOOSE r \in {x[2] : x \in main} : \A x \in main : x[2] <= r
<1>1. /\ \A x \in DOMAIN made :
           \/ x \in tree /\ x[1] = "MAIN"
           \/ x = ThirdPlace /\ x[1] = "P3" /\ made[x].next = None
      /\ \A x \in tree : (made[x].next = None) <=> (x[2] = p - 1)
      /\ \A x \in DOMAIN made :
           made[x].loserNext = None \/ (made[x].loserNext = ThirdPlace /\ ThirdPlace \in DOMAIN made)
  BY SingleEliminationLinks
<1>2. tree \subseteq DOMAIN made
  BY SingleEliminationForm
<1>3. p \in Nat \ {0}
  BY RoundsType
<1>4. /\ ids = DOMAIN made
      /\ \A x \in ids : matches[x].next = made[x].next /\ matches[x].loserNext = made[x].loserNext
  BY DEF LinkedAs
<1> HIDE DEF made, p, tree
<1>5. main = tree
  <2>1. \A x \in tree : x[1] = "MAIN"
    <3>1. \A x \in tree : x[1] = "MAIN" \/ x = ThirdPlace
      BY <1>1, <1>2
    <3>2. ThirdPlace \notin tree
      <4>1. \A x \in tree : x = <<"MAIN", x[2], x[3]>>
        BY <1>3, TreeForm DEF tree
      <4>2. ThirdPlace[1] = "P3"
        BY DEF ThirdPlace
      <4> QED
        BY <4>1, <4>2
    <3> QED
      BY <3>1, <3>2
  <2>2. \A x \in ids : x[1] = "MAIN" => x \in tree
    BY <1>1, <1>4
  <2> QED
    BY <1>2, <1>4, <2>1, <2>2
<1>6. lastRound = p - 1
  <2>1. {x \in ids : x[1] \in {"MAIN"}} = Tree("MAIN", p)
    BY <1>5 DEF tree
  <2> HIDE DEF ids
  <2> QED
    BY <1>3, <2>1, LastRound
<1>7. \A x \in third : x = ThirdPlace /\ matches[x].next = None
  BY <1>1, <1>4
<1>8. ThirdPlace \in DOMAIN made => ThirdPlace \in third
  BY <1>4 DEF ThirdPlace
<1>9. \A x \in ids : matches[x].loserNext \in third \cup {None}
  BY <1>1, <1>4, <1>8
<1>10. \A x \in main : (matches[x].next = None) <=> (x[2] = lastRound)
  <2> HIDE DEF lastRound, main, ids
  <2> QED
    BY <1>1, <1>2, <1>4, <1>5, <1>6
<1> QED
  BY <1>7, <1>9, <1>10 DEF Shaped

LEMMA DoubleEliminationShaped ==
  ASSUME NEW f, f.mode = "DE", NEW list \in Seq(Contestants), Len(list) >= 4,
         NEW matches, LinkedAs(DoubleElimination(list), matches)
  PROVE  Shaped(f, matches)
<1> DEFINE made == DoubleElimination(list)
           p == Rounds(list)
           upper == Tree("WB", p)
           lower == Lower(p)
           ids == DOMAIN matches
           Of(brackets) == {x \in ids : x[1] \in brackets}
<1>1. /\ \A x \in DOMAIN made :
           \/ /\ x \in upper /\ x[1] = "WB"
              /\ made[x].next # None
              /\ made[x].loserNext \in lower \cup {None}
           \/ /\ x \in lower /\ x[1] = "LB"
              /\ made[x].next \in lower \cup {GrandFinal(0), None}
              /\ made[x].next = None => \A y \in DOMAIN made : x \notin {made[y].next, made[y].loserNext}
              /\ made[x].loserNext = None
           \/ x = GrandFinal(0) /\ x[1] = "GF" /\ made[x].next = None /\ made[x].loserNext = None
      /\ lower \subseteq DOMAIN made /\ GrandFinal(0) \in DOMAIN made
  BY DoubleEliminationLinks
<1>2. /\ ids = DOMAIN made
      /\ \A x \in ids : matches[x].next = made[x].next /\ matches[x].loserNext = made[x].loserNext
  BY DEF LinkedAs
<1>3. \A x \in lower : x[1] = "LB"
  <2>1. p \in Nat /\ p >= 2 /\ p \in Nat \ {0}
    BY RoundsType
  <2> HIDE DEF p
  <2>2. \A x \in lower : x = <<"LB", x[2], x[3]>>
    BY <2>1, LowerForm
  <2> QED
    BY <2>2
<1>4. GrandFinal(0)[1] = "GF"
  BY DEF GrandFinal
<1> HIDE DEF made, p, upper, lower
<1>5. lower \subseteq Of({"LB"}) /\ lower \subseteq Of({"LB", "GF"}) /\ GrandFinal(0) \in Of({"LB", "GF"})
  BY <1>1, <1>2, <1>3, <1>4
<1>6. ASSUME NEW x \in Of({"GF"})
      PROVE  matches[x].next = None /\ matches[x].loserNext = None
  BY <1>1, <1>2
<1>7. ASSUME NEW x \in Of({"WB"})
      PROVE  matches[x].next # None /\ matches[x].loserNext \in Of({"LB"}) \cup {None}
  <2>1. x \in ids /\ x[1] = "WB"
    OBVIOUS
  <2> HIDE DEF Of
  <2> QED
    BY <1>1, <1>2, <1>5, <2>1
<1>8. ASSUME NEW x \in Of({"LB"})
      PROVE  /\ matches[x].next = None => Feeders(matches, x) = {}
             /\ matches[x].next \in Of({"LB", "GF"}) \cup {None}
  <2>1. x \in ids /\ x[1] = "LB"
    OBVIOUS
  <2> HIDE DEF Of
  <2>2. /\ made[x].next \in lower \cup {GrandFinal(0), None}
        /\ made[x].next = None => \A y \in DOMAIN made : x \notin {made[y].next, made[y].loserNext}
    BY <1>1, <1>2, <2>1
  <2>3. ASSUME matches[x].next = None PROVE Feeders(matches, x) = {}
    <3>1. \A y \in ids : x \notin {matches[y].next, matches[y].loserNext}
      BY <1>2, <2>1, <2>2, <2>3
    <3> QED
      BY <3>1 DEF Feeders
  <2> QED
    BY <1>2, <1>5, <2>1, <2>2, <2>3
<1> QED
  BY <1>6, <1>7, <1>8 DEF Shaped

\* Before a bracket reset, the check made on a start finds no violation.
LEMMA DrawnStartable ==
  ASSUME NEW f \in Formats, NEW list, NEW P, Drafted(f, list, P),
         NEW matches \in Brackets, Drawn(Bracket(f, list), matches), GrandFinal(1) \notin DOMAIN matches
  PROVE  Startable(f, matches)
<1> DEFINE all == UNION {Entrants(matches[x].entries) : x \in DOMAIN matches}
           made == Bracket(f, list)
<1>1. list \in Seq(Contestants) /\ Len(list) >= (IF f.mode = "DE" THEN 4 ELSE 2) /\ Len(list) \in Nat
  BY DEF Drafted
<1>2. /\ Cardinality(all) \in Nat
      /\ Cardinality(all) >= Len(list)
      /\ DOMAIN matches # {}
      /\ f.mode = "RR" => /\ Cardinality(all) = Len(list)
                          /\ DOMAIN matches = Meetings(list)
  BY ContestantsDrawn
<1>3. Cardinality(all) >= IF f.mode = "DE" THEN 4 ELSE 2
  <2> HIDE DEF all
  <2> QED
    BY <1>1, <1>2
<1>4. LinkedAs(made, matches)
  <2>1. GrandFinal(1) \notin DOMAIN made /\ (GrandFinal(0) \in DOMAIN made => made[GrandFinal(0)].next = None)
    BY <1>1, MadeLinks
  <2>2. Drawn(made, matches)
    OBVIOUS
  <2> HIDE DEF made
  <2> QED
    BY <2>1, <2>2, DrawnLinked
<1>5. Shaped(f, matches)
  <2>1. CASE f.mode = "SE"
    <3>1. made = SingleElimination(list) /\ Len(list) >= 2
      BY <1>1, <2>1 DEF Bracket
    <3> HIDE DEF made
    <3> QED
      BY <1>1, <1>4, <2>1, <3>1, SingleEliminationShaped
  <2>2. CASE f.mode = "DE"
    <3>1. made = DoubleElimination(list) /\ Len(list) >= 4
      BY <1>1, <2>2 DEF Bracket
    <3> HIDE DEF made
    <3> QED
      BY <1>1, <1>4, <2>2, <3>1, DoubleEliminationShaped
  <2>3. CASE f.mode = "RR"
    BY <2>3 DEF Shaped
  <2> QED
    BY <2>1, <2>2, <2>3, FormatsChecked
<1>6. f.mode = "RR" => 2 * Cardinality(DOMAIN matches) = Cardinality(all) * (Cardinality(all) - 1)
  <2> SUFFICES ASSUME f.mode = "RR"
               PROVE  2 * Cardinality(DOMAIN matches) = Cardinality(all) * (Cardinality(all) - 1)
    OBVIOUS
  <2>1. 2 * Cardinality(Meetings(list)) = Len(list) * (Len(list) - 1)
    <3>1. Len(list) >= 2
      BY <1>1
    <3> QED
      BY <1>1, <3>1, MeetingsCounted
  <2> HIDE DEF all
  <2> QED
    BY <1>2, <2>1
<1> HIDE DEF all
<1> QED
  BY <1>2, <1>3, <1>5, <1>6 DEF Startable, Shaped, all

-----------------------------------------------------------------------------
(* The first round *)

FirstBracket(f) == IF f.mode = "DE" THEN "WB" ELSE "MAIN"

\* The matches of the first round are those that were drawn.
LEMMA FirstRoundOnly ==
  ASSUME NEW f \in Formats, f.mode # "RR", NEW list \in Seq(Contestants),
         Len(list) >= IF f.mode = "DE" THEN 4 ELSE 2,
         NEW matches, Drawn(Bracket(f, list), matches),
         NEW x \in DOMAIN matches, x[1] \in {"MAIN", "WB"}, x[2] = 0
  PROVE  \E m \in 0..(Pow2[Rounds(list) - 1] - 1) : x = <<FirstBracket(f), 0, m>>
<1> DEFINE made == Bracket(f, list)
           p == Rounds(list)
           first == FirstBracket(f)
<1>1. p \in Nat \ {0}
  <2>1. Len(list) >= 2
    OBVIOUS
  <2> QED
    BY <2>1, RoundsType
<1>2. x \in DOMAIN made
  <2>1. x # GrandFinal(1)
    BY DEF GrandFinal
  <2> QED
    BY <2>1 DEF Drawn
<1>3. x \in Tree(first, p) /\ first \in {"MAIN", "WB"}
  <2>1. CASE f.mode = "SE"
    <3>1. Len(list) >= 2 /\ made = SingleElimination(list) /\ first = "MAIN"
      BY <2>1 DEF Bracket, FirstBracket
    <3>2. \A y \in DOMAIN made : y \in Tree("MAIN", p) \/ y[1] = "P3"
      BY <3>1, SingleEliminationLinks
    <3> HIDE DEF made, p, first
    <3> QED
      BY <1>2, <3>1, <3>2
  <2>2. CASE f.mode = "DE"
    <3>1. Len(list) >= 4 /\ made = DoubleElimination(list) /\ first = "WB"
      BY <2>2 DEF Bracket, FirstBracket
    <3>2. \A y \in DOMAIN made : y \in Tree("WB", p) \/ y[1] = "LB" \/ y[1] = "GF"
      BY <3>1, DoubleEliminationLinks
    <3> HIDE DEF made, p, first
    <3> QED
      BY <1>2, <3>1, <3>2
  <2> QED
    BY <2>1, <2>2, FormatsChecked
<1> HIDE DEF made, p, first
<1>4. x = <<first, x[2], x[3]>>
  BY <1>1, <1>3, TreeForm
<1>5. <<first, 0, x[3]>> \in Tree(first, p)
  BY <1>3, <1>4
<1>6. x[3] \in 0..(Pow2[p - 1 - 0] - 1)
  <2> DEFINE m == x[3]
  <2> HIDE DEF m
  <2>1. <<first, 0, m>> \in Tree(first, p) <=> 0 \in 0..(p - 1) /\ m \in 0..(Pow2[p - 1 - 0] - 1)
    BY <1>1, <1>3, TreeForm
  <2> QED
    BY <1>5, <2>1 DEF m
<1>7. p - 1 - 0 = p - 1
  BY <1>1
<1> QED
  BY <1>4, <1>6, <1>7 DEF first, p

\* Everybody stands in one match of the first round.
LEMMA FirstMatch ==
  ASSUME NEW f \in Formats, f.mode # "RR", NEW list, NEW P, Drafted(f, list, P),
         NEW matches, Drawn(Bracket(f, list), matches), NEW k \in 1..Len(list)
  PROVE  LET first == CHOOSE m \in DOMAIN matches :
                        m[1] \in {"MAIN", "WB"} /\ m[2] = 0 /\ list[k] \in Entrants(matches[m].entries)
         IN  \E m \in 0..(Pow2[Rounds(list) - 1] - 1) :
               /\ first[3] = m
               /\ list[k] \in Placed(list, m)
               /\ Entrants(matches[first].entries) = Placed(list, m)
<1> DEFINE In(m) == m[1] \in {"MAIN", "WB"} /\ m[2] = 0 /\ list[k] \in Entrants(matches[m].entries)
           first == CHOOSE m \in DOMAIN matches : In(m)
           bracket == FirstBracket(f)
<1>1. /\ list \in Seq(Contestants) /\ Injective(list) /\ Len(list) >= 2
      /\ Len(list) >= IF f.mode = "DE" THEN 4 ELSE 2
  BY DEF Drafted
<1>2. FirstRound(matches, list, bracket)
  <2>1. FirstRound(Bracket(f, list), list, bracket)
    BY <1>1, MadeFirstRound DEF FirstBracket
  <2>2. Rounds(list) \in Nat \ {0}
    BY <1>1, RoundsType
  <2>3. bracket \in {"MAIN", "WB"}
    BY DEF FirstBracket
  <2> HIDE DEF bracket
  <2> QED
    BY <2>1, <2>2, <2>3, DrawnFirstRound
<1>3. PICK o \in 0..(Pow2[Rounds(list) - 1] - 1) : list[k] \in Placed(list, o)
  BY <1>1, PlacedOnce
<1>4. <<bracket, 0, o>> \in DOMAIN matches /\ In(<<bracket, 0, o>>)
  <2>1. <<bracket, 0, o>>[1] = bracket /\ <<bracket, 0, o>>[2] = 0 /\ bracket \in {"MAIN", "WB"}
    BY DEF FirstBracket
  <2> HIDE DEF bracket
  <2> QED
    BY <1>2, <1>3, <2>1 DEF FirstRound
<1>5. first \in DOMAIN matches /\ In(first)
  <2> HIDE DEF In
  <2> QED
    BY <1>4
<1>6. PICK m \in 0..(Pow2[Rounds(list) - 1] - 1) : first = <<bracket, 0, m>>
  <2>1. first \in DOMAIN matches /\ first[1] \in {"MAIN", "WB"} /\ first[2] = 0
    BY <1>5
  <2> HIDE DEF first
  <2>2. \E m \in 0..(Pow2[Rounds(list) - 1] - 1) : first = <<FirstBracket(f), 0, m>>
    BY <1>1, <2>1, FirstRoundOnly
  <2> QED
    BY <2>2
<1>7. first[3] = m
  <2> HIDE DEF first
  <2> QED
    BY <1>6
<1>8. Entrants(matches[first].entries) = Placed(list, m)
  <2> HIDE DEF first, bracket
  <2> QED
    BY <1>2, <1>6 DEF FirstRound
<1>9. list[k] \in Placed(list, m)
  <2> HIDE DEF first, bracket
  <2> QED
    BY <1>5, <1>8
<1> HIDE DEF bracket
<1> QED
  BY <1>7, <1>8, <1>9

-----------------------------------------------------------------------------
(* The draw in every state *)

\* As long as nobody has left, the bracket is the one that was drawn.
DrawInv ==
  /\ Active \subseteq Everyone
  /\ Matches # {} /\ Everybody /\ ~marred =>
       /\ Len(Entries) >= IF format.mode = "DE" THEN 4 ELSE 2
       /\ Drawn(Bracket(format, Entries), tournament.matches)

LEMMA EntriesDrafted ==
  ASSUME Len(Entries) >= IF format.mode = "DE" THEN 4 ELSE 2
  PROVE  Drafted(format, Entries, Active)
<1> DEFINE n == Cardinality(Active)
           list == Entries
<1>1. Active \subseteq Contestants
  BY DEF Active
<1>2. /\ n \in Nat
      /\ list \in [1..n -> Active]
      /\ Len(list) = n
      /\ \A c \in Active : \E k \in 1..n : list[k] = c
      /\ \A i, j \in 1..n : list[i] = list[j] => i = j
  BY EntriesComplete
<1> HIDE DEF n, list
<1>3. list \in Seq(Active) /\ list \in Seq(Contestants)
  <2>1. list \in [1..n -> Contestants]
    BY <1>1, <1>2
  <2> QED
    BY <1>2, <2>1, Listed
<1>4. Injective(list)
  BY <1>2 DEF Injective
<1> QED
  BY <1>1, <1>2, <1>3, <1>4 DEF Drafted, n, list

LEMMA DrawSpreads ==
  ASSUME BracketInv, DrawInv
  PROVE  SeedsSpread
<1> SUFFICES ASSUME format.mode # "RR", Everybody, ~marred, Matches # {}
             PROVE  LET list == Entries
                        rounds == Rounds(list)
                        First(k) == CHOOSE m \in Matches :
                                      m[1] \in {"MAIN", "WB"} /\ m[2] = 0 /\ list[k] \in Who(m)
                    IN  /\ \A k \in 0..(rounds - 1) : \A i, j \in 1..Pow2[k] :
                             i # j => First(i)[3] \div Pow2[rounds - 1 - k]
                                        # First(j)[3] \div Pow2[rounds - 1 - k]
                        /\ \A i \in 1..Len(list) :
                             Cardinality(Who(First(i))) = 1 <=> i <= Pow2[rounds] - Len(list)
  BY DEF SeedsSpread
<1> DEFINE list == Entries
           rounds == Rounds(list)
           matches == tournament.matches
           First(k) == CHOOSE m \in Matches :
                         m[1] \in {"MAIN", "WB"} /\ m[2] = 0 /\ list[k] \in Who(m)
<1>1. Drafted(format, list, Active) /\ Drawn(Bracket(format, list), matches) /\ format \in Formats
  BY EntriesDrafted DEF DrawInv, BracketInv
<1>2. list \in Seq(Contestants) /\ Injective(list) /\ Len(list) >= 2 /\ Len(list) \in Nat
  BY <1>1 DEF Drafted
<1>3. ASSUME NEW k \in 1..Len(list)
      PROVE  \E m \in 0..(Pow2[rounds - 1] - 1) :
               First(k)[3] = m /\ list[k] \in Placed(list, m) /\ Who(First(k)) = Placed(list, m)
  <2> HIDE DEF list
  <2> QED
    BY <1>1, FirstMatch DEF Matches, Who, Match
<1> HIDE DEF First, list
<1>4. ASSUME NEW k \in 0..(rounds - 1), NEW i \in 1..Pow2[k], NEW j \in 1..Pow2[k], i # j
      PROVE  First(i)[3] \div Pow2[rounds - 1 - k] # First(j)[3] \div Pow2[rounds - 1 - k]
  <2>1. i \in 1..Len(list) /\ j \in 1..Len(list)
    <3>1. rounds \in Nat \ {0} /\ Pow2[rounds - 1] < Len(list)
      BY <1>2, RoundsType
    <3> HIDE DEF rounds
    <3>2. Pow2[k] \in Nat /\ Pow2[rounds - 1] \in Nat /\ Pow2[k] <= Pow2[rounds - 1]
      <4>1. k \in Nat /\ rounds - 1 \in Nat /\ k <= rounds - 1
        BY <3>1
      <4> QED
        BY <4>1, Pow2Type, Pow2Monotone
    <3> QED
      BY <1>2, <3>1, <3>2
  <2>2. PICK m \in 0..(Pow2[rounds - 1] - 1) : First(i)[3] = m /\ list[i] \in Placed(list, m)
    BY <1>3, <2>1
  <2>3. PICK o \in 0..(Pow2[rounds - 1] - 1) : First(j)[3] = o /\ list[j] \in Placed(list, o)
    BY <1>3, <2>1
  <2>4. m \div Pow2[rounds - 1 - k] # o \div Pow2[rounds - 1 - k]
    BY <1>2, <1>4, <2>2, <2>3, PlacedApart
  <2> QED
    BY <2>2, <2>3, <2>4
<1>5. ASSUME NEW i \in 1..Len(list)
      PROVE  Cardinality(Who(First(i))) = 1 <=> i <= Pow2[rounds] - Len(list)
  <2>1. PICK m \in 0..(Pow2[rounds - 1] - 1) :
               list[i] \in Placed(list, m) /\ Who(First(i)) = Placed(list, m)
    BY <1>3
  <2>2. Cardinality(Placed(list, m)) = 1 <=> i <= Pow2[rounds] - Len(list)
    BY <1>2, <2>1, PlacedWhere
  <2> QED
    BY <2>1, <2>2
<1> QED
  BY <1>4, <1>5 DEF First, list

LEMMA DrawMeets ==
  ASSUME BracketInv, DrawInv
  PROVE  PairsMeetOnce
<1> SUFFICES ASSUME format.mode = "RR", Everybody, ~marred, Matches # {}
             PROVE  /\ \A c, d \in Everyone :
                         c # d => Cardinality({m \in Matches : {c, d} \subseteq Who(m)}) = 1
                    /\ \A m, n \in Matches : m[2] = n[2] /\ m # n => Who(m) \cap Who(n) = {}
  BY DEF PairsMeetOnce
<1> DEFINE list == Entries
           matches == tournament.matches
           made == Bracket(format, list)
           who == [m \in Matches |-> Who(m)]
<1>1. /\ Drafted(format, list, Active) /\ Drawn(made, matches)
      /\ format \in Formats /\ matches \in Brackets
  BY EntriesDrafted, TournamentForm DEF DrawInv, BracketInv
<1>2. /\ list \in Seq(Contestants) /\ Injective(list) /\ Len(list) >= 2
      /\ \A c \in Active : \E k \in 1..Len(list) : list[k] = c
  BY <1>1 DEF Drafted
<1>3. made = RoundRobin(list)
  BY DEF Bracket
<1> HIDE DEF list, made, matches
<1>4. /\ DOMAIN made = Meetings(list)
      /\ \A x \in Meetings(list) :
           /\ x \in Starting /\ x[1] = "RR"
           /\ made[x].next = None /\ made[x].loserNext = None
           /\ Entrants(made[x].entries) = {list[k] : k \in PairOf(Half(list), x[2], x[3])}
  BY <1>2, <1>3, RoundRobinLinks
<1>5. GrandFinal(1) \notin DOMAIN matches
  <2>1. GrandFinal(0) \notin DOMAIN made
    <3>1. GrandFinal(0)[1] = "GF"
      BY DEF GrandFinal
    <3> QED
      BY <1>4, <3>1
  <2>2. GrandFinal(0) \notin DOMAIN matches
    BY <1>1, <2>1, GrandFinals DEF Drawn
  <2> QED
    BY <1>1, <2>2, BracketsForm DEF ResetLinked
<1>6. Matches = Meetings(list)
  BY <1>1, <1>4, <1>5 DEF Drawn, Matches, matches
<1>7. \A x \in Meetings(list) : who[x] = {list[k] : k \in PairOf(Half(list), x[2], x[3])}
  BY <1>1, <1>4, <1>6 DEF Drawn, Who, Match, matches
<1>8. /\ \A x, y \in 1..Len(list) : x # y =>
           \E id \in Meetings(list) : {m \in Meetings(list) : {list[x], list[y]} \subseteq who[m]} = {id}
      /\ \A m, o \in Meetings(list) : m[2] = o[2] /\ m # o => who[m] \cap who[o] = {}
  <2> HIDE DEF who
  <2> QED
    BY <1>2, <1>7, MeetOnce
<1>9. \A m \in Matches : who[m] = Who(m)
  OBVIOUS
<1> HIDE DEF who
<1>10. ASSUME NEW c \in Everyone, NEW d \in Everyone, c # d
       PROVE  Cardinality({m \in Matches : {c, d} \subseteq Who(m)}) = 1
  <2>1. c \in Active /\ d \in Active
    BY DEF Everybody
  <2>2. PICK x \in 1..Len(list) : list[x] = c
    BY <1>2, <2>1
  <2>3. PICK y \in 1..Len(list) : list[y] = d
    BY <1>2, <2>1
  <2>4. PICK id \in Meetings(list) : {m \in Meetings(list) : {list[x], list[y]} \subseteq who[m]} = {id}
    BY <1>8, <1>10, <2>2, <2>3
  <2>5. {m \in Matches : {c, d} \subseteq Who(m)} = {id}
    BY <1>6, <1>9, <2>2, <2>3, <2>4
  <2> QED
    BY <2>5, FS_Singleton
<1>11. ASSUME NEW m \in Matches, NEW n \in Matches, m[2] = n[2], m # n
       PROVE  Who(m) \cap Who(n) = {}
  <2>1. m \in Meetings(list) /\ n \in Meetings(list)
    BY <1>6
  <2>2. who[m] \cap who[n] = {}
    BY <1>8, <1>11, <2>1
  <2> QED
    BY <1>9, <2>2
<1> QED
  BY <1>10, <1>11

-----------------------------------------------------------------------------
(* Every step leaves the draw *)

LEMMA DrawStarts ==
  ASSUME BracketInv, DrawInv
  PROVE  GeneratedStarts
<1> SUFFICES ASSUME Matches # {}, GrandFinal(1) \notin Matches, Everybody, ~marred
             PROVE  Startable(format, tournament.matches)
  BY DEF GeneratedStarts
<1>1. Drafted(format, Entries, Active) /\ Drawn(Bracket(format, Entries), tournament.matches)
  BY EntriesDrafted DEF DrawInv
<1>2. format \in Formats /\ tournament.matches \in Brackets
  BY TournamentForm DEF BracketInv
<1> QED
  BY <1>1, <1>2, DrawnStartable DEF Matches

LEMMA InitDraw == HistoryInit => DrawInv
<1> SUFFICES ASSUME HistoryInit PROVE DrawInv
  OBVIOUS
<1>1. Active \subseteq Everyone
  BY DEF HistoryInit, Init, Active, Everyone
<1>2. Matches = {}
  BY DEF HistoryInit, Init, Matches
<1> QED
  BY <1>1, <1>2 DEF DrawInv

\* What a step does to the draw: somebody leaves or is deleted, it makes a
\* bracket, or it leaves what was drawn.
Redrawn ==
  /\ tournament'.matches = Bracket(format, Entries)
  /\ Len(Entries) >= IF format.mode = "DE" THEN 4 ELSE 2

StillDrawn ==
  \A made : GrandFinal(1) \notin DOMAIN made /\ LinksUp(made) /\ Drawn(made, tournament.matches)
              => Drawn(made, tournament'.matches)

Drawing ==
  /\ format' = format
  /\ \A c \in Contestants : roster'[c] = "active" => roster[c] = "active"
  /\ \/ \E c \in Active : roster'[c] # "active"
     \/ \E w \in Workers : request'[w].kind = "delete" /\ ~(request[w].kind = "delete")
     \/ tournament'.matches = tournament.matches
     \/ Redrawn
     \/ Matches # {} /\ StillDrawn

LEMMA EnterResultDraws ==
  ASSUME BracketInv, NEW m \in Matches, NEW who \in Contestants \cup {None}, EnterResult(m, who)
  PROVE  Drawing
<1>1. StillDrawn
  BY ConfirmedDraw DEF EnterResult, BracketInv, StillDrawn, Matches
<1> QED
  BY <1>1 DEF EnterResult, Drawing

LEMMA SubmitScoresDraws ==
  ASSUME BracketInv, NEW w \in Workers, SubmitScores(w)
  PROVE  Drawing
<1> USE DEF BracketInv
<1>1. /\ request[w].match \in DOMAIN tournament.matches
      /\ Playable(format, tournament.matches[request[w].match])
  BY DEF SubmitScores, StillValid, Known, Matches
<1>2. request[w].winner \in Contestants \cup {None}
  BY DEF SubmitScores, Serving, RequestsOK, RequestOK
<1>3. tournament' = Confirmed(tournament, format, request[w].match, request[w].winner)
  BY DEF SubmitScores
<1>4. StillDrawn
  BY <1>1, <1>2, <1>3, ConfirmedDraw DEF StillDrawn
<1>5. Matches # {}
  BY <1>1 DEF Matches
<1> QED
  BY <1>4, <1>5 DEF SubmitScores, Drawing

LEMMA CorrectResultDraws ==
  ASSUME BracketInv, NEW w \in Workers, CorrectResult(w)
  PROVE  Drawing
<1> USE DEF BracketInv
<1> DEFINE m == request[w].match
           retracted == Retracted(tournament, format, m)
<1>1. m \in DOMAIN tournament.matches
  BY DEF CorrectResult, Known, Matches
<1>2. retracted \in Tournaments /\ m \in DOMAIN retracted.matches
  <2> HIDE DEF m
  <2> QED
    BY <1>1, RetractedType
<1>3. \/ tournament' = retracted
      \/ /\ Playable(format, retracted.matches[m])
         /\ \E who \in Outcomes(format, retracted.matches[m]) :
              tournament' = Confirmed(retracted, format, m, who)
  BY DEF CorrectResult
<1>4. ASSUME NEW made, GrandFinal(1) \notin DOMAIN made, LinksUp(made), Drawn(made, tournament.matches)
      PROVE  Drawn(made, tournament'.matches)
  <2>1. Drawn(made, retracted.matches)
    <3> HIDE DEF m
    <3> QED
      BY <1>1, <1>4, RetractedDraw
  <2> HIDE DEF retracted, m
  <2>2. CASE tournament' = retracted
    BY <2>1, <2>2
  <2>3. ASSUME NEW who \in Outcomes(format, retracted.matches[m]),
               Playable(format, retracted.matches[m]),
               tournament' = Confirmed(retracted, format, m, who)
        PROVE  Drawn(made, tournament'.matches)
    <3>1. who \in Contestants \cup {None}
      <4>1. retracted.matches[m].entries \in Rows
        BY <1>2, TournamentForm, MatchType
      <4>2. Entrants(retracted.matches[m].entries) \subseteq Contestants
        BY <4>1, EntrantsType
      <4> QED
        BY <4>2 DEF Outcomes
    <3>2. Drawn(made, Confirmed(retracted, format, m, who).matches)
      BY <1>2, <1>4, <2>1, <2>3, <3>1, ConfirmedDraw
    <3> QED
      BY <2>3, <3>2
  <2> QED
    BY <1>3, <2>2, <2>3
<1>5. Matches # {} /\ StillDrawn
  BY <1>1, <1>4 DEF StillDrawn, Matches
<1> QED
  BY <1>5 DEF CorrectResult, Drawing

LEMMA GenerateBracketDraws ==
  ASSUME BracketInv, NEW w \in Workers, GenerateBracket(w)
  PROVE  Drawing
<1>1. Redrawn
  BY DEF GenerateBracket, Redrawn, BracketInv, Tournaments
<1> QED
  BY <1>1 DEF GenerateBracket, Drawing

LEMMA LeavingDraws ==
  ASSUME BracketInv, NEW c \in Active, NEW to \in {"removed", "gone"},
         roster' = [roster EXCEPT ![c] = to], format' = format
  PROVE  Drawing
<1>1. roster'[c] # "active"
  BY DEF BracketInv, Active
<1>2. \A d \in Contestants : roster'[d] = "active" => roster[d] = "active"
  BY DEF BracketInv, Active
<1> QED
  BY <1>1, <1>2 DEF Drawing

LEMMA StepDraws ==
  ASSUME BracketInv, Next
  PROVE  Drawing
<1>1. CASE ResultEntered
  BY <1>1, EnterResultDraws DEF ResultEntered
<1>2. ASSUME NEW c \in Contestants, RemoveContestant(c) \/ RemoveUnplaced(c)
      PROVE  Drawing
  BY <1>2, LeavingDraws DEF RemoveContestant, RemoveUnplaced, MayLeave
<1>3. ASSUME NEW w \in Workers,
             \/ RequestBracket(w)
             \/ \E m \in Matches : \E who \in Contestants \cup {None} : CheckScores(w, m, who)
             \/ \E m \in Matches : OpenCorrection(w, m)
             \/ \E new \in Statuses : ChangeStatus(w, new)
             \/ RereadTournament(w)
             \/ \E c \in Contestants, confirming \in BOOLEAN : FindTeamEntries(w, c, confirming)
             \/ Abandon(w)
      PROVE  Drawing
  <2>1. UNCHANGED <<format, tournament, roster>>
    BY <1>3 DEF RequestBracket, CheckScores, OpenCorrection, ChangeStatus, RereadTournament,
       FindTeamEntries, Abandon
  <2> QED
    BY <2>1 DEF Drawing
<1>4. ASSUME NEW w \in Workers, WriteStatus(w) \/ ClearTeamWinner(w)
      PROVE  Drawing
  <2>1. UNCHANGED <<format, roster>> /\ tournament'.matches = tournament.matches
    BY <1>4 DEF WriteStatus, ClearTeamWinner, BracketInv, Tournaments
  <2> QED
    BY <2>1 DEF Drawing
<1>5. ASSUME NEW w \in Workers, RemoveTeam(w)
      PROVE  Drawing
  BY <1>5, LeavingDraws DEF RemoveTeam, MayLeave
<1>6. ASSUME NEW w \in Workers, DeleteTeamRow(w)
      PROVE  Drawing
  <2>1. UNCHANGED <<format, tournament>> /\ roster' = [roster EXCEPT ![request[w].team] = "gone"]
    BY <1>6 DEF DeleteTeamRow
  <2>2. \A d \in Contestants : roster'[d] = "active" => roster[d] = "active"
    BY <2>1 DEF BracketInv
  <2> QED
    BY <2>1, <2>2 DEF Drawing
<1>7. ASSUME NEW w \in Workers, NEW c \in Contestants, DeleteTeamEntries(w, c)
      PROVE  Drawing
  <2>1. /\ UNCHANGED <<format, roster>>
        /\ request[w] = Idle
        /\ request' = [request EXCEPT ![w] = [kind |-> "delete", step |-> "winner", team |-> c]]
    BY <1>7 DEF DeleteTeamEntries, Take, Free
  <2>2. request'[w].kind = "delete" /\ ~(request[w].kind = "delete")
    BY <2>1 DEF BracketInv, RequestsOK, Idle
  <2> QED
    BY <2>1, <2>2 DEF Drawing
<1> QED
  BY <1>1, <1>2, <1>3, <1>4, <1>5, <1>6, <1>7, GenerateBracketDraws, SubmitScoresDraws,
     CorrectResultDraws DEF Next

\* A bracket just made has grown out of itself.
LEMMA MadeDrawn ==
  ASSUME NEW f \in Formats, NEW list \in Seq(Contestants),
         Len(list) >= IF f.mode = "DE" THEN 4 ELSE 2
  PROVE  Drawn(Bracket(f, list), Bracket(f, list))
<1> DEFINE made == Bracket(f, list)
<1>1. /\ GrandFinal(1) \notin DOMAIN made
      /\ GrandFinal(0) \in DOMAIN made => made[GrandFinal(0)].next = None
  BY MadeLinks
<1> HIDE DEF made
<1>2. Drawn(made, made)
  BY <1>1 DEF Drawn
<1> QED
  BY <1>2 DEF made

LEMMA DrawKept ==
  ASSUME BracketInv, DrawInv, HistoryNext
  PROVE  DrawInv'
<1>1. Drawing /\ Observe
  BY StepDraws DEF HistoryNext
<1>2. /\ Active' \subseteq Active
      /\ Everyone' = Everyone
  BY <1>1 DEF Drawing, Active, Everyone
<1>3. Active' \subseteq Everyone'
  BY <1>2 DEF DrawInv
<1>4. ASSUME Matches' # {}, Everybody', ~marred'
      PROVE  /\ Len(Entries') >= IF format'.mode = "DE" THEN 4 ELSE 2
             /\ Drawn(Bracket(format', Entries'), tournament'.matches)
  <2>1. Active' = Active /\ Everybody
    BY <1>2, <1>4 DEF DrawInv, Everybody
  <2>2. Entries' = Entries
    BY <2>1 DEF Entries
  <2>3. ~marred /\ format' = format
    BY <1>1, <1>4 DEF Observe, Drawing
  <2>4. ~(\E c \in Active : roster'[c] # "active")
    BY <2>1 DEF Active
  <2>5. ~(\E w \in Workers : request'[w].kind = "delete")
    BY <1>1, <1>4 DEF Observe, Mars
  <2>6. CASE Redrawn
    <3>1. Len(Entries) >= IF format.mode = "DE" THEN 4 ELSE 2
      BY <2>6 DEF Redrawn
    <3>2. Entries \in Seq(Contestants) /\ format \in Formats
      BY <3>1, EntriesDrafted DEF Drafted, BracketInv
    <3>3. Drawn(Bracket(format, Entries), tournament'.matches)
      BY <2>6, <3>1, <3>2, MadeDrawn DEF Redrawn
    <3> QED
      BY <2>2, <2>3, <3>1, <3>3
  <2>7. CASE tournament'.matches = tournament.matches
    <3>1. Matches # {}
      BY <1>4, <2>7 DEF Matches
    <3> QED
      BY <2>1, <2>2, <2>3, <2>7, <3>1 DEF DrawInv
  <2>8. CASE Matches # {} /\ StillDrawn
    <3>1. /\ Len(Entries) >= IF format.mode = "DE" THEN 4 ELSE 2
          /\ Drawn(Bracket(format, Entries), tournament.matches)
      BY <2>1, <2>3, <2>8 DEF DrawInv
    <3>2. Entries \in Seq(Contestants) /\ format \in Formats
      BY <3>1, EntriesDrafted DEF Drafted, BracketInv
    <3>3. LinksUp(Bracket(format, Entries)) /\ GrandFinal(1) \notin DOMAIN Bracket(format, Entries)
      BY <3>1, <3>2, MadeLinks
    <3>4. Drawn(Bracket(format, Entries), tournament'.matches)
      BY <2>8, <3>1, <3>3 DEF StillDrawn
    <3> QED
      BY <2>2, <2>3, <3>1, <3>4
  <2> QED
    BY <1>1, <2>4, <2>5, <2>6, <2>7, <2>8 DEF Drawing
<1> QED
  BY <1>3, <1>4 DEF DrawInv

LEMMA NextDraw == BracketInv /\ DrawInv /\ [HistoryNext]_historyVars => DrawInv'
<1> SUFFICES ASSUME BracketInv, DrawInv, UNCHANGED historyVars PROVE DrawInv'
  BY DrawKept
<1> USE DEF historyVars, vars
<1>1. Active' = Active /\ Everyone' = Everyone
  BY DEF Active, Everyone
<1>2. Entries' = Entries
  BY <1>1 DEF Entries
<1> QED
  BY <1>1, <1>2 DEF DrawInv, Everybody, Matches

LEMMA Drawings == HistorySpec => [](BracketInv /\ DrawInv)
<1>1. HistorySpec => []BracketInv
  BY InitInv, NextInv, PTL DEF HistorySpec
<1> QED
  BY <1>1, InitDraw, NextDraw, PTL DEF HistorySpec

\* However many contestants there are and whatever was played and corrected
\* since, everybody is to meet everybody once, or stands in the first round
\* where the seeding put them: the best apart and with the walkovers
\* (_standard_seed_order, generate_round_robin_schedule).
THEOREM DrawIsFair == HistorySpec => []DrawFair
<1>1. BracketInv /\ DrawInv => DrawFair
  BY DrawSpreads, DrawMeets DEF DrawFair
<1> QED
  BY <1>1, Drawings, PTL

\* A bracket of any size the code generates can be started, and still can
\* after any play and correction before a bracket reset exists
\* (validate_bracket_for_start).
THEOREM GeneratedBracketStarts == HistorySpec => []GeneratedStarts
<1>1. BracketInv /\ DrawInv => GeneratedStarts
  BY DrawStarts
<1> QED
  BY <1>1, Drawings, PTL
=============================================================================
