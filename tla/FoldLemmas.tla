----------------------------- MODULE FoldLemmas -----------------------------
(***************************************************************************)
(* What the folds of the community modules compute.  A fold over a finite  *)
(* set is the last value of a function that is defined by recursion on its *)
(* subsets; that this function exists, and is the only one, is shown here  *)
(* by induction on their size, for steps that are given as a function F.   *)
(***************************************************************************)
EXTENDS Integers, Sequences, Functions, FiniteSetTheorems, WellFoundedInduction, TLAPS

\* Induction on the natural numbers, for a property given as the set of the
\* numbers that have it.
LEMMA Induction ==
  ASSUME NEW T \in SUBSET Nat, 0 \in T, \A n \in T : n + 1 \in T
  PROVE  T = Nat
<1> SUFFICES ASSUME T # Nat PROVE FALSE
  OBVIOUS
<1>1. \E x \in Nat \ T : \A y \in Nat \ T : <<y, x>> \notin OpToRel(<, Nat)
  <2>1. Nat \ T \subseteq Nat /\ Nat \ T # {}
    OBVIOUS
  <2>2. QED
    BY <2>1, NatLessThanWellFounded, WFMin
<1>2. \E x \in Nat \ T : \A y \in Nat \ T : ~(y < x)
  BY <1>1 DEF OpToRel
<1> HIDE <1>1
<1>3. PICK x \in Nat \ T : \A y \in Nat \ T : ~(y < x)
  BY <1>2
<1>4. x # 0
  BY <1>3
<1>5. x - 1 \in T
  BY <1>3, <1>4
<1>6. QED
  BY <1>3, <1>5

\* The subsets with at most n elements.
Small(S, n) == {U \in SUBSET S : Cardinality(U) <= n}

\* Small sets: one without an element, all of them, and one less.
LEMMA SmallSets ==
  ASSUME NEW S, IsFiniteSet(S)
  PROVE  /\ Small(S, 0) = {{}}
         /\ Small(S, Cardinality(S)) = SUBSET S /\ Cardinality(S) \in Nat
         /\ \A U \in SUBSET S : IsFiniteSet(U) /\ Cardinality(U) \in Nat
         /\ \A n \in Nat, U \in SUBSET S : U \in Small(S, n) => U \in Small(S, n + 1)
         /\ \A n \in Nat : \A U \in Small(S, n + 1) : \A x \in U : U \ {x} \in Small(S, n)
<1>1. \A U \in SUBSET S : IsFiniteSet(U) /\ Cardinality(U) \in Nat /\ Cardinality(U) <= Cardinality(S)
  BY FS_Subset, FS_CardinalityType
<1>2. Cardinality(S) \in Nat
  BY FS_CardinalityType
<1>3. \A U \in SUBSET S : Cardinality(U) = 0 <=> U = {}
  BY <1>1, FS_EmptySet
<1>4. ASSUME NEW U \in SUBSET S, NEW x \in U
      PROVE  Cardinality(U \ {x}) = Cardinality(U) - 1
  BY <1>1, FS_RemoveElement
<1>5. Small(S, 0) = {{}}
  BY <1>1, <1>3 DEF Small
<1>6. ASSUME NEW n \in Nat, NEW U \in Small(S, n + 1), NEW x \in U
      PROVE  U \ {x} \in Small(S, n)
  <2>1. U \in SUBSET S /\ Cardinality(U) \in Nat /\ Cardinality(U) <= n + 1
    BY <1>1 DEF Small
  <2>2. Cardinality(U \ {x}) = Cardinality(U) - 1 /\ U \ {x} \in SUBSET S
    BY <1>4, <2>1
  <2>3. QED
    BY <2>1, <2>2 DEF Small
<1>7. QED
  BY <1>1, <1>2, <1>5, <1>6 DEF Small

\* c picks an element of each of them; F is the step from the value of what is
\* left to the value of the set, and g takes it everywhere.
Picks(c, S) == \A U \in SUBSET S : U # {} => c[U] \in U
StepsIn(F, S, V) == \A U \in SUBSET S, v \in V : U # {} => F[<<U, v>>] \in V
IsFold(g, S, base, F, c) ==
  \A U \in SUBSET S : g[U] = IF U = {} THEN base ELSE F[<<U, g[U \ {c[U]}]>>]

\* Two functions agree on a set whenever they do on what is left of it.
Agree(g, h, S, c) ==
  /\ g[{}] = h[{}]
  /\ \A U \in SUBSET S : U # {} /\ g[U \ {c[U]}] = h[U \ {c[U]}] => g[U] = h[U]

\* The function that takes the step everywhere exists.
LEMMA FoldExists ==
  ASSUME NEW S, IsFiniteSet(S), NEW V, NEW base \in V, NEW c, NEW F,
         Picks(c, S), StepsIn(F, S, V)
  PROVE  \E g \in [SUBSET S -> V] : IsFold(g, S, base, F, c)
<1> USE DEF Picks, StepsIn, IsFold
<1> DEFINE Good(n) == \E g \in [Small(S, n) -> V] : \A U \in Small(S, n) :
                        g[U] = IF U = {} THEN base ELSE F[<<U, g[U \ {c[U]}]>>]
           T == {n \in Nat : Good(n)}
<1>1. 0 \in T
  <2>1. \A U \in Small(S, 0) : U = {}
    BY SmallSets
  <2>2. [U \in Small(S, 0) |-> base] \in [Small(S, 0) -> V]
    OBVIOUS
  <2>3. Good(0)
    BY <2>1, <2>2
  <2>4. QED
    BY <2>3
<1>2. ASSUME NEW n \in T PROVE n + 1 \in T
  <2>1. PICK g \in [Small(S, n) -> V] : \A U \in Small(S, n) :
          g[U] = IF U = {} THEN base ELSE F[<<U, g[U \ {c[U]}]>>]
    OBVIOUS
  <2>2. ASSUME NEW U \in Small(S, n + 1), U # {}
        PROVE  /\ U \ {c[U]} \in Small(S, n) /\ U \in SUBSET S
               /\ g[U \ {c[U]}] \in V /\ F[<<U, g[U \ {c[U]}]>>] \in V
    <3>1. U \in SUBSET S /\ c[U] \in U
      BY <2>2 DEF Small
    <3>2. U \ {c[U]} \in Small(S, n)
      BY <3>1, SmallSets
    <3>3. g[U \ {c[U]}] \in V
      BY <3>2
    <3>4. QED
      BY <2>2, <3>1, <3>2, <3>3
  <2>3. PICK h : h = [U \in Small(S, n + 1) |-> IF U = {} THEN base ELSE F[<<U, g[U \ {c[U]}]>>]]
    OBVIOUS
  <2>4. h \in [Small(S, n + 1) -> V]
    BY <2>2, <2>3
  <2>5. ASSUME NEW U \in Small(S, n) PROVE h[U] = g[U]
    <3>1. U \in Small(S, n + 1)
      BY SmallSets DEF Small
    <3>2. QED
      BY <2>1, <2>3, <3>1
  <2>6. ASSUME NEW U \in Small(S, n + 1)
        PROVE  h[U] = IF U = {} THEN base ELSE F[<<U, h[U \ {c[U]}]>>]
    BY <2>2, <2>3, <2>5
  <2>7. Good(n + 1)
    BY <2>4, <2>6
  <2> HIDE DEF Good
  <2>8. QED
    BY <2>7
<1> HIDE DEF Good
<1>3. T = Nat
  <2>1. T \in SUBSET Nat /\ \A n \in T : n + 1 \in T
    BY <1>2
  <2> HIDE DEF T
  <2>2. QED
    BY <1>1, <2>1, Induction
<1>4. Good(Cardinality(S)) /\ Small(S, Cardinality(S)) = SUBSET S
  BY <1>3, SmallSets
<1>5. QED
  BY <1>4 DEF Good

\* It is the only one: functions that agree from the empty set on are equal.
LEMMA FoldUnique ==
  ASSUME NEW S, IsFiniteSet(S), NEW c, NEW g, NEW h, Picks(c, S), Agree(g, h, S, c)
  PROVE  \A U \in SUBSET S : g[U] = h[U]
<1> USE DEF Picks, Agree
<1> DEFINE T == {n \in Nat : \A U \in Small(S, n) : g[U] = h[U]}
<1>1. 0 \in T
  <2>1. \A U \in Small(S, 0) : U = {} /\ U \in SUBSET S
    BY SmallSets
  <2>2. QED
    BY <2>1
<1>2. ASSUME NEW n \in T PROVE n + 1 \in T
  <2>1. ASSUME NEW U \in Small(S, n + 1), U # {} PROVE g[U] = h[U]
    <3>1. U \in SUBSET S /\ c[U] \in U
      BY <2>1 DEF Small
    <3>2. g[U \ {c[U]}] = h[U \ {c[U]}]
      BY <3>1, SmallSets
    <3>3. QED
      BY <2>1, <3>1, <3>2
  <2>2. \A U \in Small(S, n + 1) : g[U] = h[U]
    BY <2>1
  <2>3. QED
    BY <2>2
<1>3. T = Nat
  <2>1. T \in SUBSET Nat /\ \A n \in T : n + 1 \in T
    BY <1>2
  <2> HIDE DEF T
  <2>2. QED
    BY <1>1, <2>1, Induction
<1>4. QED
  BY <1>3, SmallSets
-----------------------------------------------------------------------------
(* Sums.                                                                   *)

\* f gives natural numbers on S; g sums them up, one element after the other.
Numbers(f, S) == \A x \in S : f[x] \in Nat
SumsUp(g, f, S) ==
  /\ SumFunctionOnSet(f, S) = g[S] /\ g[{}] = 0
  /\ \A U \in SUBSET S : U # {} => \E x \in U : g[U] = f[x] + g[U \ {x}]

\* The sum over a set is a sum over its subsets, one element after the other.
LEMMA SumByElements ==
  ASSUME NEW S, IsFiniteSet(S), NEW f, Numbers(f, S)
  PROVE  \E g \in [SUBSET S -> Nat] : SumsUp(g, f, S)
<1> USE DEF Numbers, SumsUp
<1> DEFINE Sums(g) == g = [U \in SUBSET S |-> IF U = {} THEN 0 ELSE
                        f[CHOOSE x \in U : TRUE] + g[U \ {CHOOSE x \in U : TRUE}]]
<1>1. PICK iter : iter = CHOOSE g : Sums(g)
  OBVIOUS
<1>2. SumFunctionOnSet(f, S) = iter[S]
  BY <1>1 DEF SumFunctionOnSet, FoldFunctionOnSet, MapThenFoldSet
<1>3. PICK c : c = [U \in SUBSET S |-> CHOOSE x \in U : TRUE]
  OBVIOUS
<1>4. PICK F : F = [p \in (SUBSET S) \X Nat |-> f[c[p[1]]] + p[2]]
  OBVIOUS
<1>5. Picks(c, S)
  BY <1>3 DEF Picks
<1>6. ASSUME NEW U \in SUBSET S, NEW v \in Nat, U # {}
      PROVE  F[<<U, v>>] = f[c[U]] + v /\ F[<<U, v>>] \in Nat
  <2>1. <<U, v>> \in (SUBSET S) \X Nat /\ <<U, v>>[1] = U /\ <<U, v>>[2] = v
    OBVIOUS
  <2>2. F[<<U, v>>] = f[c[<<U, v>>[1]]] + <<U, v>>[2]
    BY <1>4, <2>1, Zenon
  <2>3. c[U] \in S
    BY <1>5, <1>6 DEF Picks
  <2>4. QED
    BY <2>1, <2>2, <2>3
<1>7. PICK g \in [SUBSET S -> Nat] : IsFold(g, S, 0, F, c)
  <2>1. StepsIn(F, S, Nat)
    BY <1>6 DEF StepsIn
  <2>2. QED
    BY <1>5, <2>1, FoldExists
<1>8. g[{}] = 0 /\ \A U \in SUBSET S : U # {} => g[U] = f[c[U]] + g[U \ {c[U]}]
  <2>1. g[{}] = 0
    BY <1>7 DEF IsFold
  <2>2. ASSUME NEW U \in SUBSET S, U # {} PROVE g[U] = f[c[U]] + g[U \ {c[U]}]
    <3>1. g[U] = F[<<U, g[U \ {c[U]}]>>] /\ g[U \ {c[U]}] \in Nat
      BY <1>7, <2>2 DEF IsFold
    <3>2. QED
      BY <1>6, <2>2, <3>1
  <2>3. QED
    BY <2>1, <2>2
<1>9. Sums(g)
  <2>1. \A U \in SUBSET S : c[U] = CHOOSE x \in U : TRUE
    BY <1>3
  <2>2. QED
    BY <1>8, <2>1
<1>10. Sums(iter)
  <2> HIDE DEF Sums
  <2>1. Sums(CHOOSE h : Sums(h))
    BY <1>9
  <2>2. QED
    BY <1>1, <2>1
<1>11. \A U \in SUBSET S : iter[U] = g[U]
  <2>1. \A U \in SUBSET S : iter[U] = IF U = {} THEN 0 ELSE f[c[U]] + iter[U \ {c[U]}]
    BY <1>10, <1>3
  <2>2. Agree(iter, g, S, c)
    BY <1>8, <2>1 DEF Agree
  <2>3. QED
    BY <1>5, <2>2, FoldUnique
<1>12. \A U \in SUBSET S : U # {} => \E x \in U : g[U] = f[x] + g[U \ {x}]
  BY <1>5, <1>8 DEF Picks
<1>13. QED
  BY <1>2, <1>8, <1>11, <1>12

\* A sum of n numbers between low and high is between n * low and n * high,
\* and what one of them lacks to high is lacking in the sum.
LEMMA SumBounds ==
  ASSUME NEW S, IsFiniteSet(S), NEW low \in Nat, NEW high \in Nat,
         NEW f, \A x \in S : f[x] \in low .. high
  PROVE  /\ SumFunctionOnSet(f, S) \in Nat
         /\ low * Cardinality(S) <= SumFunctionOnSet(f, S)
         /\ SumFunctionOnSet(f, S) <= high * Cardinality(S)
         /\ \A y \in S : SumFunctionOnSet(f, S) <= high * Cardinality(S) - (high - f[y])
<1>1. \A x \in S : f[x] \in Nat /\ f[x] >= low /\ f[x] <= high
  OBVIOUS
<1>2. PICK g \in [SUBSET S -> Nat] : SumsUp(g, f, S)
  <2>1. Numbers(f, S)
    BY <1>1 DEF Numbers
  <2>2. QED
    BY <2>1, SumByElements
<1> DEFINE Bounded(U) == /\ low * Cardinality(U) <= g[U] /\ g[U] <= high * Cardinality(U)
                         /\ \A y \in U : g[U] <= high * Cardinality(U) - (high - f[y])
           T == {n \in Nat : \A U \in Small(S, n) : Bounded(U)}
<1>3. 0 \in T
  <2>1. \A U \in Small(S, 0) : U = {}
    BY SmallSets
  <2>2. Cardinality({}) = 0
    BY FS_EmptySet
  <2>3. Bounded({})
    BY <1>2, <2>2 DEF SumsUp
  <2> HIDE DEF Bounded
  <2>4. QED
    BY <2>1, <2>3
<1>4. ASSUME NEW n \in T PROVE n + 1 \in T
  <2>1. ASSUME NEW U \in Small(S, n + 1), U # {} PROVE Bounded(U)
    <3>1. U \in SUBSET S /\ IsFiniteSet(U)
      BY SmallSets DEF Small
    <3>2. PICK x \in U : g[U] = f[x] + g[U \ {x}]
      BY <1>2, <2>1, <3>1 DEF SumsUp
    <3>3. PICK R : R = U \ {x}
      OBVIOUS
    <3>4. R \in Small(S, n) /\ R \in SUBSET S
      BY <3>3, SmallSets DEF Small
    <3>5. /\ Cardinality(R) \in Nat /\ Cardinality(U) = Cardinality(R) + 1
      <4>1. Cardinality(R) = Cardinality(U) - 1
        BY <3>1, <3>3, FS_RemoveElement
      <4>2. Cardinality(R) \in Nat /\ Cardinality(U) \in Nat
        BY <3>1, <3>4, SmallSets
      <4>3. QED
        BY <4>1, <4>2
    <3>6. Bounded(R)
      BY <3>4
    <3>7. PICK k \in Nat : k = Cardinality(R)
      BY <3>5
    <3>8. low * (k + 1) = low * k + low /\ high * (k + 1) = high * k + high
      OBVIOUS
    <3>9. low * k \in Nat /\ high * k \in Nat /\ g[R] \in Nat /\ f[x] \in Nat /\ f[x] >= low /\ f[x] <= high
      BY <1>1, <3>1, <3>4
    <3>10. g[U] = f[x] + g[R] /\ low * k <= g[R] /\ g[R] <= high * k
      BY <3>2, <3>3, <3>6, <3>7
    <3>11. low * (k + 1) <= g[U] /\ g[U] <= high * (k + 1)
      BY <3>8, <3>9, <3>10
    <3>12. ASSUME NEW y \in U PROVE g[U] <= high * (k + 1) - (high - f[y])
      <4>1. CASE y = x
        BY <3>8, <3>9, <3>10, <4>1
      <4>2. CASE y # x
        <5>1. y \in R /\ f[y] \in Nat
          BY <1>1, <3>1, <3>3, <4>2
        <5>2. g[R] <= high * k - (high - f[y])
          BY <3>6, <3>7, <5>1
        <5>3. QED
          BY <3>8, <3>9, <3>10, <5>1, <5>2
      <4>3. QED
        BY <4>1, <4>2
    <3>13. Cardinality(U) = k + 1
      BY <3>5, <3>7
    <3>14. QED
      BY <3>11, <3>12, <3>13
  <2>2. Bounded({})
    BY <1>3, SmallSets
  <2> HIDE DEF Bounded
  <2>3. \A U \in Small(S, n + 1) : Bounded(U)
    BY <2>1, <2>2
  <2>4. QED
    BY <2>3
<1> HIDE DEF Bounded
<1>5. T = Nat
  <2>1. T \in SUBSET Nat /\ \A n \in T : n + 1 \in T
    BY <1>4
  <2> HIDE DEF T
  <2>2. QED
    BY <1>3, <2>1, Induction
<1>6. Bounded(S) /\ g[S] \in Nat
  BY <1>5, SmallSets
<1>7. QED
  BY <1>2, <1>6 DEF Bounded, SumsUp
-----------------------------------------------------------------------------
(* Sequences.                                                              *)

\* A finite set of natural numbers has a greatest.
LEMMA GreatestExists ==
  ASSUME NEW n \in Nat, NEW U \in SUBSET (1 .. n), U # {}
  PROVE  \E x \in U : \A y \in U : y <= x
<1> DEFINE T == {m \in Nat : \A W \in SUBSET (1 .. m) : W # {} => \E x \in W : \A y \in W : y <= x}
<1>1. 0 \in T
  <2>1. 1 .. 0 = {}
    OBVIOUS
  <2>2. QED
    BY <2>1
<1>2. ASSUME NEW m \in T PROVE m + 1 \in T
  <2>1. ASSUME NEW W \in SUBSET (1 .. m + 1), W # {} PROVE \E x \in W : \A y \in W : y <= x
    <3>1. CASE m + 1 \in W
      BY <3>1
    <3>2. CASE m + 1 \notin W
      <4>1. W \in SUBSET (1 .. m)
        BY <3>2
      <4>2. QED
        BY <2>1, <4>1
    <3>3. QED
      BY <3>1, <3>2
  <2>2. QED
    BY <2>1
<1>3. T = Nat
  <2>1. T \in SUBSET Nat /\ \A m \in T : m + 1 \in T
    BY <1>2
  <2> HIDE DEF T
  <2>2. QED
    BY <1>1, <2>1, Induction
<1>4. QED
  BY <1>3

\* last picks the greatest of each set of places up to n.
IsLast(last, n) ==
  \A U \in SUBSET (1 .. n) : U # {} => last[U] \in U /\ \A y \in U : y <= last[U]

\* g reads the sequence q, from the value base on: F takes it from what it has
\* read before a place to what it has read with that place.
Reads(g, q, base, F, last) ==
  \A U \in SUBSET (1 .. Len(q)) :
    g[U] = IF U = {} THEN base ELSE F[<<g[U \ {last[U]}], q[last[U]]>>]

StepsOn(F, V, L) == \A v \in V, x \in L : F[<<v, x>>] \in V

\* A sequence can be read.
LEMMA ReadingExists ==
  ASSUME NEW V, NEW base \in V, NEW L, NEW F, StepsOn(F, V, L), NEW q \in Seq(L),
         NEW last, IsLast(last, Len(q))
  PROVE  \E g \in [SUBSET (1 .. Len(q)) -> V] : Reads(g, q, base, F, last)
<1> DEFINE S == 1 .. Len(q)
<1>1. PICK H : H = [p \in (SUBSET S) \X V |-> F[<<p[2], q[last[p[1]]]>>]]
  OBVIOUS
<1>2. ASSUME NEW U \in SUBSET S, NEW v \in V, U # {}
      PROVE  H[<<U, v>>] = F[<<v, q[last[U]]>>] /\ H[<<U, v>>] \in V
  <2>1. <<U, v>> \in (SUBSET S) \X V /\ <<U, v>>[1] = U /\ <<U, v>>[2] = v
    OBVIOUS
  <2>2. H[<<U, v>>] = F[<<<<U, v>>[2], q[last[<<U, v>>[1]]]>>]
    BY <1>1, <2>1, Zenon
  <2>3. last[U] \in S
    BY <1>2 DEF IsLast
  <2>4. q[last[U]] \in L
    BY <2>3
  <2>5. QED
    BY <2>1, <2>2, <2>4 DEF StepsOn
<1>3. IsFiniteSet(S) /\ Picks(last, S) /\ StepsIn(H, S, V)
  <2>1. IsFiniteSet(S)
    BY FS_Interval
  <2>2. QED
    BY <1>2, <2>1 DEF Picks, StepsIn, IsLast
<1>4. PICK g \in [SUBSET S -> V] : IsFold(g, S, base, H, last)
  BY <1>3, FoldExists
<1>5. ASSUME NEW U \in SUBSET S, U # {}
      PROVE  g[U] = F[<<g[U \ {last[U]}], q[last[U]]>>]
  <2>1. g[U] = H[<<U, g[U \ {last[U]}]>>] /\ g[U \ {last[U]}] \in V
    BY <1>4, <1>5 DEF IsFold
  <2>2. QED
    BY <1>2, <1>5, <2>1
<1>6. Reads(g, q, base, F, last)
  BY <1>4, <1>5 DEF Reads, IsFold
<1>7. QED
  BY <1>6

\* There is only one way to read it.
LEMMA ReadingUnique ==
  ASSUME NEW q, Len(q) \in Nat, NEW base, NEW F, NEW last, IsLast(last, Len(q)),
         NEW g, NEW h, Reads(g, q, base, F, last), Reads(h, q, base, F, last)
  PROVE  \A U \in SUBSET (1 .. Len(q)) : g[U] = h[U]
<1>1. PICK S : S = 1 .. Len(q)
  OBVIOUS
<1>2. IsFiniteSet(S)
  BY <1>1, FS_Interval
<1>3. Picks(last, S)
  BY <1>1 DEF Picks, IsLast
<1>4. Agree(g, h, S, last)
  <2>1. \A U \in SUBSET S : g[U] = IF U = {} THEN base ELSE F[<<g[U \ {last[U]}], q[last[U]]>>]
    BY <1>1 DEF Reads
  <2>2. \A U \in SUBSET S : h[U] = IF U = {} THEN base ELSE F[<<h[U \ {last[U]}], q[last[U]]>>]
    BY <1>1 DEF Reads
  <2>3. {} \in SUBSET S
    OBVIOUS
  <2>4. g[{}] = h[{}]
    BY <2>1, <2>2, <2>3
  <2>5. ASSUME NEW U \in SUBSET S, U # {}, g[U \ {last[U]}] = h[U \ {last[U]}]
        PROVE  g[U] = h[U]
    <3>1. g[U] = F[<<g[U \ {last[U]}], q[last[U]]>>]
      BY <2>1, <2>5
    <3>2. h[U] = F[<<h[U \ {last[U]}], q[last[U]]>>]
      BY <2>2, <2>5
    <3>3. QED
      BY <2>5, <3>1, <3>2
  <2>6. QED
    BY <2>4, <2>5 DEF Agree
<1>5. \A U \in SUBSET S : g[U] = h[U]
  BY <1>2, <1>3, <1>4, FoldUnique
<1>6. QED
  BY <1>1, <1>5

\* Reading one more element takes one more step.
LEMMA ReadingStep ==
  ASSUME NEW V, NEW base, NEW L, NEW F, NEW q \in Seq(L), NEW x \in L,
         NEW last, IsLast(last, Len(q) + 1),
         NEW g, Reads(g, q, base, F, last), NEW h, Reads(h, Append(q, x), base, F, last)
  PROVE  h[1 .. Len(Append(q, x))] = F[<<g[1 .. Len(q)], x>>]
<1>1. PICK n \in Nat : n = Len(q)
  OBVIOUS
<1>2. Len(Append(q, x)) = n + 1 /\ Append(q, x)[n + 1] = x /\ \A i \in 1 .. n : Append(q, x)[i] = q[i]
  BY <1>1
<1>3. Reads(h, q, base, F, last)
  <2>1. ASSUME NEW U \in SUBSET (1 .. n)
        PROVE  h[U] = IF U = {} THEN base ELSE F[<<h[U \ {last[U]}], q[last[U]]>>]
    <3>1. U \in SUBSET (1 .. n + 1)
      OBVIOUS
    <3>2. U # {} => Append(q, x)[last[U]] = q[last[U]]
      BY <1>1, <1>2, <3>1 DEF IsLast
    <3>3. h[U] = IF U = {} THEN base ELSE F[<<h[U \ {last[U]}], Append(q, x)[last[U]]>>]
      BY <1>2, <3>1 DEF Reads
    <3>4. QED
      BY <3>2, <3>3
  <2>2. QED
    BY <1>1, <2>1 DEF Reads
<1>4. IsLast(last, n)
  <2>1. \A U \in SUBSET (1 .. n) : U \in SUBSET (1 .. n + 1)
    OBVIOUS
  <2>2. QED
    BY <1>1, <2>1 DEF IsLast
<1>5. h[1 .. n] = g[1 .. n]
  <2>1. \A U \in SUBSET (1 .. Len(q)) : h[U] = g[U]
    <3>1. IsLast(last, Len(q))
      BY <1>1, <1>4
    <3>2. QED
      BY <1>3, <3>1, ReadingUnique
  <2>2. QED
    BY <1>1, <2>1
<1>6. PICK W : W = 1 .. n + 1
  OBVIOUS
<1>7. W # {} /\ W \ {n + 1} = 1 .. n /\ last[W] = n + 1
  <2>1. n + 1 \in W /\ W \ {n + 1} = 1 .. n
    BY <1>6
  <2>2. last[W] \in W /\ \A y \in W : y <= last[W]
    BY <1>1, <1>6, <2>1 DEF IsLast
  <2>3. last[W] <= n + 1 /\ n + 1 <= last[W] /\ last[W] \in Nat
    BY <1>6, <2>1, <2>2
  <2>4. QED
    BY <2>1, <2>3
<1>8. h[W] = F[<<h[W \ {last[W]}], Append(q, x)[last[W]]>>]
  BY <1>2, <1>6, <1>7 DEF Reads
<1>9. QED
  BY <1>1, <1>2, <1>5, <1>6, <1>7, <1>8
=============================================================================
