----------------------------- MODULE RuleProofs -----------------------------
(***************************************************************************)
(* Lemmas about the rules of MarketRules and about the sums they and the   *)
(* ledgers are made of, for the proofs about every module that trades.     *)
(***************************************************************************)
EXTENDS MarketRules, FiniteSetTheorems, FunctionTheorems, WellFoundedInduction,
        SequenceTheorems, TLAPS

-----------------------------------------------------------------------------
(* Arithmetic and sequences *)

\* Every non-empty set of natural numbers has a least element: the induction
\* principle of this module, since a theorem cannot take a predicate here.
LEMMA NatMin ==
    ASSUME NEW T, T \subseteq Nat, T # {}
    PROVE  \E m \in T : \A k \in T : m <= k
<1>1. PICK m \in T : \A k \in T : ~(<<k, m>> \in OpToRel(<, Nat))
  BY NatLessThanWellFounded, WFMin
<1>2. \A k \in T : ~(k < m)
  BY <1>1 DEF OpToRel
<1> QED BY <1>2

\* Appending to a sequence over its own range.
LEMMA AppendToRange ==
    ASSUME NEW s, s \in Seq(Range(s)), NEW e
    PROVE  /\ Append(s, e) \in Seq(Range(Append(s, e)))
           /\ Len(Append(s, e)) = Len(s) + 1
           /\ DOMAIN s = 1 .. Len(s)
           /\ DOMAIN Append(s, e) = 1 .. Len(s) + 1
           /\ \A i \in 1 .. Len(s) : Append(s, e)[i] = s[i]
           /\ Append(s, e)[Len(s) + 1] = e
<1> DEFINE S == Range(s) \cup {e}
<1>1. s \in Seq(S) /\ e \in S
  BY SeqMonotonic
<1> HIDE DEF S
<1>2. Len(s) \in Nat /\ DOMAIN s = 1 .. Len(s)
  BY <1>1, LenProperties
<1> DEFINE a == Append(s, e)
<1>3. /\ a \in Seq(S) /\ Len(a) = Len(s) + 1
      /\ \A i \in 1 .. Len(s) : a[i] = s[i]
      /\ a[Len(s) + 1] = e
  BY <1>1, AppendProperties
<1> HIDE DEF a
<1>4. a \in [1 .. Len(a) -> S] /\ DOMAIN a = 1 .. Len(a) /\ Len(a) \in Nat
  BY <1>3, LenProperties
<1>5. a \in [1 .. Len(a) -> Range(a)]
  BY <1>4 DEF Range
<1>6. a \in Seq(Range(a))
  BY <1>4, <1>5, SeqDef
<1> QED BY <1>2, <1>3, <1>4, <1>6 DEF a

-----------------------------------------------------------------------------
(* Sums.  SumFunction of the community modules is a recursive function over *)
(* the subsets of a domain, and no induction principle can be instantiated  *)
(* here.  For numbers it is the number of points under the graph, which the *)
(* theorems about finite sets can count: the area satisfies the recursion,  *)
(* and a smallest set on which two solutions differ would refute it.        *)

\* A function into the numbers, and the area under it.
Counts(f) == IsFiniteSet(DOMAIN f) /\ \A x \in DOMAIN f : f[x] \in Nat
Area(f, s) == {p \in s \X Nat : p[2] \in 1 .. f[p[1]]}
FirstOf(s) == CHOOSE x \in s : TRUE

\* A smallest set without a property, for sets of finite sets.
LEMMA SmallestSet ==
    ASSUME NEW B, B # {}, \A s \in B : IsFiniteSet(s)
    PROVE  \E s \in B : \A t \in B : Cardinality(s) <= Cardinality(t)
<1> DEFINE T == {n \in Nat : \E s \in B : Cardinality(s) = n}
<1>1. \A s \in B : Cardinality(s) \in T
  BY FS_CardinalityType
<1>2. T \subseteq Nat /\ T # {}
  BY <1>1
<1>3. PICK m \in T : \A k \in T : m <= k
  <2> HIDE DEF T
  <2> QED BY <1>2, NatMin
<1>4. PICK s \in B : Cardinality(s) = m
  BY <1>3
<1> QED BY <1>1, <1>3, <1>4

\* The domain of a sequence is finite.
LEMMA PrefixFinite ==
    ASSUME NEW n \in Nat
    PROVE  IsFiniteSet(1 .. n)
BY FS_Interval

\* The points above one argument.
LEMMA AreaOfColumn ==
    ASSUME NEW x, NEW n \in Nat
    PROVE  IsFiniteSet({x} \X (1 .. n)) /\ Cardinality({x} \X (1 .. n)) = n
<1>1. IsFiniteSet({x}) /\ Cardinality({x}) = 1
  BY FS_Singleton
<1>2. IsFiniteSet(1 .. n) /\ Cardinality(1 .. n) = n
  BY FS_Interval
<1> DEFINE A == {x}
           C == 1 .. n
<1> HIDE DEF A, C
<1>3. IsFiniteSet(A) /\ Cardinality(A) = 1 /\ IsFiniteSet(C) /\ Cardinality(C) = n
  BY <1>1, <1>2 DEF A, C
<1>4. IsFiniteSet(A \X C)
  BY <1>3, FS_Product
<1>5. Cardinality(A \X C) = Cardinality(A) * Cardinality(C)
  BY <1>3, FS_Product
<1>6. Cardinality(A \X C) = n
  BY <1>3, <1>5
<1> QED BY <1>4, <1>6 DEF A, C

\* The area is that without an argument, and the points above it.
LEMMA AreaSplits ==
    ASSUME NEW f, Counts(f), NEW s \in SUBSET DOMAIN f, NEW x \in s
    PROVE  /\ Area(f, s) = Area(f, s \ {x}) \cup ({x} \X (1 .. f[x]))
           /\ Area(f, s \ {x}) \cap ({x} \X (1 .. f[x])) = {}
BY DEF Area, Counts

\* There is nothing above the empty set.
LEMMA AreaOfNothing == \A f : Area(f, {}) = {}
BY DEF Area

\* A finite domain of numbers has a finite area under it.
LEMMA AreaFinite ==
    ASSUME NEW f, Counts(f), NEW s \in SUBSET DOMAIN f
    PROVE  IsFiniteSet(Area(f, s))
<1> DEFINE B == {t \in SUBSET DOMAIN f : ~IsFiniteSet(Area(f, t))}
<1> SUFFICES ASSUME B # {} PROVE FALSE
  OBVIOUS
<1>1. \A t \in B : IsFiniteSet(t)
  BY FS_Subset DEF Counts
<1>2. PICK t \in B : \A u \in B : Cardinality(t) <= Cardinality(u)
  <2> HIDE DEF B
  <2> QED BY <1>1, SmallestSet
<1>3. t # {}
  BY <1>2, AreaOfNothing, FS_EmptySet
<1>4. PICK x \in t : TRUE
  BY <1>3
<1>5. IsFiniteSet(t) /\ Cardinality(t) \in Nat /\ Cardinality(t \ {x}) = Cardinality(t) - 1
  BY <1>1, <1>2, <1>4, FS_RemoveElement, FS_CardinalityType
<1>6. ~(Cardinality(t) <= Cardinality(t \ {x}))
  BY <1>5
<1>7. t \ {x} \notin B
  BY <1>2, <1>6
<1>8. IsFiniteSet(Area(f, t \ {x}))
  BY <1>2, <1>7
<1>9. f[x] \in Nat
  BY <1>2, <1>4 DEF Counts
<1>10. IsFiniteSet({x} \X (1 .. f[x]))
  BY <1>9, AreaOfColumn
<1>11. t \in SUBSET DOMAIN f /\ ~IsFiniteSet(Area(f, t))
  BY <1>2
<1>12. Area(f, t) = Area(f, t \ {x}) \cup ({x} \X (1 .. f[x]))
  BY <1>4, <1>11, AreaSplits
<1> DEFINE A == Area(f, t \ {x})
           C == {x} \X (1 .. f[x])
<1> HIDE DEF A, C
<1>13. IsFiniteSet(A) /\ IsFiniteSet(C)
  BY <1>8, <1>10 DEF A, C
<1>14. IsFiniteSet(A \cup C)
  BY <1>13, FS_Union
<1> QED BY <1>11, <1>12, <1>14 DEF A, C

\* One argument more adds its value.
LEMMA AreaGrows ==
    ASSUME NEW f, Counts(f), NEW s \in SUBSET DOMAIN f, NEW x \in s
    PROVE  Cardinality(Area(f, s)) = f[x] + Cardinality(Area(f, s \ {x}))
<1>1. f[x] \in Nat
  BY DEF Counts
<1>2. /\ IsFiniteSet({x} \X (1 .. f[x])) /\ Cardinality({x} \X (1 .. f[x])) = f[x]
      /\ IsFiniteSet(Area(f, s \ {x})) /\ Cardinality(Area(f, s \ {x})) \in Nat
  BY <1>1, AreaOfColumn, AreaFinite, FS_CardinalityType
<1>3. Cardinality({}) = 0
  BY FS_EmptySet
<1> DEFINE A == Area(f, s \ {x})
           C == {x} \X (1 .. f[x])
<1>4. Area(f, s) = A \cup C /\ A \cap C = {}
  BY AreaSplits
<1>5. IsFiniteSet(A) /\ IsFiniteSet(C) /\ Cardinality(A) \in Nat /\ Cardinality(C) = f[x]
  BY <1>2
<1> HIDE DEF A, C
<1>6. Cardinality(A \cup C) = Cardinality(A) + Cardinality(C) - Cardinality(A \cap C)
  BY <1>5, FS_Union
<1>7. Cardinality(A \cap C) = 0 /\ Cardinality(Area(f, s)) = Cardinality(A \cup C)
  BY <1>3, <1>4
<1>8. Cardinality(A \cup C) = f[x] + Cardinality(A)
  <2> DEFINE a == Cardinality(A)
             b == Cardinality(A \cup C)
  <2>1. a \in Nat /\ b = a + f[x] - 0
    BY <1>5, <1>6, <1>7
  <2> HIDE DEF a, b
  <2>2. b = f[x] + a
    BY <1>1, <2>1
  <2> QED BY <2>2 DEF a, b
<1> QED BY <1>7, <1>8 DEF A

\* One unfolding of the recursion.
SumStep(f, g) ==
    [s \in SUBSET DOMAIN f |-> IF s = {} THEN 0 ELSE f[FirstOf(s)] + g[s \ {FirstOf(s)}]]

\* The recursion the library sums with, spelled out.
LEMMA SumIsStep == \A f : SumFunction(f) = (CHOOSE g : g = SumStep(f, g))[DOMAIN f]
BY DEF SumFunction, SumFunctionOnSet, FoldFunctionOnSet, MapThenFoldSet, SumStep, FirstOf

\* The area satisfies it,
LEMMA SumStepExists ==
    ASSUME NEW f, Counts(f)
    PROVE  \E g : g = SumStep(f, g)
<1> DEFINE g == [s \in SUBSET DOMAIN f |-> Cardinality(Area(f, s))]
           h == SumStep(f, g)
<1>1. \A s \in SUBSET DOMAIN f : g[s] = h[s]
  <2> SUFFICES ASSUME NEW s \in SUBSET DOMAIN f PROVE g[s] = h[s]
    OBVIOUS
  <2>1. CASE s = {}
    BY <2>1, AreaOfNothing, FS_EmptySet DEF SumStep
  <2>2. CASE s # {}
    <3>1. FirstOf(s) \in s
      BY <2>2 DEF FirstOf
    <3>2. g[s] = f[FirstOf(s)] + Cardinality(Area(f, s \ {FirstOf(s)}))
      BY <3>1, AreaGrows
    <3>3. s \ {FirstOf(s)} \in SUBSET DOMAIN f
      OBVIOUS
    <3>4. g[s \ {FirstOf(s)}] = Cardinality(Area(f, s \ {FirstOf(s)}))
      BY <3>3
    <3> HIDE DEF g
    <3>5. h[s] = f[FirstOf(s)] + g[s \ {FirstOf(s)}]
      BY <2>2 DEF SumStep
    <3> QED BY <3>2, <3>4, <3>5
  <2> QED BY <2>1, <2>2
<1>2. g = [s \in SUBSET DOMAIN f |-> g[s]]
  OBVIOUS
<1>3. h = [s \in SUBSET DOMAIN f |-> h[s]]
  BY DEF SumStep
<1> HIDE DEF g, h
<1>4. g = h
  BY <1>1, <1>2, <1>3
<1> QED BY <1>4 DEF h

\* and is the only function that does.
LEMMA SumStepIsArea ==
    ASSUME NEW f, Counts(f), NEW g, g = SumStep(f, g), NEW s \in SUBSET DOMAIN f
    PROVE  g[s] = Cardinality(Area(f, s))
<1> DEFINE B == {t \in SUBSET DOMAIN f : g[t] # Cardinality(Area(f, t))}
<1> SUFFICES ASSUME B # {} PROVE FALSE
  OBVIOUS
<1>1. \A t \in B : IsFiniteSet(t)
  BY FS_Subset DEF Counts
<1>2. PICK t \in B : \A u \in B : Cardinality(t) <= Cardinality(u)
  <2> HIDE DEF B
  <2> QED BY <1>1, SmallestSet
<1>3. t \in SUBSET DOMAIN f /\ g[t] # Cardinality(Area(f, t))
  BY <1>2
<1>4. g[t] = IF t = {} THEN 0 ELSE f[FirstOf(t)] + g[t \ {FirstOf(t)}]
  BY <1>3 DEF SumStep
<1>5. t # {}
  BY <1>3, <1>4, AreaOfNothing, FS_EmptySet
<1> DEFINE x == FirstOf(t)
<1>6. x \in t
  BY <1>5 DEF FirstOf
<1> HIDE DEF x
<1>7. IsFiniteSet(t) /\ Cardinality(t) \in Nat /\ Cardinality(t \ {x}) = Cardinality(t) - 1
  BY <1>1, <1>2, <1>6, FS_RemoveElement, FS_CardinalityType
<1>8. ~(Cardinality(t) <= Cardinality(t \ {x}))
  BY <1>7
<1>9. t \ {x} \notin B
  BY <1>2, <1>8
<1>10. g[t \ {x}] = Cardinality(Area(f, t \ {x}))
  BY <1>3, <1>9
<1>11. Cardinality(Area(f, t)) = f[x] + Cardinality(Area(f, t \ {x}))
  BY <1>3, <1>6, AreaGrows
<1> QED BY <1>3, <1>4, <1>5, <1>10, <1>11 DEF x

\* A sum of numbers is the area under their graph.
LEMMA SumIsArea ==
    ASSUME NEW f, Counts(f)
    PROVE  SumFunction(f) = Cardinality(Area(f, DOMAIN f)) /\ SumFunction(f) \in Nat
<1> DEFINE g == CHOOSE g : g = SumStep(f, g)
<1>1. g = SumStep(f, g)
  BY SumStepExists
<1>2. SumFunction(f) = g[DOMAIN f]
  BY SumIsStep
<1> HIDE DEF g
<1>3. SumFunction(f) = Cardinality(Area(f, DOMAIN f))
  BY <1>1, <1>2, SumStepIsArea
<1>4. Cardinality(Area(f, DOMAIN f)) \in Nat
  BY AreaFinite, FS_CardinalityType
<1> QED BY <1>3, <1>4

\* The area depends on the values alone.
LEMMA AreaOfSame ==
    ASSUME NEW f, NEW g, DOMAIN g \subseteq DOMAIN f, \A x \in DOMAIN g : g[x] = f[x]
    PROVE  Area(g, DOMAIN g) = Area(f, DOMAIN g)
BY DEF Area

\* The sum over a part of the domain.
LEMMA SumOfPart ==
    ASSUME NEW f, Counts(f), NEW S \in SUBSET DOMAIN f
    PROVE  /\ Counts([x \in S |-> f[x]])
           /\ SumFunction([x \in S |-> f[x]]) = Cardinality(Area(f, S))
<1> DEFINE g == [x \in S |-> f[x]]
<1>1. DOMAIN g = S /\ \A x \in S : g[x] = f[x]
  OBVIOUS
<1>2. IsFiniteSet(S)
  BY FS_Subset DEF Counts
<1> HIDE DEF g
<1>3. Counts(g)
  BY <1>1, <1>2 DEF Counts
<1>4. Area(g, S) = Area(f, S)
  BY <1>1, AreaOfSame
<1> QED BY <1>1, <1>3, <1>4, SumIsArea DEF g

\* The empty sum is nothing.
LEMMA SumOfNothing == SumFunction([x \in {} |-> 0]) = 0 
<1> DEFINE f == [x \in {} |-> 0]
<1>1. Counts(f) /\ DOMAIN f = {}
  BY FS_EmptySet DEF Counts
<1> HIDE DEF f
<1> QED BY <1>1, SumIsArea, AreaOfNothing, FS_EmptySet DEF f

\* The sum of a function is one value and the sum of the others.
LEMMA SumTakesOut ==
    ASSUME NEW f, Counts(f), NEW x \in DOMAIN f
    PROVE  SumFunction(f) = f[x] + SumFunction([y \in DOMAIN f \ {x} |-> f[y]])
<1>1. SumFunction([y \in DOMAIN f \ {x} |-> f[y]]) = Cardinality(Area(f, DOMAIN f \ {x}))
  BY SumOfPart
<1>2. Cardinality(Area(f, DOMAIN f)) = f[x] + Cardinality(Area(f, DOMAIN f \ {x}))
  BY AreaGrows
<1> QED BY <1>1, <1>2, SumIsArea

\* A sum of numbers is a number.
LEMMA SumIsNat ==
    ASSUME NEW f, Counts(f)
    PROVE  SumFunction(f) \in Nat
BY SumIsArea

\* A sum over a smaller part is no greater, by at least any value left out.
LEMMA SumOfLess ==
    ASSUME NEW f, Counts(f), NEW T \in SUBSET DOMAIN f, NEW S \in SUBSET T
    PROVE  /\ SumFunction([x \in S |-> f[x]]) <= SumFunction([x \in T |-> f[x]])
           /\ \A y \in T \ S :
                 SumFunction([x \in S |-> f[x]]) + f[y] <= SumFunction([x \in T |-> f[x]])
<1>1. ASSUME NEW R \in SUBSET DOMAIN f, NEW Q \in SUBSET R
      PROVE  Cardinality(Area(f, Q)) <= Cardinality(Area(f, R))
  <2>1. Area(f, Q) \subseteq Area(f, R) /\ IsFiniteSet(Area(f, R))
    BY AreaFinite DEF Area
  <2> QED BY <2>1, FS_Subset
<1>2. /\ SumFunction([x \in S |-> f[x]]) = Cardinality(Area(f, S))
      /\ SumFunction([x \in T |-> f[x]]) = Cardinality(Area(f, T))
  <2>1. S \in SUBSET DOMAIN f
    OBVIOUS
  <2> QED BY <2>1, SumOfPart
<1>3. ASSUME NEW y \in T \ S
      PROVE  Cardinality(Area(f, S)) + f[y] <= Cardinality(Area(f, T))
  <2>1. S \in SUBSET (T \ {y}) /\ T \ {y} \in SUBSET DOMAIN f /\ y \in T
    OBVIOUS
  <2>2. Cardinality(Area(f, S)) <= Cardinality(Area(f, T \ {y}))
    BY <1>1, <2>1
  <2>3. Cardinality(Area(f, T)) = f[y] + Cardinality(Area(f, T \ {y}))
    BY AreaGrows, <2>1
  <2>4. IsFiniteSet(Area(f, S)) /\ IsFiniteSet(Area(f, T \ {y}))
    BY <2>1, AreaFinite
  <2>5. /\ Cardinality(Area(f, S)) \in Nat /\ Cardinality(Area(f, T \ {y})) \in Nat
        /\ f[y] \in Nat
    BY <2>1, <2>4, FS_CardinalityType DEF Counts
  <2> QED BY <2>2, <2>3, <2>5
<1> QED BY <1>1, <1>2, <1>3

\* Two functions with the same values, up to a renaming of the domain, have the
\* same sum.
LEMMA SumOfRenamed ==
    ASSUME NEW f, Counts(f), NEW g, Counts(g), NEW b \in [DOMAIN f -> DOMAIN g],
           \A x, y \in DOMAIN f : b[x] = b[y] => x = y,
           \A z \in DOMAIN g : \E x \in DOMAIN f : b[x] = z,
           \A x \in DOMAIN f : f[x] = g[b[x]]
    PROVE  SumFunction(f) = SumFunction(g)
<1> DEFINE A == Area(f, DOMAIN f)
           C == Area(g, DOMAIN g)
           h == [p \in A |-> <<b[p[1]], p[2]>>]
<1>1. /\ \A p \in A : p[1] \in DOMAIN f /\ p[2] \in Nat /\ p[2] \in 1 .. f[p[1]]
                      /\ p = <<p[1], p[2]>>
      /\ \A p \in C : p[1] \in DOMAIN g /\ p[2] \in Nat /\ p[2] \in 1 .. g[p[1]]
                      /\ p = <<p[1], p[2]>>
      /\ \A x \in DOMAIN f, n \in Nat : n \in 1 .. f[x] => <<x, n>> \in A
      /\ \A x \in DOMAIN g, n \in Nat : n \in 1 .. g[x] => <<x, n>> \in C
  BY DEF Area
<1> HIDE DEF A, C
<1>2. h \in [A -> C]
  BY <1>1
<1>3. \A p, q \in A : h[p] = h[q] => p = q
  BY <1>1
<1>4. \A r \in C : \E p \in A : h[p] = r
  <2> SUFFICES ASSUME NEW r \in C PROVE \E p \in A : h[p] = r
    OBVIOUS
  <2>1. PICK x \in DOMAIN f : b[x] = r[1]
    BY <1>1
  <2>2. <<x, r[2]>> \in A
    BY <1>1, <2>1
  <2>3. h[<<x, r[2]>>] = r
    BY <1>1, <2>1, <2>2
  <2> QED BY <2>2, <2>3
<1>5. h \in Bijection(A, C)
  <2> HIDE DEF h
  <2> QED BY <1>2, <1>3, <1>4, Fun_IsBij
<1>6. ExistsBijection(A, C)
  BY <1>5, Fun_ExistsBij
<1>7. IsFiniteSet(A)
  BY AreaFinite DEF A
<1>8. Cardinality(C) = Cardinality(A)
  BY <1>6, <1>7, FS_Bijection
<1> QED BY <1>8, SumIsArea DEF A, C

-----------------------------------------------------------------------------
(* Lots *)

\* Lots whose sizes can be added up.
Sized(s) == IsFiniteSet(DOMAIN s) /\ \A k \in DOMAIN s : s[k].remaining \in Nat

\* Sizes add up over any part of the lots, to more over a greater part.
LEMMA SizesAddUp ==
    ASSUME NEW s, Sized(s), NEW S \in SUBSET DOMAIN s
    PROVE  /\ SizeOf(s, S) \in Nat
           /\ \A k \in S : s[k].remaining <= SizeOf(s, S)
           /\ \A T \in SUBSET S : SizeOf(s, T) <= SizeOf(s, S)
           /\ \A T \in SUBSET S : \A k \in S \ T :
                 SizeOf(s, T) + s[k].remaining <= SizeOf(s, S)
<1> DEFINE f == [k \in DOMAIN s |-> s[k].remaining]
<1>1. Counts(f) /\ DOMAIN f = DOMAIN s /\ \A k \in DOMAIN s : f[k] = s[k].remaining
  BY DEF Sized, Counts
<1>2. \A T \in SUBSET DOMAIN s : SizeOf(s, T) = SumFunction([x \in T |-> f[x]])
  <2> SUFFICES ASSUME NEW T \in SUBSET DOMAIN s
               PROVE  SizeOf(s, T) = SumFunction([x \in T |-> f[x]])
    OBVIOUS
  <2>1. [x \in T |-> f[x]] = [x \in T |-> s[x].remaining]
    OBVIOUS
  <2> QED BY <2>1 DEF SizeOf
<1> HIDE DEF f
<1>3. \A T \in SUBSET DOMAIN s : SizeOf(s, T) \in Nat
  <2> SUFFICES ASSUME NEW T \in SUBSET DOMAIN s PROVE SizeOf(s, T) \in Nat
    OBVIOUS
  <2>1. Counts([x \in T |-> f[x]])
    BY <1>1, SumOfPart
  <2> QED BY <1>2, <2>1, SumIsNat
<1>4. ASSUME NEW T \in SUBSET S
      PROVE  /\ SizeOf(s, T) <= SizeOf(s, S)
             /\ \A k \in S \ T : SizeOf(s, T) + s[k].remaining <= SizeOf(s, S)
  <2>1. /\ SumFunction([x \in T |-> f[x]]) <= SumFunction([x \in S |-> f[x]])
        /\ \A y \in S \ T :
              SumFunction([x \in T |-> f[x]]) + f[y] <= SumFunction([x \in S |-> f[x]])
    BY <1>1, SumOfLess
  <2>2. T \in SUBSET DOMAIN s
    OBVIOUS
  <2> QED BY <1>1, <1>2, <2>1, <2>2
<1>5. \A k \in S : s[k].remaining <= SizeOf(s, S)
  <2> SUFFICES ASSUME NEW k \in S PROVE s[k].remaining <= SizeOf(s, S)
    OBVIOUS
  <2>1. {} \in SUBSET S /\ k \in S \ {} /\ {} \in SUBSET DOMAIN s
    OBVIOUS
  <2>2. SizeOf(s, {}) + s[k].remaining <= SizeOf(s, S)
    BY <1>4, <2>1
  <2>3. SizeOf(s, {}) \in Nat /\ SizeOf(s, S) \in Nat /\ s[k].remaining \in Nat
    BY <1>3, <2>1 DEF Sized
  <2> QED BY <2>2, <2>3
<1> QED BY <1>3, <1>4, <1>5

\* consume_fifo: what goes from a lot is the less of what is left of it and of
\* what the lots before it did not give, and never less than nothing.
LEMMA TakeIs ==
    ASSUME NEW r \in Int, NEW x \in Int
    PROVE  LET v == Max({0, Min({r, x})})
           IN  /\ v \in Int /\ v >= 0
               /\ r >= 0 => v <= r
               /\ v > 0 => (v <= r /\ v <= x /\ (v = r \/ v = x))
               /\ r > 0 /\ x > 0 => v > 0
               /\ r >= 0 /\ r <= x => v = r
<1> DEFINE m == Min({r, x})
<1>1. m \in {r, x} /\ m <= r /\ m <= x
  <2> DEFINE w == IF r <= x THEN r ELSE x
  <2>1. w \in {r, x} /\ \A y \in {r, x} : w <= y
    OBVIOUS
  <2>2. m \in {r, x} /\ \A y \in {r, x} : m <= y
    BY <2>1 DEF Min
  <2> QED BY <2>2
<1> HIDE DEF m
<1> DEFINE v == Max({0, m})
<1>2. v \in {0, m} /\ v >= 0 /\ v >= m
  <2> DEFINE w == IF m <= 0 THEN 0 ELSE m
  <2>0. m \in Int
    BY <1>1
  <2>1. w \in {0, m} /\ \A y \in {0, m} : w >= y
    BY <2>0
  <2>2. v \in {0, m} /\ \A y \in {0, m} : v >= y
    BY <2>1 DEF Max
  <2> QED BY <2>2
<1> HIDE DEF v
<1>3. /\ v \in Int /\ v >= 0
      /\ r >= 0 => v <= r
      /\ v > 0 => (v <= r /\ v <= x /\ (v = r \/ v = x))
      /\ r > 0 /\ x > 0 => v > 0
      /\ r >= 0 /\ r <= x => v = r
  BY <1>1, <1>2
<1> QED BY <1>3 DEF v, m

-----------------------------------------------------------------------------
(* The rules *)

\* The calendar: the next session is the first of the later ones.
LEMMA NextSessionIs ==
    ASSUME NEW d \in Nat
    PROVE  /\ NextSession(d) = NoDate => \A s \in Calendar : s <= d
           /\ NextSession(d) # NoDate =>
                 /\ NextSession(d) \in Calendar /\ d < NextSession(d)
                 /\ \A s \in Calendar : d < s => NextSession(d) <= s
<1> DEFINE later == {s \in Calendar : s > d}
<1>1. later \subseteq Nat /\ \A s \in later : s \in Calendar /\ s # 0 /\ d < s
  BY CalendarAssumption
<1>2. CASE later = {}
  <2>1. NextSession(d) = NoDate
    BY <1>2 DEF NextSession
  <2>2. \A s \in Calendar : s <= d
    BY <1>2, CalendarAssumption
  <2> QED BY <2>1, <2>2
<1>3. CASE later # {}
  <2>1. NextSession(d) = Min(later)
    BY <1>3 DEF NextSession
  <2> HIDE DEF later
  <2>2. \E m \in later : \A k \in later : m <= k
    BY <1>1, <1>3, NatMin
  <2>3. Min(later) \in later /\ \A k \in later : Min(later) <= k
    BY <2>2 DEF Min
  <2>4. \A s \in Calendar : d < s => s \in later
    BY CalendarAssumption DEF later
  <2> QED BY <1>1, <2>1, <2>3, <2>4 DEF NoDate
<1> QED BY <1>2, <1>3

\* decimal_yuan_to_fen: rounding half up never leaves the natural numbers.
LEMMA HalfUpIsNat ==
    ASSUME NEW n \in Nat
    PROVE  HalfUp(n, 10) \in Nat /\ HalfUp(n, 1000000) \in Nat
BY DEF HalfUp

LEMMA NotionalIsNat ==
    ASSUME NEW price \in Nat, NEW size \in Nat
    PROVE  NotionalFen(price, size) \in Nat
<1>1. price * size \in Nat
  OBVIOUS
<1> QED BY <1>1, HalfUpIsNat DEF NotionalFen

\* calculate_fees: the rate in force is one of the schedule.
LEMMA RateIsNat ==
    ASSUME NEW schedule, schedule \subseteq Schedule, NEW date \in Nat,
           Effective(schedule, date) # {}
    PROVE  RateOn(schedule, date) \in Nat
<1> DEFINE E == Effective(schedule, date)
           T == {date - r.from : r \in E}
<1>1. \A r \in E : r \in Schedule /\ r.from \in Nat /\ r.rate \in Nat /\ r.from <= date
  BY DEF Effective, Schedule
<1>2. T \subseteq Nat /\ T # {}
  BY <1>1
<1>3. PICK m \in T : \A k \in T : m <= k
  <2> HIDE DEF T
  <2> QED BY <1>2, NatMin
<1>4. PICK r \in E : m = date - r.from
  BY <1>3
<1>5. \A q \in E : q.from <= r.from
  <2> SUFFICES ASSUME NEW q \in E PROVE q.from <= r.from
    OBVIOUS
  <2>1. m <= date - q.from
    BY <1>3
  <2> HIDE DEF E
  <2> QED BY <1>1, <1>4, <2>1
<1> HIDE DEF E
<1>6. (CHOOSE x \in E : \A q \in E : q.from <= x.from) \in E
  BY <1>5
<1> QED BY <1>1, <1>6 DEF RateOn, E

\* What an order costs in fees, on a day the schedules cover.
LEMMA FeesAreNat ==
    ASSUME NEW y \in Symbols, NEW side \in {"buy", "sell"}, NEW date \in Nat,
           NEW price \in Nat, NEW size \in Nat, ~MissingSchedule(y, side, date)
    PROVE  TotalFees(y, side, date, price, size) \in Nat
<1>1. Kind[y] \in {"stock", "etf"}
  BY KindAssumption
<1>2. ASSUME NEW rate \in Nat PROVE RatedFen(price, size, rate) \in Nat
  <2>1. price * size \in Nat
    OBVIOUS
  <2>2. (price * size) * rate \in Nat
    BY <2>1
  <2> QED BY <2>2, HalfUpIsNat DEF RatedFen
<1>3. Commission(y, price, size) \in Nat
  <2>1. CommissionRate[Kind[y]] \in Nat /\ CommissionMin[Kind[y]] \in Nat
    BY <1>1, FeeAssumption
  <2>2. RatedFen(price, size, CommissionRate[Kind[y]]) \in Nat
    BY <1>2, <2>1
  <2> QED BY <2>1, <2>2 DEF Commission
<1>4. ASSUME NEW applies \in BOOLEAN, NEW schedule, schedule \subseteq Schedule,
             applies => Effective(schedule, date) # {}
      PROVE  Statutory(applies, schedule, date, price, size) \in Nat
  <2>1. CASE applies
    <3>1. RateOn(schedule, date) \in Nat
      BY <1>4, <2>1, RateIsNat
    <3>2. RatedFen(price, size, RateOn(schedule, date)) \in Nat
      BY <1>2, <3>1
    <3> QED BY <2>1, <3>2 DEF Statutory
  <2>2. CASE ~applies
    BY <2>2 DEF Statutory
  <2> QED BY <2>1, <2>2
<1>5. Statutory(Kind[y] = "stock", TransferFee, date, price, size) \in Nat
  BY <1>4, FeeAssumption DEF MissingSchedule
<1>6. Statutory(Kind[y] = "stock" /\ side = "sell", StampDuty, date, price, size) \in Nat
  BY <1>4, FeeAssumption DEF MissingSchedule
<1> HIDE DEF Statutory
<1> QED BY <1>3, <1>5, <1>6 DEF TotalFees

\* What a buy costs.
LEMMA BuyFees ==
    ASSUME NEW y \in Symbols, NEW date \in Nat, NEW price \in Nat, NEW size \in Nat,
           ~MissingSchedule(y, "buy", date)
    PROVE  TotalFees(y, "buy", date, price, size) \in Nat
BY FeesAreNat

\* evaluate_order: an order is allowed if no refusal applies, and the first one
\* that applies is the answer otherwise.
LEMMA AnswerIs ==
    ASSUME NEW o
    PROVE  /\ EvaluateOrder(o) = "allowed" => \A i \in 1 .. 12 : ~Refusals(o)[i][1]
           /\ EvaluateOrder(o) # "allowed" =>
                 \E i \in 1 .. 12 :
                    /\ Refusals(o)[i][1] /\ EvaluateOrder(o) = Refusals(o)[i][2]
                    /\ \A k \in 1 .. i - 1 : ~Refusals(o)[k][1]
<1> DEFINE R == Refusals(o)
           failing == {i \in DOMAIN R : R[i][1]}
<1>1. DOMAIN R = 1 .. 12
  BY DEF Refusals
<1>2. \A i \in 1 .. 12 : R[i][2] # "allowed"
  BY DEF Refusals
<1> HIDE DEF R
<1>3. CASE failing = {}
  BY <1>1, <1>3 DEF EvaluateOrder, R
<1>4. CASE failing # {}
  <2>1. EvaluateOrder(o) = R[Min(failing)][2]
    BY <1>4 DEF EvaluateOrder, R
  <2>2. failing \subseteq Nat
    BY <1>1
  <2> HIDE DEF failing
  <2>3. \E m \in failing : \A k \in failing : m <= k
    BY <1>4, <2>2, NatMin
  <2>4. Min(failing) \in failing /\ \A k \in failing : Min(failing) <= k
    BY <2>3 DEF Min
  <2> DEFINE m == Min(failing)
  <2>5. EvaluateOrder(o) = R[m][2] /\ m \in failing /\ \A k \in failing : m <= k
    BY <2>1, <2>4
  <2> HIDE DEF m
  <2>6. m \in 1 .. 12 /\ R[m][1] /\ \A k \in 1 .. m - 1 : ~R[k][1]
    BY <1>1, <2>5 DEF failing
  <2> QED BY <1>2, <2>5, <2>6 DEF R
<1> QED BY <1>3, <1>4

\* An allowed buy is of whole board lots and is paid for, on a day with fees.
LEMMA AllowedBuy ==
    ASSUME NEW o, o.side = "buy", EvaluateOrder(o) = "allowed"
    PROVE  LET target == NextSession(o.signal) IN
           /\ ~(o.size <= 0) /\ o.size % LotSize = 0
           /\ ~MissingSchedule(o.symbol, "buy", target)
           /\ ~(o.cash < NotionalFen(o.open, o.size)
                         + TotalFees(o.symbol, "buy", target, o.open, o.size))
<1>1. \A i \in 1 .. 12 : ~Refusals(o)[i][1]
  BY AnswerIs
<1>2. ~Refusals(o)[6][1] /\ ~Refusals(o)[7][1] /\ ~Refusals(o)[11][1] /\ ~Refusals(o)[12][1]
  BY <1>1
<1>3. /\ Refusals(o)[6][1] = (o.size <= 0)
      /\ Refusals(o)[7][1] = (o.side = "buy" /\ o.size % LotSize # 0)
      /\ Refusals(o)[11][1] = MissingSchedule(o.symbol, o.side, NextSession(o.signal))
      /\ Refusals(o)[12][1] =
            (/\ ~MissingSchedule(o.symbol, o.side, NextSession(o.signal))
             /\ o.side = "buy"
             /\ o.cash < NotionalFen(o.open, o.size)
                  + TotalFees(o.symbol, o.side, NextSession(o.signal), o.open, o.size))
  BY DEF Refusals
<1> QED BY <1>2, <1>3

\* A buy refused for cash could not be paid.
LEMMA DearBuy ==
    ASSUME NEW o, o.side = "buy", EvaluateOrder(o) = "insufficient_cash"
    PROVE  o.cash < NotionalFen(o.open, o.size)
                    + TotalFees(o.symbol, "buy", NextSession(o.signal), o.open, o.size)
<1>1. PICK i \in 1 .. 12 : Refusals(o)[i][1] /\ "insufficient_cash" = Refusals(o)[i][2]
  BY AnswerIs
<1>2. \A k \in 1 .. 11 : Refusals(o)[k][2] # "insufficient_cash"
  BY DEF Refusals
<1>3. i = 12
  BY <1>1, <1>2
<1>4. Refusals(o)[12][1]
  BY <1>1, <1>3
<1>5. Refusals(o)[12][1] =
            (/\ ~MissingSchedule(o.symbol, o.side, NextSession(o.signal))
             /\ o.side = "buy"
             /\ o.cash < NotionalFen(o.open, o.size)
                  + TotalFees(o.symbol, o.side, NextSession(o.signal), o.open, o.size))
  BY DEF Refusals
<1> QED BY <1>4, <1>5

\* A finite set of numbers has a greatest element.
LEMMA FiniteMax ==
    ASSUME NEW S, S \subseteq Nat, S # {}, IsFiniteSet(S)
    PROVE  Max(S) \in S /\ \A k \in S : k <= Max(S)
<1> DEFINE Bounded(t) == \E m \in t : \A k \in t : k <= m
           B == {t \in SUBSET S : t # {} /\ ~Bounded(t)}
<1>1. B = {}
  <2> SUFFICES ASSUME B # {} PROVE FALSE
    OBVIOUS
  <2>1. \A t \in B : IsFiniteSet(t)
    BY FS_Subset
  <2>2. PICK t \in B : \A u \in B : Cardinality(t) <= Cardinality(u)
    <3> HIDE DEF B
    <3> QED BY <2>1, SmallestSet
  <2>3. PICK x \in t : TRUE
    BY <2>2
  <2>4. IsFiniteSet(t) /\ Cardinality(t) \in Nat /\ Cardinality(t \ {x}) = Cardinality(t) - 1
    BY <2>1, <2>2, <2>3, FS_RemoveElement, FS_CardinalityType
  <2>5. ~(Cardinality(t) <= Cardinality(t \ {x}))
    BY <2>4
  <2>6. t \ {x} \notin B
    BY <2>2, <2>5
  <2>7. CASE t \ {x} = {}
    <3>1. t = {x} /\ x \in Nat
      BY <2>2, <2>3, <2>7
    <3>2. Bounded(t)
      BY <3>1
    <3> QED BY <2>2, <3>2
  <2>8. CASE t \ {x} # {}
    <3>1. Bounded(t \ {x})
      BY <2>2, <2>6, <2>8
    <3>2. PICK m \in t \ {x} : \A k \in t \ {x} : k <= m
      BY <3>1
    <3>3. x \in Nat /\ m \in Nat /\ t \subseteq Nat
      BY <2>2, <2>3, <3>2
    <3>4. CASE x <= m
      <4>1. \A k \in t : k <= m
        BY <3>2, <3>4
      <4>2. Bounded(t)
        BY <3>2, <4>1
      <4> QED BY <2>2, <4>2
    <3>5. CASE ~(x <= m)
      <4>1. \A k \in t : k <= x
        BY <3>2, <3>3, <3>5
      <4>2. Bounded(t)
        BY <2>3, <4>1
      <4> QED BY <2>2, <4>2
    <3> QED BY <3>4, <3>5
  <2> QED BY <2>7, <2>8
<1>2. \E m \in S : \A k \in S : k <= m
  BY <1>1
<1>3. \A m, k \in S : k <= m <=> m >= k
  OBVIOUS
<1> QED BY <1>2, <1>3 DEF Max

\* The least of a non-empty set of numbers.
LEMMA MinIs ==
    ASSUME NEW S, S \subseteq Nat, S # {}
    PROVE  Min(S) \in S /\ \A k \in S : Min(S) <= k
BY NatMin DEF Min

\* Values that add nothing.
LEMMA SumOfZeros ==
    ASSUME NEW f, IsFiniteSet(DOMAIN f), \A x \in DOMAIN f : f[x] = 0
    PROVE  SumFunction(f) = 0
<1>1. Counts(f)
  BY DEF Counts
<1>2. Area(f, DOMAIN f) = {}
  BY DEF Area
<1> QED BY <1>1, <1>2, SumIsArea, FS_EmptySet

\* A sum splits along any division of its domain.
LEMMA SumSplits ==
    ASSUME NEW f, Counts(f), NEW S, NEW T, DOMAIN f = S \cup T, S \cap T = {}
    PROVE  SumFunction(f) = SumFunction([x \in S |-> f[x]]) + SumFunction([x \in T |-> f[x]])
<1> DEFINE A == Area(f, S)
           B == Area(f, T)
<1>1. Area(f, DOMAIN f) = A \cup B /\ A \cap B = {}
  BY DEF Area
<1>2. IsFiniteSet(A) /\ IsFiniteSet(B)
  BY AreaFinite
<1>3. S \in SUBSET DOMAIN f /\ T \in SUBSET DOMAIN f
  OBVIOUS
<1>4. /\ SumFunction([x \in S |-> f[x]]) = Cardinality(A)
      /\ SumFunction([x \in T |-> f[x]]) = Cardinality(B)
  BY <1>3, SumOfPart
<1> HIDE DEF A, B
<1>5. Cardinality(A \cup B) = Cardinality(A) + Cardinality(B)
  <2>1. Cardinality(A \cup B) = Cardinality(A) + Cardinality(B) - Cardinality(A \cap B)
    BY <1>2, FS_Union
  <2>2. Cardinality(A \cap B) = 0
    BY <1>1, FS_EmptySet
  <2>3. Cardinality(A) \in Nat /\ Cardinality(B) \in Nat
    BY <1>2, FS_CardinalityType
  <2> QED BY <2>1, <2>2, <2>3
<1> QED BY <1>1, <1>4, <1>5, SumIsArea

\* Values of nothing can be left out of a sum.
LEMMA SumSkipsZeros ==
    ASSUME NEW f, Counts(f), NEW S \in SUBSET DOMAIN f, \A x \in DOMAIN f \ S : f[x] = 0
    PROVE  SumFunction(f) = SumFunction([x \in S |-> f[x]])
<1> DEFINE T == DOMAIN f \ S
           g == [x \in T |-> f[x]]
<1>1. SumFunction(f) = SumFunction([x \in S |-> f[x]]) + SumFunction(g)
  BY SumSplits
<1>2. SumFunction(g) = 0
  <2>1. IsFiniteSet(T)
    BY FS_Subset DEF Counts
  <2> QED BY <2>1, SumOfZeros
<1>3. SumFunction([x \in S |-> f[x]]) \in Nat
  BY SumOfPart, SumIsNat
<1> HIDE DEF g
<1> QED BY <1>1, <1>2, <1>3

\* Sums of functions that agree.
LEMMA SumOfSame ==
    ASSUME NEW f, Counts(f), NEW g, DOMAIN g = DOMAIN f, \A x \in DOMAIN f : g[x] = f[x]
    PROVE  SumFunction(g) = SumFunction(f)
<1>1. Counts(g)
  BY DEF Counts
<1>2. Area(g, DOMAIN g) = Area(f, DOMAIN f)
  BY AreaOfSame
<1> QED BY <1>1, <1>2, SumIsArea

\* A sum with one value more.
LEMMA SumOfMore ==
    ASSUME NEW f, Counts(f), NEW n \in DOMAIN f, NEW g, DOMAIN g = DOMAIN f \ {n},
           \A x \in DOMAIN g : g[x] = f[x]
    PROVE  SumFunction(f) = f[n] + SumFunction(g)
<1> DEFINE h == [x \in DOMAIN f \ {n} |-> f[x]]
<1>1. SumFunction(f) = f[n] + SumFunction(h)
  BY SumTakesOut
<1>2. Counts(h)
  BY SumOfPart
<1>3. DOMAIN g = DOMAIN h /\ \A x \in DOMAIN h : g[x] = h[x]
  OBVIOUS
<1> HIDE DEF h
<1>4. SumFunction(g) = SumFunction(h)
  BY <1>2, <1>3, SumOfSame
<1> QED BY <1>1, <1>4

\* Lots of which one holds everything: what any part of them adds up to.
LEMMA SoleLot ==
    ASSUME NEW s, Sized(s), NEW n \in DOMAIN s,
           \A k \in DOMAIN s \ {n} : s[k].remaining = 0, NEW S \in SUBSET DOMAIN s
    PROVE  SizeOf(s, S) = IF n \in S THEN s[n].remaining ELSE 0
<1> DEFINE f == [k \in S |-> s[k].remaining]
<1>1. SizeOf(s, S) = SumFunction(f) /\ DOMAIN f = S /\ \A k \in S : f[k] = s[k].remaining
  BY DEF SizeOf
<1>2. IsFiniteSet(S) /\ \A k \in S : s[k].remaining \in Nat
  BY FS_Subset DEF Sized
<1> HIDE DEF f
<1>3. Counts(f)
  BY <1>1, <1>2 DEF Counts
<1>4. CASE n \notin S
  BY <1>1, <1>2, <1>4, SumOfZeros
<1>5. CASE n \in S
  <2> DEFINE g == [k \in DOMAIN f \ {n} |-> f[k]]
  <2>1. SumFunction(f) = f[n] + SumFunction(g)
    BY <1>1, <1>3, <1>5, SumTakesOut
  <2>2. IsFiniteSet(DOMAIN g) /\ \A k \in DOMAIN g : g[k] = 0
    BY <1>1, <1>2, FS_Subset
  <2>3. SumFunction(g) = 0
    <3> HIDE DEF g
    <3> QED BY <2>2, SumOfZeros
  <2>4. f[n] \in Nat
    BY <1>1, <1>2, <1>5
  <2> HIDE DEF g
  <2> QED BY <1>1, <1>5, <2>1, <2>3, <2>4
<1> QED BY <1>4, <1>5

\* Lots of which nothing is left.
LEMMA NoLot ==
    ASSUME NEW s, IsFiniteSet(DOMAIN s), \A k \in DOMAIN s : s[k].remaining = 0,
           NEW S \in SUBSET DOMAIN s
    PROVE  SizeOf(s, S) = 0
<1> DEFINE f == [k \in S |-> s[k].remaining]
<1>1. IsFiniteSet(DOMAIN f) /\ \A k \in DOMAIN f : f[k] = 0
  BY FS_Subset
<1>2. SumFunction(f) = 0
  <2> HIDE DEF f
  <2> QED BY <1>1, SumOfZeros
<1> QED BY <1>2 DEF SizeOf

\* An allowed order, or one refused for a reason, by name.
LEMMA AllowedOrder ==
    ASSUME NEW o, EvaluateOrder(o) = "allowed"
    PROVE  LET target == NextSession(o.signal) IN
           /\ target # NoDate /\ ~(o.size <= 0)
           /\ o.side = "buy" => NextSession(target) # NoDate /\ o.size % LotSize = 0
           /\ ~MissingSchedule(o.symbol, o.side, target)
           /\ o.side = "buy" =>
                 ~(o.cash < NotionalFen(o.open, o.size)
                            + TotalFees(o.symbol, o.side, target, o.open, o.size))
<1>1. \A i \in 1 .. 12 : ~Refusals(o)[i][1]
  BY AnswerIs
<1>2. /\ ~Refusals(o)[2][1] /\ ~Refusals(o)[4][1] /\ ~Refusals(o)[6][1]
      /\ ~Refusals(o)[7][1] /\ ~Refusals(o)[11][1] /\ ~Refusals(o)[12][1]
  BY <1>1
<1>3. /\ Refusals(o)[2][1] = (NextSession(o.signal) = NoDate)
      /\ Refusals(o)[4][1] =
            (o.side = "buy" /\ NextSession(NextSession(o.signal)) = NoDate)
      /\ Refusals(o)[6][1] = (o.size <= 0)
      /\ Refusals(o)[7][1] = (o.side = "buy" /\ o.size % LotSize # 0)
      /\ Refusals(o)[11][1] = MissingSchedule(o.symbol, o.side, NextSession(o.signal))
      /\ Refusals(o)[12][1] =
            (/\ ~MissingSchedule(o.symbol, o.side, NextSession(o.signal)) /\ o.side = "buy"
             /\ o.cash < NotionalFen(o.open, o.size)
                         + TotalFees(o.symbol, o.side, NextSession(o.signal), o.open, o.size))
  BY DEF Refusals
<1> QED BY <1>2, <1>3

\* What a refused order is told.
Reasons == {"missing_calendar_coverage", "no_next_session_in_range", "suspended_no_bar",
            "missing_previous_close", "invalid_lot_size", "insufficient_sellable_position",
            "price_limit_open", "missing_fee_schedule", "insufficient_cash"}

\* Why an order is refused, reason by reason.
LEMMA RefusedOrder ==
    ASSUME NEW o, NEW r, EvaluateOrder(o) = r, r # "allowed"
    PROVE  /\ r \in Reasons
           /\ r = "suspended_no_bar" => ~o.hasBar
           /\ r = "no_next_session_in_range" =>
                 \/ NextSession(o.signal) = NoDate
                 \/ o.side = "buy" /\ NextSession(NextSession(o.signal)) = NoDate
           /\ r = "insufficient_sellable_position" =>
                 o.side = "sell" /\ SellableSize(o.lots, NextSession(o.signal)) < o.size
           /\ r = "invalid_lot_size" /\ o.side = "sell" =>
                 \/ o.size <= 0
                 \/ ~ValidSellSize(SellableSize(o.lots, NextSession(o.signal)), o.size)
<1>1. PICK i \in 1 .. 12 : Refusals(o)[i][1] /\ r = Refusals(o)[i][2]
  BY AnswerIs
<1>2. /\ Refusals(o)[1][2] = "missing_calendar_coverage"
      /\ Refusals(o)[2][2] = "no_next_session_in_range"
      /\ Refusals(o)[3][2] = "suspended_no_bar"
      /\ Refusals(o)[4][2] = "no_next_session_in_range"
      /\ Refusals(o)[5][2] = "missing_previous_close"
      /\ Refusals(o)[6][2] = "invalid_lot_size"
      /\ Refusals(o)[7][2] = "invalid_lot_size"
      /\ Refusals(o)[8][2] = "insufficient_sellable_position"
      /\ Refusals(o)[9][2] = "invalid_lot_size"
      /\ Refusals(o)[10][2] = "price_limit_open"
      /\ Refusals(o)[11][2] = "missing_fee_schedule"
      /\ Refusals(o)[12][2] = "insufficient_cash"
  BY DEF Refusals
<1>3. /\ Refusals(o)[2][1] = (NextSession(o.signal) = NoDate)
      /\ Refusals(o)[3][1] = ~o.hasBar
      /\ Refusals(o)[4][1] =
            (o.side = "buy" /\ NextSession(NextSession(o.signal)) = NoDate)
      /\ Refusals(o)[6][1] = (o.size <= 0)
      /\ Refusals(o)[7][1] = (o.side = "buy" /\ o.size % LotSize # 0)
      /\ Refusals(o)[8][1] =
            (o.side = "sell" /\ SellableSize(o.lots, NextSession(o.signal)) < o.size)
      /\ Refusals(o)[9][1] =
            (/\ o.side = "sell"
             /\ ~ValidSellSize(SellableSize(o.lots, NextSession(o.signal)), o.size))
  BY DEF Refusals
<1>4. \/ i = 1 \/ i = 2 \/ i = 3 \/ i = 4 \/ i = 5 \/ i = 6
      \/ i = 7 \/ i = 8 \/ i = 9 \/ i = 10 \/ i = 11 \/ i = 12
  BY <1>1
<1> QED
  <2> DEFINE A(k) == Refusals(o)[k][1]
             B(k) == Refusals(o)[k][2]
  <2>1. A(i) /\ r = B(i)
    BY <1>1
  <2>2. /\ B(1) = "missing_calendar_coverage" /\ B(2) = "no_next_session_in_range"
        /\ B(3) = "suspended_no_bar" /\ B(4) = "no_next_session_in_range"
        /\ B(5) = "missing_previous_close" /\ B(6) = "invalid_lot_size"
        /\ B(7) = "invalid_lot_size" /\ B(8) = "insufficient_sellable_position"
        /\ B(9) = "invalid_lot_size" /\ B(10) = "price_limit_open"
        /\ B(11) = "missing_fee_schedule" /\ B(12) = "insufficient_cash"
    BY <1>2
  <2>3. /\ A(2) = (NextSession(o.signal) = NoDate)
        /\ A(3) = ~o.hasBar
        /\ A(4) = (o.side = "buy" /\ NextSession(NextSession(o.signal)) = NoDate)
        /\ A(6) = (o.size <= 0)
        /\ A(7) = (o.side = "buy" /\ o.size % LotSize # 0)
        /\ A(8) = (o.side = "sell" /\ SellableSize(o.lots, NextSession(o.signal)) < o.size)
        /\ A(9) = (/\ o.side = "sell"
                   /\ ~ValidSellSize(SellableSize(o.lots, NextSession(o.signal)), o.size))
    BY <1>3
  <2> HIDE DEF A, B
  <2>4. r \in Reasons
    BY <2>1, <2>2, <1>4 DEF Reasons
  <2>5. /\ r = "suspended_no_bar" => A(3)
        /\ r = "no_next_session_in_range" => A(2) \/ A(4)
        /\ r = "insufficient_sellable_position" => A(8)
        /\ r = "invalid_lot_size" => A(6) \/ A(7) \/ A(9)
    BY <2>1, <2>2, <1>4
  <2>6. o.side = "sell" => o.side # "buy"
    OBVIOUS
  <2> QED BY <2>3, <2>4, <2>5, <2>6

\* The price limit comes before the cash: an order the limit does not refuse is
\* allowed, or refused for something else.  Only buys want cash.
LEMMA LimitDecides ==
    ASSUME NEW o, NEW r, EvaluateOrder(o) = r
    PROVE  LET limit == LimitOpen(o.symbol, o.side, o.previousClose, o.open) IN
           /\ r = "price_limit_open" => limit
           /\ r \in {"allowed", "insufficient_cash"} => ~limit
           /\ r = "insufficient_cash" => o.side = "buy"
<1> DEFINE A(k) == Refusals(o)[k][1]
           B(k) == Refusals(o)[k][2]
           limit == LimitOpen(o.symbol, o.side, o.previousClose, o.open)
<1>1. /\ B(1) = "missing_calendar_coverage" /\ B(2) = "no_next_session_in_range"
      /\ B(3) = "suspended_no_bar" /\ B(4) = "no_next_session_in_range"
      /\ B(5) = "missing_previous_close" /\ B(6) = "invalid_lot_size"
      /\ B(7) = "invalid_lot_size" /\ B(8) = "insufficient_sellable_position"
      /\ B(9) = "invalid_lot_size" /\ B(10) = "price_limit_open"
      /\ B(11) = "missing_fee_schedule" /\ B(12) = "insufficient_cash"
  BY DEF Refusals
<1>2. A(10) = limit
  BY DEF Refusals
<1>3. A(12) => o.side = "buy"
  BY DEF Refusals
<1>4. CASE r = "allowed"
  <2>1. ~A(10)
    BY <1>4, AnswerIs
  <2> HIDE DEF A, B, limit
  <2> QED BY <1>2, <1>4, <2>1 DEF limit
<1>5. CASE r # "allowed"
  <2>1. PICK i \in 1 .. 12 : A(i) /\ r = B(i) /\ \A k \in 1 .. i - 1 : ~A(k)
    BY <1>5, AnswerIs
  <2>2. \/ i = 1 \/ i = 2 \/ i = 3 \/ i = 4 \/ i = 5 \/ i = 6
        \/ i = 7 \/ i = 8 \/ i = 9 \/ i = 10 \/ i = 11 \/ i = 12
    BY <2>1
  <2> HIDE DEF A, B, limit
  <2>3. r = "price_limit_open" => i = 10
    BY <1>1, <2>1, <2>2
  <2>4. r = "insufficient_cash" => i = 12
    BY <1>1, <2>1, <2>2
  <2>5. r = "insufficient_cash" => ~A(10) /\ A(12)
    BY <2>1, <2>4
  <2> QED BY <1>2, <1>3, <1>5, <2>1, <2>3, <2>5 DEF limit
<1> QED BY <1>4, <1>5

-----------------------------------------------------------------------------
(* What consume_fifo takes *)

\* Sums of sums.
LEMMA SumAdds ==
    ASSUME NEW f, Counts(f), NEW g, Counts(g), NEW h, Counts(h),
           DOMAIN f = DOMAIN h, DOMAIN g = DOMAIN h,
           \A x \in DOMAIN h : h[x] = f[x] + g[x]
    PROVE  SumFunction(h) = SumFunction(f) + SumFunction(g)
<1> DEFINE D == DOMAIN h
           Part(e, S) == SumFunction([x \in S |-> e[x]])
           B == {S \in SUBSET D : Part(h, S) # Part(f, S) + Part(g, S)}
<1>1. B = {}
  <2> SUFFICES ASSUME B # {} PROVE FALSE
    OBVIOUS
  <2>1. \A S \in B : IsFiniteSet(S)
    BY FS_Subset DEF Counts
  <2>2. PICK S \in B : \A T \in B : Cardinality(S) <= Cardinality(T)
    <3> HIDE DEF B
    <3> QED BY <2>1, SmallestSet
  <2>3. S \in SUBSET D /\ Part(h, S) # Part(f, S) + Part(g, S)
    BY <2>2
  <2>4. ASSUME NEW e, Counts(e), DOMAIN e = D, NEW x \in S
        PROVE  Part(e, S) = e[x] + Part(e, S \ {x}) /\ Part(e, S \ {x}) \in Nat
               /\ e[x] \in Nat
    <3> DEFINE p == [y \in S |-> e[y]]
    <3>1. Counts(p) /\ DOMAIN p = S /\ p[x] = e[x]
      BY <2>1, <2>2, <2>4, <2>3 DEF Counts
    <3>2. [y \in DOMAIN p \ {x} |-> p[y]] = [y \in S \ {x} |-> e[y]]
      OBVIOUS
    <3>3. Counts([y \in S \ {x} |-> e[y]])
      <4>1. IsFiniteSet(S \ {x})
        BY <2>1, <2>2, FS_Subset
      <4> QED BY <4>1, <2>4, <2>3 DEF Counts
    <3>4. SumFunction([y \in S \ {x} |-> e[y]]) \in Nat
      BY <3>3, SumIsNat
    <3>5. e[x] \in Nat
      BY <2>3, <2>4 DEF Counts
    <3> HIDE DEF p
    <3>6. SumFunction(p) = p[x] + SumFunction([y \in DOMAIN p \ {x} |-> p[y]])
      BY <3>1, SumTakesOut
    <3> QED BY <3>1, <3>2, <3>4, <3>5, <3>6 DEF p
  <2>5. CASE S = {}
    <3>1. \A e : Part(e, S) = 0
      <4>1. \A e : [x \in S |-> e[x]] = [x \in {} |-> 0]
        BY <2>5
      <4> QED BY <4>1, SumOfNothing
    <3> HIDE DEF Part
    <3> QED BY <2>3, <3>1
  <2>6. CASE S # {}
    <3>1. PICK x \in S : TRUE
      BY <2>6
    <3>2. S \ {x} \notin B
      <4>1. Cardinality(S) \in Nat /\ Cardinality(S \ {x}) = Cardinality(S) - 1
        BY <2>1, <2>2, <3>1, FS_RemoveElement, FS_CardinalityType
      <4>2. ~(Cardinality(S) <= Cardinality(S \ {x}))
        BY <4>1
      <4> HIDE DEF B
      <4> QED BY <2>2, <4>2
    <3>3. Part(h, S \ {x}) = Part(f, S \ {x}) + Part(g, S \ {x})
      BY <2>3, <3>2
    <3>4. /\ Part(h, S) = h[x] + Part(h, S \ {x}) /\ Part(h, S \ {x}) \in Nat /\ h[x] \in Nat
          /\ Part(f, S) = f[x] + Part(f, S \ {x}) /\ Part(f, S \ {x}) \in Nat /\ f[x] \in Nat
          /\ Part(g, S) = g[x] + Part(g, S \ {x}) /\ Part(g, S \ {x}) \in Nat /\ g[x] \in Nat
      <4> HIDE DEF Part
      <4> QED BY <2>4, <3>1
    <3>5. h[x] = f[x] + g[x]
      BY <2>3, <3>1
    <3> HIDE DEF Part
    <3> QED BY <2>3, <3>3, <3>4, <3>5
  <2> QED BY <2>5, <2>6
<1>2. D \notin B
  BY <1>1
<1>3. Part(h, D) = Part(f, D) + Part(g, D)
  BY <1>2
<1>4. ASSUME NEW e, Counts(e), DOMAIN e = D PROVE Part(e, D) = SumFunction(e)
  <2>1. DOMAIN [x \in D |-> e[x]] = DOMAIN e /\ \A x \in DOMAIN e : [z \in D |-> e[z]][x] = e[x]
    BY <1>4
  <2> QED BY <1>4, <2>1, SumOfSame
<1> HIDE DEF Part, D
<1> QED BY <1>3, <1>4 DEF D

\* First in, first out takes no more of a lot than there is, and in all what was
\* asked for, if the lots have it: by induction over the lots, what the first of
\* them give is all they have, until it is all that was asked for.
LEMMA FifoTakesAll ==
    ASSUME NEW s, Sized(s), NEW G \in SUBSET DOMAIN s, G \subseteq Nat,
           NEW n \in Nat, n <= SizeOf(s, G)
    PROVE  LET t == ConsumeFifo(s, G, n)
           IN  /\ \A k \in G : t[k] \in Nat /\ t[k] <= s[k].remaining
               /\ SumFunction([k \in G |-> t[k]]) = n
<1> DEFINE t == ConsumeFifo(s, G, n)
           A(m) == {j \in G : j < m}
           Taken(m) == SumFunction([k \in A(m) |-> t[k]])
           Least(a, b) == IF a <= b THEN a ELSE b
           P(m) == Taken(m) = Least(n, SizeOf(s, A(m)))
           T == {m \in Nat : ~P(m)}
<1>1. \A m : A(m) \in SUBSET DOMAIN s /\ A(m) \subseteq G
  OBVIOUS
<1>2. \A m : SizeOf(s, A(m)) \in Nat
  <2> HIDE DEF A
  <2> QED BY <1>1, SizesAddUp
<1>3. ASSUME NEW k \in G
      PROVE  LET x == n - SizeOf(s, A(k))
                 r == s[k].remaining
             IN  /\ r \in Nat /\ t[k] \in Nat /\ t[k] <= r
                 /\ x <= 0 => t[k] = 0
                 /\ x >= r => t[k] = r
                 /\ 0 < x /\ x < r => t[k] = x
  <2> DEFINE x == n - SizeOf(s, A(k))
             r == s[k].remaining
             v == Max({0, Min({r, x})})
  <2>1. t[k] = v
    BY DEF ConsumeFifo
  <2>2. r \in Nat
    BY DEF Sized
  <2>3. x \in Int
    BY <1>2
  <2> HIDE DEF x, r
  <2>4. /\ v \in Int /\ v >= 0
        /\ r >= 0 => v <= r
        /\ v > 0 => (v <= r /\ v <= x /\ (v = r \/ v = x))
        /\ r > 0 /\ x > 0 => v > 0
        /\ r >= 0 /\ r <= x => v = r
    BY <2>2, <2>3, TakeIs
  <2> HIDE DEF v, t, A
  <2> QED BY <2>1, <2>2, <2>3, <2>4 DEF x, r
<1>4. \A m : Counts([k \in A(m) |-> t[k]])
  <2> SUFFICES ASSUME NEW m PROVE Counts([k \in A(m) |-> t[k]])
    OBVIOUS
  <2>1. IsFiniteSet(A(m))
    BY <1>1, FS_Subset DEF Sized
  <2>2. \A k \in A(m) : t[k] \in Nat
    BY <1>1, <1>3
  <2> HIDE DEF A, t
  <2> QED BY <2>1, <2>2 DEF Counts
<1>5. P(0)
  <2>1. A(0) = {}
    BY SMT
  <2>2. [k \in A(0) |-> t[k]] = [k \in {} |-> 0]
    BY <2>1
  <2>3. Taken(0) = 0
    BY <2>2, SumOfNothing
  <2>4. SizeOf(s, A(0)) = 0
    <3>1. [k \in A(0) |-> s[k].remaining] = [k \in {} |-> 0]
      BY <2>1
    <3> QED BY <3>1, SumOfNothing DEF SizeOf
  <2> HIDE DEF Taken, A
  <2> QED BY <2>3, <2>4
<1>6. ASSUME NEW m \in Nat, P(m) PROVE P(m + 1)
  <2>1. CASE m \notin G
    <3>1. A(m + 1) = A(m)
      BY <2>1
    <3> HIDE DEF A, t
    <3> QED BY <1>6, <3>1
  <2>2. CASE m \in G
    <3>1. A(m + 1) = A(m) \cup {m} /\ m \notin A(m) /\ A(m + 1) \ {m} = A(m)
      BY <2>2
    <3> HIDE DEF A, t
    <3>2. ASSUME NEW e, Counts([k \in A(m+1) |-> e[k]])
          PROVE  SumFunction([k \in A(m+1) |-> e[k]])
                   = e[m] + SumFunction([k \in A(m) |-> e[k]])
      <4> DEFINE p == [k \in A(m+1) |-> e[k]]
      <4>1. DOMAIN p = A(m+1) /\ m \in DOMAIN p /\ p[m] = e[m]
        BY <3>1
      <4>2. [k \in DOMAIN p \ {m} |-> p[k]] = [k \in A(m) |-> e[k]]
        BY <3>1
      <4>3. Counts(p)
        BY <3>2
      <4> HIDE DEF p
      <4>4. SumFunction(p) = p[m] + SumFunction([k \in DOMAIN p \ {m} |-> p[k]])
        BY <4>1, <4>3, SumTakesOut
      <4> QED BY <4>1, <4>2, <4>4 DEF p
    <3>3. Taken(m+1) = t[m] + Taken(m)
      BY <1>4, <3>2
    <3>4. SizeOf(s, A(m+1)) = s[m].remaining + SizeOf(s, A(m))
      <4> DEFINE q == [k \in DOMAIN s |-> s[k].remaining]
      <4>1. \A k \in A(m+1) : q[k] = s[k].remaining
        BY <1>1
      <4>2. \A k \in A(m) : q[k] = s[k].remaining
        BY <1>1
      <4>3. q[m] = s[m].remaining
        BY <2>2
      <4>4. Counts([k \in A(m+1) |-> q[k]])
        <5>1. IsFiniteSet(A(m+1))
          BY <1>1, FS_Subset DEF Sized
        <5>2. \A k \in A(m+1) : q[k] \in Nat
          BY <1>1 DEF Sized
        <5> HIDE DEF q
        <5> QED BY <5>1, <5>2 DEF Counts
      <4>5. /\ [k \in A(m+1) |-> q[k]] = [k \in A(m+1) |-> s[k].remaining]
            /\ [k \in A(m) |-> q[k]] = [k \in A(m) |-> s[k].remaining]
        BY <4>1, <4>2
      <4> HIDE DEF q
      <4>6. SumFunction([k \in A(m+1) |-> q[k]]) = q[m] + SumFunction([k \in A(m) |-> q[k]])
        BY <3>2, <4>4
      <4> QED BY <4>3, <4>5, <4>6 DEF SizeOf
    <3> DEFINE z == SizeOf(s, A(m))
               r == s[m].remaining
    <3>5. z \in Nat /\ r \in Nat /\ t[m] \in Nat
      BY <1>2, <1>3, <2>2
    <3>6. /\ n - z <= 0 => t[m] = 0
          /\ n - z >= r => t[m] = r
          /\ 0 < n - z /\ n - z < r => t[m] = n - z
      BY <1>3, <2>2
    <3>7. Taken(m) = Least(n, z) /\ Taken(m+1) = t[m] + Taken(m) /\ SizeOf(s, A(m+1)) = r + z
      BY <1>6, <3>3, <3>4
    <3> HIDE DEF z, r, Taken
    <3>8. Taken(m+1) = Least(n, r + z)
      BY <3>5, <3>6, <3>7
    <3> QED BY <3>7, <3>8
  <2> QED BY <2>1, <2>2
<1> HIDE DEF P
<1>7. \A m \in Nat : P(m)
  <2> SUFFICES ASSUME T # {} PROVE FALSE
    OBVIOUS
  <2>1. PICK m \in T : \A k \in T : m <= k
    <3>1. T \subseteq Nat
      OBVIOUS
    <3> HIDE DEF T
    <3> QED BY <3>1, NatMin
  <2>2. m \in Nat /\ ~P(m) /\ m # 0
    BY <1>5, <2>1
  <2>3. m - 1 \in Nat /\ ~(m <= m - 1) /\ (m - 1) + 1 = m
    BY <2>2
  <2>4. P(m - 1)
    BY <2>1, <2>3
  <2>5. P((m - 1) + 1)
    BY <1>6, <2>3, <2>4
  <2> QED BY <2>2, <2>3, <2>5
<1>8. \E m \in Nat : A(m) = G
  <2>1. CASE G = {}
    BY <2>1
  <2>2. CASE G # {}
    <3>1. IsFiniteSet(G)
      BY FS_Subset DEF Sized
    <3>2. Max(G) \in G /\ \A k \in G : k <= Max(G)
      BY <2>2, <3>1, FiniteMax
    <3> DEFINE x == Max(G)
    <3>3. x \in Nat /\ \A k \in G : k <= x
      BY <3>2
    <3> HIDE DEF x
    <3>4. x + 1 \in Nat /\ \A k \in G : k < x + 1
      BY <3>3
    <3> QED BY <3>4
  <2> QED BY <2>1, <2>2
<1>9. SumFunction([k \in G |-> t[k]]) = n
  <2>1. PICK m \in Nat : A(m) = G
    BY <1>8
  <2>2. P(m) /\ SizeOf(s, A(m)) = SizeOf(s, G) /\ SizeOf(s, G) \in Nat
    BY <1>2, <1>7, <2>1
  <2>3. Taken(m) = n
    <3> HIDE DEF Taken, A
    <3> QED BY <2>2 DEF P
  <2> QED BY <2>1, <2>3
<1> QED BY <1>3, <1>9

=============================================================================
