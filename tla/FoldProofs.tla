----------------------------- MODULE FoldProofs -----------------------------
(***************************************************************************)
(* Sums, products and folds: what the loops of the code compute, for       *)
(* collections of any size.  The models write a loop as a fold of the      *)
(* community modules, which choose the table of the fold; these lemmas say *)
(* that there is exactly one table and how it grows by an element.         *)
(***************************************************************************)
EXTENDS Integers, Functions, FiniteSets, FiniteSetTheorems, WellFoundedInduction, TLAPS

\* The element a fold over a set takes next.
Pick(s) == CHOOSE x \in s : TRUE

\* h is the table the library's sum is read from: the sum of f over every
\* subset of S.
IsIter(h, f, S) == h = [s \in SUBSET S |-> IF s = {} THEN 0 ELSE f[Pick(s)] + h[s \ {Pick(s)}]]

\* A function has finitely many values on a finite set.
LEMMA ImageFinite ==
    ASSUME NEW S, IsFiniteSet(S), NEW key
    PROVE  IsFiniteSet({key[k] : k \in S})
<1> DEFINE G == {key[k] : k \in S}
           f == [k \in S |-> key[k]]
<1>1. f \in Surjection(S, G)
  BY Zenon DEF Surjection
<1> QED
  BY <1>1, FS_Surjection, Zenon

-----------------------------------------------------------------------------
(* Sums over finite sets                                                   *)

\* The library's sum is the entry for S of some such table.
LEMMA SumIsIter ==
    ASSUME NEW f, NEW S
    PROVE  SumFunctionOnSet(f, S) = (CHOOSE h : IsIter(h, f, S))[S]
BY Zenon DEF SumFunctionOnSet, FoldFunctionOnSet, MapThenFoldSet, IsIter, Pick

\* What is taken next is an element of the set.
LEMMA PickIn ==
    ASSUME NEW s, s # {}
    PROVE  Pick(s) \in s
BY Zenon DEF Pick

\* A collection of subsets of a finite set has a smallest member. Every
\* induction over sets below is an argument by the smallest counterexample.
LEMMA SmallestSubset ==
    ASSUME NEW S, IsFiniteSet(S), NEW T \in SUBSET SUBSET S, T # {}
    PROVE  \E s \in T : \A t \in T : t \subseteq s => t = s
<1>1. T \subseteq FiniteSubsetsOf(S)
  BY FS_FiniteSubsetsOfFinite, Zenon
<1>2. PICK s \in T : \A t \in T : <<t, s>> \notin StrictSubsetOrdering(S)
  BY <1>1, WFMin, FS_StrictSubsetOrderingWellFounded, Zenon
<1> QED
  BY <1>2, Zenon DEF StrictSubsetOrdering

\* There is at most one table of sums.
LEMMA IterUnique ==
    ASSUME NEW f, NEW S, IsFiniteSet(S), NEW g, NEW h, IsIter(g, f, S), IsIter(h, f, S)
    PROVE  g = h
<1> DEFINE Differ == {s \in SUBSET S : g[s] # h[s]}
<1>0. /\ g = [s \in SUBSET S |-> IF s = {} THEN 0 ELSE f[Pick(s)] + g[s \ {Pick(s)}]]
      /\ h = [s \in SUBSET S |-> IF s = {} THEN 0 ELSE f[Pick(s)] + h[s \ {Pick(s)}]]
  BY Zenon DEF IsIter
<1>1. Differ = {}
  <2> SUFFICES ASSUME Differ # {} PROVE FALSE
    BY Zenon
  <2>0. Differ \in SUBSET SUBSET S
    BY Zenon
  <2>1. PICK s \in Differ : \A t \in Differ : t \subseteq s => t = s
    <3> HIDE DEF Differ
    <3> QED
      BY <2>0, SmallestSubset
  <2>2. CASE s = {}
    BY <1>0, <2>1, <2>2, Zenon
  <2>3. CASE s # {}
    <3>1. Pick(s) \in s
      BY <2>3, PickIn, Zenon
    <3>2. s \ {Pick(s)} \in SUBSET S /\ s \ {Pick(s)} # s
      BY <2>1, <3>1, Zenon
    <3>3. g[s \ {Pick(s)}] = h[s \ {Pick(s)}]
      BY <2>1, <3>2, Zenon
    <3>4. g[s] = f[Pick(s)] + g[s \ {Pick(s)}] /\ h[s] = f[Pick(s)] + h[s \ {Pick(s)}]
      BY <1>0, <2>1, <2>3, Zenon
    <3> QED
      BY <2>1, <3>3, <3>4, Zenon
  <2> QED
    BY <2>2, <2>3, Zenon
<1>2. \A s \in SUBSET S : g[s] = h[s]
  BY <1>1, Zenon
<1> QED
  BY <1>0, <1>2, Zenon

\* The sum over a set is one element's value and the sum over the rest.
LEMMA SumStep ==
    ASSUME NEW f, NEW S, IsFiniteSet(S)
    PROVE  SumFunctionOnSet(f, S) =
             IF S = {} THEN 0 ELSE f[Pick(S)] + SumFunctionOnSet(f, S \ {Pick(S)})
<1> DEFINE Sum(s) == SumFunctionOnSet(f, s)
           Rec(s) == IF s = {} THEN 0 ELSE f[Pick(s)] + Sum(s \ {Pick(s)})
           Bad == {s \in SUBSET S : Sum(s) # Rec(s)}
<1> SUFFICES ASSUME Bad # {} PROVE FALSE
  <2>1. S \notin Bad => Sum(S) = Rec(S)
    BY Zenon
  <2> QED
    BY <2>1, Zenon
<1>0. Bad \in SUBSET SUBSET S
  BY Zenon
<1>1. PICK s \in Bad : \A t \in Bad : t \subseteq s => t = s
  <2> HIDE DEF Bad
  <2> QED
    BY <1>0, SmallestSubset
<1>2. IsFiniteSet(s)
  BY <1>1, FS_Subset, Zenon
<1> DEFINE g == [t \in SUBSET s |-> Rec(t)]
<1>3. \A t \in SUBSET s : t # s => Sum(t) = Rec(t)
  BY <1>1, Zenon
<1>4. IsIter(g, f, s)
  <2>1. ASSUME NEW t \in SUBSET s, t # {} PROVE Sum(t \ {Pick(t)}) = g[t \ {Pick(t)}]
    <3>1. t \ {Pick(t)} \in SUBSET s /\ t \ {Pick(t)} # s
      BY <2>1, PickIn, Zenon
    <3> QED
      BY <1>3, <3>1, Zenon
  <2>2. \A t \in SUBSET s : Rec(t) = IF t = {} THEN 0 ELSE f[Pick(t)] + g[t \ {Pick(t)}]
    BY <2>1, Zenon
  <2> HIDE DEF Rec
  <2>3. g = [t \in SUBSET s |-> IF t = {} THEN 0 ELSE f[Pick(t)] + g[t \ {Pick(t)}]]
    BY <2>2, Zenon
  <2> QED
    BY <2>3, Zenon DEF IsIter
<1>5. IsIter(CHOOSE h : IsIter(h, f, s), f, s)
  BY <1>4, Zenon
<1>6. g = CHOOSE h : IsIter(h, f, s)
  BY <1>2, <1>4, <1>5, IterUnique, Zenon
<1>7. Sum(s) = g[s]
  BY <1>6, SumIsIter, Zenon
<1>8. g[s] = Rec(s)
  BY Zenon
<1> QED
  BY <1>1, <1>7, <1>8, Zenon

\* Induction over a finite set. The property is given as the set Good of the
\* sets that have it, which keeps the statement first-order.
LEMMA SubsetInduction ==
    ASSUME NEW S, IsFiniteSet(S), NEW Good, {} \in Good,
           \A T \in SUBSET S : \A x \in T : T \ {x} \in Good => T \in Good
    PROVE  S \in Good
<1> SUFFICES ASSUME S \notin Good PROVE FALSE
  BY Zenon
<1> DEFINE Bad == {T \in SUBSET S : T \notin Good}
<1>1. Bad \in SUBSET SUBSET S /\ Bad # {}
  BY SMT
<1>2. PICK T \in Bad : \A U \in Bad : U \subseteq T => U = T
  <2> HIDE DEF Bad
  <2> QED
    BY <1>1, SmallestSubset
<1>a. T # {}
  BY <1>2, Zenon
<1>3. PICK x \in T : TRUE
  BY <1>a, Zenon
<1>4. T \ {x} \in SUBSET S /\ T \ {x} # T
  BY <1>2, <1>3, Zenon
<1>5. T \ {x} \in Good
  BY <1>2, <1>4, Zenon
<1> QED
  BY <1>2, <1>3, <1>5, Zenon

\* The sum over no elements is 0.
LEMMA SumEmpty == \A f : SumFunctionOnSet(f, {}) = 0
BY SumStep, FS_EmptySet, Zenon

\* Sums of integers are integers and sums of naturals are naturals.
LEMMA SumType ==
    ASSUME NEW S, IsFiniteSet(S), NEW f
    PROVE  /\ (\A x \in S : f[x] \in Int) => SumFunctionOnSet(f, S) \in Int
           /\ (\A x \in S : f[x] \in Nat) => SumFunctionOnSet(f, S) \in Nat
<1> DEFINE Typed(T) == /\ (\A x \in T : f[x] \in Int) => SumFunctionOnSet(f, T) \in Int
                       /\ (\A x \in T : f[x] \in Nat) => SumFunctionOnSet(f, T) \in Nat
           Bad == {T \in SUBSET S : ~Typed(T)}
<1> SUFFICES ASSUME Bad # {} PROVE FALSE
  <2>1. S \notin Bad => Typed(S)
    BY Zenon
  <2> QED
    BY <2>1, Zenon
<1>1. Bad \in SUBSET SUBSET S
  BY Zenon
<1>2. PICK T \in Bad : \A U \in Bad : U \subseteq T => U = T
  <2> HIDE DEF Bad
  <2> QED
    BY <1>1, SmallestSubset
<1>3. T \in SUBSET S /\ IsFiniteSet(T)
  BY <1>2, FS_Subset, Zenon
<1>4. T # {}
  <2>1. Typed({})
    BY SumEmpty
  <2> QED
    BY <1>2, <2>1, Zenon
<1>5. Pick(T) \in T
  BY <1>4, PickIn, Zenon
<1>6. SumFunctionOnSet(f, T) = f[Pick(T)] + SumFunctionOnSet(f, T \ {Pick(T)})
  BY <1>3, <1>4, SumStep, Zenon
<1>7. T \ {Pick(T)} \in SUBSET S /\ T \ {Pick(T)} # T
  BY <1>3, <1>5, Zenon
<1>8. Typed(T \ {Pick(T)})
  BY <1>2, <1>7, Zenon
<1>9. Typed(T)
  <2>1. (\A x \in T : f[x] \in Int) => SumFunctionOnSet(f, T) \in Int
    BY <1>5, <1>6, <1>8
  <2>2. (\A x \in T : f[x] \in Nat) => SumFunctionOnSet(f, T) \in Nat
    BY <1>5, <1>6, <1>8
  <2> QED
    BY <2>1, <2>2, Zenon
<1> QED
  BY <1>2, <1>9, Zenon

\* The value of any element, not only of the one taken first, can be split off.
LEMMA SumRemove ==
    ASSUME NEW S, IsFiniteSet(S), NEW f, \A y \in S : f[y] \in Int, NEW x \in S
    PROVE  SumFunctionOnSet(f, S) = f[x] + SumFunctionOnSet(f, S \ {x})
<1> DEFINE Sum(T) == SumFunctionOnSet(f, T)
           Removes(T) == \A y \in T : Sum(T) = f[y] + Sum(T \ {y})
           Bad == {T \in SUBSET S : ~Removes(T)}
<1> SUFFICES ASSUME Bad # {} PROVE FALSE
  <2>1. S \notin Bad => Removes(S)
    BY Zenon
  <2> QED
    BY <2>1, Zenon
<1>1. Bad \in SUBSET SUBSET S
  BY Zenon
<1>2. PICK T \in Bad : \A U \in Bad : U \subseteq T => U = T
  <2> HIDE DEF Bad
  <2> QED
    BY <1>1, SmallestSubset
<1>3. T \in SUBSET S /\ IsFiniteSet(T) /\ ~Removes(T)
  BY <1>2, FS_Subset, Zenon
<1>4. PICK y \in T : Sum(T) # f[y] + Sum(T \ {y})
  BY <1>3, Zenon
<1> DEFINE z == Pick(T)
<1>5. z \in T /\ Sum(T) = f[z] + Sum(T \ {z}) /\ z # y
  BY <1>3, <1>4, PickIn, SumStep, Zenon
<1> HIDE DEF z
<1>6. Sum(T \ {z}) = f[y] + Sum((T \ {z}) \ {y})
  <2>1. T \ {z} \in SUBSET S /\ T \ {z} # T /\ y \in T \ {z}
    BY <1>3, <1>4, <1>5, Zenon
  <2>2. Removes(T \ {z})
    BY <1>2, <2>1, Zenon
  <2> QED
    BY <2>1, <2>2, Zenon
<1>7. Sum(T \ {y}) = f[z] + Sum((T \ {y}) \ {z})
  <2>1. T \ {y} \in SUBSET S /\ T \ {y} # T /\ z \in T \ {y}
    BY <1>3, <1>4, <1>5, Zenon
  <2>2. Removes(T \ {y})
    BY <1>2, <2>1, Zenon
  <2> QED
    BY <2>1, <2>2, Zenon
<1>8. Sum((T \ {y}) \ {z}) = Sum((T \ {z}) \ {y})
  <2>1. (T \ {y}) \ {z} = (T \ {z}) \ {y}
    BY Zenon
  <2> QED
    BY <2>1, Zenon
<1>9. Sum((T \ {z}) \ {y}) \in Int
  <2>1. IsFiniteSet((T \ {z}) \ {y}) /\ \A w \in (T \ {z}) \ {y} : f[w] \in Int
    BY <1>3, FS_Subset, Zenon
  <2> QED
    BY <2>1, SumType, Zenon
<1>10. f[y] \in Int /\ f[z] \in Int
  BY <1>3, <1>4, <1>5, Zenon
<1>11. f[y] + Sum(T \ {y}) = f[z] + Sum(T \ {z})
  BY <1>6, <1>7, <1>8, <1>9, <1>10
<1> QED
  BY <1>4, <1>5, <1>11, Zenon

\* The sum over a set with one more element.
LEMMA SumAdd ==
    ASSUME NEW S, IsFiniteSet(S), NEW f, NEW x, x \notin S, \A y \in S \cup {x} : f[y] \in Int
    PROVE  SumFunctionOnSet(f, S \cup {x}) = f[x] + SumFunctionOnSet(f, S)
<1>1. IsFiniteSet(S \cup {x}) /\ (S \cup {x}) \ {x} = S
  BY FS_AddElement, Zenon
<1> QED
  BY <1>1, SumRemove

\* The sum depends on the values on the set only.
LEMMA SumCongruent ==
    ASSUME NEW S, IsFiniteSet(S), NEW f, NEW g, \A x \in S : f[x] = g[x]
    PROVE  SumFunctionOnSet(f, S) = SumFunctionOnSet(g, S)
<1> DEFINE Same(T) == SumFunctionOnSet(f, T) = SumFunctionOnSet(g, T)
           Bad == {T \in SUBSET S : ~Same(T)}
<1> SUFFICES ASSUME Bad # {} PROVE FALSE
  <2>1. S \notin Bad => Same(S)
    BY Zenon
  <2> QED
    BY <2>1, Zenon
<1>1. Bad \in SUBSET SUBSET S
  BY Zenon
<1>2. PICK T \in Bad : \A U \in Bad : U \subseteq T => U = T
  <2> HIDE DEF Bad
  <2> QED
    BY <1>1, SmallestSubset
<1>3. T \in SUBSET S /\ IsFiniteSet(T)
  BY <1>2, FS_Subset, Zenon
<1>4. T # {}
  <2>1. Same({})
    BY SumEmpty, Zenon
  <2> QED
    BY <1>2, <2>1, Zenon
<1>5. Pick(T) \in T
  BY <1>4, PickIn, Zenon
<1>6. /\ SumFunctionOnSet(f, T) = f[Pick(T)] + SumFunctionOnSet(f, T \ {Pick(T)})
      /\ SumFunctionOnSet(g, T) = g[Pick(T)] + SumFunctionOnSet(g, T \ {Pick(T)})
  BY <1>3, <1>4, SumStep, Zenon
<1>7. T \ {Pick(T)} \in SUBSET S /\ T \ {Pick(T)} # T
  BY <1>3, <1>5, Zenon
<1>8. Same(T \ {Pick(T)})
  BY <1>2, <1>7, Zenon
<1>9. Same(T)
  BY <1>3, <1>5, <1>6, <1>8, Zenon
<1> QED
  BY <1>2, <1>9, Zenon

\* Larger values have the larger sum.
LEMMA SumMonotone ==
    ASSUME NEW S, IsFiniteSet(S), NEW f, NEW g,
           \A x \in S : f[x] \in Int /\ g[x] \in Int /\ f[x] <= g[x]
    PROVE  SumFunctionOnSet(f, S) <= SumFunctionOnSet(g, S)
<1> DEFINE Good == {T \in SUBSET S : SumFunctionOnSet(f, T) <= SumFunctionOnSet(g, T)}
<1>1. {} \in Good
  BY SumEmpty
<1>2. ASSUME NEW T \in SUBSET S, NEW x \in T, T \ {x} \in Good
      PROVE  T \in Good
  <2>1. IsFiniteSet(T) /\ IsFiniteSet(T \ {x})
    BY FS_Subset, Zenon
  <2>2. /\ SumFunctionOnSet(f, T) = f[x] + SumFunctionOnSet(f, T \ {x})
        /\ SumFunctionOnSet(g, T) = g[x] + SumFunctionOnSet(g, T \ {x})
    BY <2>1, SumRemove, Zenon
  <2>3. SumFunctionOnSet(f, T \ {x}) \in Int /\ SumFunctionOnSet(g, T \ {x}) \in Int
    BY <2>1, SumType, Zenon
  <2>4. SumFunctionOnSet(f, T \ {x}) <= SumFunctionOnSet(g, T \ {x})
    BY <1>2, Zenon
  <2> QED
    BY <2>2, <2>3, <2>4
<1>3. S \in Good
  <2> HIDE DEF Good
  <2> QED
    BY <1>1, <1>2, SubsetInduction, Zenon
<1> QED
  BY <1>3, Zenon

\* The sum of f + g is the sum of f and the sum of g.
LEMMA SumPlus ==
    ASSUME NEW S, IsFiniteSet(S), NEW f, NEW g, NEW h,
           \A x \in S : f[x] \in Int /\ g[x] \in Int /\ h[x] = f[x] + g[x]
    PROVE  SumFunctionOnSet(h, S) = SumFunctionOnSet(f, S) + SumFunctionOnSet(g, S)
<1> DEFINE Good == {T \in SUBSET S :
                      SumFunctionOnSet(h, T) = SumFunctionOnSet(f, T) + SumFunctionOnSet(g, T)}
<1>1. {} \in Good
  BY SumEmpty
<1>2. ASSUME NEW T \in SUBSET S, NEW x \in T, T \ {x} \in Good
      PROVE  T \in Good
  <2>1. IsFiniteSet(T) /\ IsFiniteSet(T \ {x}) /\ \A y \in S : h[y] \in Int
    BY FS_Subset
  <2>2. /\ SumFunctionOnSet(f, T) = f[x] + SumFunctionOnSet(f, T \ {x})
        /\ SumFunctionOnSet(g, T) = g[x] + SumFunctionOnSet(g, T \ {x})
        /\ SumFunctionOnSet(h, T) = h[x] + SumFunctionOnSet(h, T \ {x})
    BY <2>1, SumRemove, Zenon
  <2>3. SumFunctionOnSet(f, T \ {x}) \in Int /\ SumFunctionOnSet(g, T \ {x}) \in Int
    BY <2>1, SumType, Zenon
  <2>4. SumFunctionOnSet(h, T \ {x}) = SumFunctionOnSet(f, T \ {x}) + SumFunctionOnSet(g, T \ {x})
    BY <1>2, Zenon
  <2>5. f[x] \in Int /\ g[x] \in Int /\ h[x] = f[x] + g[x]
    BY Zenon
  <2>6. SumFunctionOnSet(h, T) = SumFunctionOnSet(f, T) + SumFunctionOnSet(g, T)
    BY <2>2, <2>3, <2>4, <2>5
  <2> QED
    BY <2>6, Zenon
<1>3. S \in Good
  <2> HIDE DEF Good
  <2> QED
    BY <1>1, <1>2, SubsetInduction, Zenon
<1> QED
  BY <1>3, Zenon

\* A constant factor can be taken out of a sum.
LEMMA SumScale ==
    ASSUME NEW S, IsFiniteSet(S), NEW c \in Int, NEW f, NEW h,
           \A x \in S : f[x] \in Int /\ h[x] = c * f[x]
    PROVE  SumFunctionOnSet(h, S) = c * SumFunctionOnSet(f, S)
<1> DEFINE Good == {T \in SUBSET S : SumFunctionOnSet(h, T) = c * SumFunctionOnSet(f, T)}
<1>1. {} \in Good
  BY SumEmpty
<1>2. ASSUME NEW T \in SUBSET S, NEW x \in T, T \ {x} \in Good
      PROVE  T \in Good
  <2>1. IsFiniteSet(T) /\ IsFiniteSet(T \ {x}) /\ \A y \in S : h[y] \in Int
    BY FS_Subset
  <2>2. /\ SumFunctionOnSet(f, T) = f[x] + SumFunctionOnSet(f, T \ {x})
        /\ SumFunctionOnSet(h, T) = h[x] + SumFunctionOnSet(h, T \ {x})
    BY <2>1, SumRemove, Zenon
  <2>3. SumFunctionOnSet(f, T \ {x}) \in Int
    BY <2>1, SumType, Zenon
  <2>4. SumFunctionOnSet(h, T \ {x}) = c * SumFunctionOnSet(f, T \ {x})
    BY <1>2, Zenon
  <2>5. f[x] \in Int /\ h[x] = c * f[x]
    BY Zenon
  <2>6. \A a, b \in Int : c * (a + b) = c * a + c * b
    BY SMT
  <2>7. SumFunctionOnSet(h, T) = c * SumFunctionOnSet(f, T)
    BY <2>2, <2>3, <2>4, <2>5, <2>6, Zenon
  <2> QED
    BY <2>7, Zenon
<1>3. S \in Good
  <2> HIDE DEF Good
  <2> QED
    BY <1>1, <1>2, SubsetInduction, Zenon
<1> QED
  BY <1>3, Zenon

\* The sum over two disjoint sets is the sum over the one and over the other.
LEMMA SumUnion ==
    ASSUME NEW S, IsFiniteSet(S), NEW R, IsFiniteSet(R), S \cap R = {}, NEW f,
           \A x \in S \cup R : f[x] \in Int
    PROVE  SumFunctionOnSet(f, S \cup R) = SumFunctionOnSet(f, S) + SumFunctionOnSet(f, R)
<1> DEFINE Good == {T \in SUBSET S :
                      SumFunctionOnSet(f, T \cup R) = SumFunctionOnSet(f, T) + SumFunctionOnSet(f, R)}
<1>0. SumFunctionOnSet(f, R) \in Int
  BY SumType, Zenon
<1>1. {} \in Good
  <2>1. {} \cup R = R
    BY Zenon
  <2> QED
    BY <1>0, <2>1, SumEmpty
<1>2. ASSUME NEW T \in SUBSET S, NEW x \in T, T \ {x} \in Good
      PROVE  T \in Good
  <2>1. IsFiniteSet(T) /\ IsFiniteSet(T \ {x}) /\ IsFiniteSet(T \cup R)
    BY FS_Subset, FS_Union, Zenon
  <2>2. (T \cup R) \ {x} = (T \ {x}) \cup R
    BY Zenon
  <2>3. SumFunctionOnSet(f, T) = f[x] + SumFunctionOnSet(f, T \ {x})
    BY <2>1, SumRemove, Zenon
  <2>4. SumFunctionOnSet(f, T \cup R) = f[x] + SumFunctionOnSet(f, (T \ {x}) \cup R)
    BY <2>1, <2>2, SumRemove
  <2>5. SumFunctionOnSet(f, T \ {x}) \in Int /\ f[x] \in Int
    BY <2>1, SumType, Zenon
  <2>6. SumFunctionOnSet(f, (T \ {x}) \cup R) = SumFunctionOnSet(f, T \ {x}) + SumFunctionOnSet(f, R)
    BY <1>2, Zenon
  <2>7. SumFunctionOnSet(f, T \cup R) = SumFunctionOnSet(f, T) + SumFunctionOnSet(f, R)
    BY <1>0, <2>3, <2>4, <2>5, <2>6
  <2> QED
    BY <2>7, Zenon
<1>3. S \in Good
  <2> HIDE DEF Good
  <2> QED
    BY <1>1, <1>2, SubsetInduction, Zenon
<1> QED
  BY <1>3, Zenon

\* Leaving out naturals does not increase a sum.
LEMMA SumSubset ==
    ASSUME NEW S, IsFiniteSet(S), NEW T \in SUBSET S, NEW f, \A x \in S : f[x] \in Nat
    PROVE  SumFunctionOnSet(f, T) <= SumFunctionOnSet(f, S)
<1>1. IsFiniteSet(T) /\ IsFiniteSet(S \ T) /\ T \cup (S \ T) = S /\ T \cap (S \ T) = {}
  BY FS_Subset, Zenon
<1>2. SumFunctionOnSet(f, T) \in Nat /\ SumFunctionOnSet(f, S \ T) \in Nat
  BY <1>1, SumType, Zenon
<1>3. SumFunctionOnSet(f, S) = SumFunctionOnSet(f, T) + SumFunctionOnSet(f, S \ T)
  <2>1. SumFunctionOnSet(f, T \cup (S \ T)) = SumFunctionOnSet(f, T) + SumFunctionOnSet(f, S \ T)
    BY <1>1, SumUnion
  <2> QED
    BY <1>1, <2>1, Zenon
<1> QED
  BY <1>2, <1>3

\* A sum of equal values is their number times the value.
LEMMA SumConstant ==
    ASSUME NEW S, IsFiniteSet(S), NEW c \in Int, NEW f, \A x \in S : f[x] = c
    PROVE  SumFunctionOnSet(f, S) = c * Cardinality(S)
<1> DEFINE Good == {T \in SUBSET S : SumFunctionOnSet(f, T) = c * Cardinality(T)}
<1>1. {} \in Good
  BY SumEmpty, FS_EmptySet
<1>2. ASSUME NEW T \in SUBSET S, NEW x \in T, T \ {x} \in Good
      PROVE  T \in Good
  <2>1. IsFiniteSet(T) /\ IsFiniteSet(T \ {x}) /\ \A y \in S : f[y] \in Int
    BY FS_Subset, Zenon
  <2>2. SumFunctionOnSet(f, T) = f[x] + SumFunctionOnSet(f, T \ {x})
    BY <2>1, SumRemove, Zenon
  <2>3. Cardinality(T \ {x}) = Cardinality(T) - 1 /\ Cardinality(T) \in Nat
    BY <2>1, FS_RemoveElement, FS_CardinalityType, Zenon
  <2>4. SumFunctionOnSet(f, T \ {x}) = c * (Cardinality(T) - 1)
    BY <1>2, <2>3, Zenon
  <2>5. f[x] = c
    BY Zenon
  <2>6. \A n \in Nat : c + c * (n - 1) = c * n
    BY SMT
  <2>7. SumFunctionOnSet(f, T) = c * Cardinality(T)
    BY <2>2, <2>3, <2>4, <2>5, <2>6, Zenon
  <2> QED
    BY <2>7, Zenon
<1>3. S \in Good
  <2> HIDE DEF Good
  <2> QED
    BY <1>1, <1>2, SubsetInduction, Zenon
<1> QED
  BY <1>3, Zenon

\* A sum of zeros is 0.
LEMMA SumZero ==
    ASSUME NEW S, IsFiniteSet(S), NEW f, \A x \in S : f[x] = 0
    PROVE  SumFunctionOnSet(f, S) = 0
<1>1. SumFunctionOnSet(f, S) = 0 * Cardinality(S)
  BY SumConstant
<1> QED
  BY <1>1, FS_CardinalityType

\* A change of one value changes the sum by as much.
LEMMA SumUpdate ==
    ASSUME NEW S, IsFiniteSet(S), NEW f, NEW g, NEW x \in S,
           \A y \in S : f[y] \in Int /\ g[y] \in Int, \A y \in S \ {x} : g[y] = f[y]
    PROVE  SumFunctionOnSet(g, S) = SumFunctionOnSet(f, S) + (g[x] - f[x])
<1>1. IsFiniteSet(S \ {x})
  BY FS_Subset, Zenon
<1>2. /\ SumFunctionOnSet(f, S) = f[x] + SumFunctionOnSet(f, S \ {x})
      /\ SumFunctionOnSet(g, S) = g[x] + SumFunctionOnSet(g, S \ {x})
  BY SumRemove, Zenon
<1>3. SumFunctionOnSet(f, S \ {x}) = SumFunctionOnSet(g, S \ {x})
  BY <1>1, SumCongruent, Zenon
<1>4. SumFunctionOnSet(f, S \ {x}) \in Int /\ f[x] \in Int /\ g[x] \in Int
  BY <1>1, SumType, Zenon
<1> QED
  BY <1>2, <1>3, <1>4

-----------------------------------------------------------------------------
(* Groups and shares                                                       *)

\* The elements of S that key sends to g.
Fibre(S, key, g) == {x \in S : key[x] = g}

\* Grouping loses nothing: the sums per group add up to the sum over all
\* elements, when every element is in one of the groups.
LEMMA SumGroups ==
    ASSUME NEW S, IsFiniteSet(S), NEW G, IsFiniteSet(G), NEW f, NEW key, NEW h,
           \A x \in S : f[x] \in Int /\ key[x] \in G,
           \A g \in G : h[g] = SumFunctionOnSet(f, Fibre(S, key, g))
    PROVE  SumFunctionOnSet(h, G) = SumFunctionOnSet(f, S)
<1> DEFINE Grouped(T) == [g \in G |-> SumFunctionOnSet(f, Fibre(T, key, g))]
           Good == {T \in SUBSET S : SumFunctionOnSet(Grouped(T), G) = SumFunctionOnSet(f, T)}
<1>0. ASSUME NEW T \in SUBSET S
      PROVE  /\ IsFiniteSet(T)
             /\ \A g \in G : IsFiniteSet(Fibre(T, key, g)) /\ Grouped(T)[g] \in Int
  <2>1. IsFiniteSet(T)
    BY FS_Subset, Zenon
  <2>2. ASSUME NEW g \in G PROVE IsFiniteSet(Fibre(T, key, g)) /\ Grouped(T)[g] \in Int
    <3>1. Fibre(T, key, g) \in SUBSET T
      BY Zenon DEF Fibre
    <3>2. IsFiniteSet(Fibre(T, key, g)) /\ \A x \in Fibre(T, key, g) : f[x] \in Int
      BY <2>1, <3>1, FS_Subset, Zenon
    <3>3. SumFunctionOnSet(f, Fibre(T, key, g)) \in Int
      BY <3>2, SumType, Zenon
    <3> QED
      BY <3>2, <3>3, Zenon
  <2> QED
    BY <2>1, <2>2, Zenon
<1>1. {} \in Good
  <2>1. \A g \in G : Grouped({})[g] = 0
    <3>1. \A g \in G : Fibre({}, key, g) = {}
      BY Zenon DEF Fibre
    <3> QED
      BY <3>1, SumEmpty, Zenon
  <2>2. SumFunctionOnSet(Grouped({}), G) = 0
    <3> HIDE DEF Grouped
    <3> QED
      BY <2>1, SumZero, Zenon
  <2> QED
    BY <2>2, SumEmpty, Zenon
<1>2. ASSUME NEW T \in SUBSET S, NEW x \in T, T \ {x} \in Good
      PROVE  T \in Good
  <2> DEFINE U == T \ {x}
  <2>1. U \in SUBSET S /\ key[x] \in G
    BY Zenon
  <2>2. \A g \in G \ {key[x]} : Grouped(T)[g] = Grouped(U)[g]
    <3>1. \A g \in G \ {key[x]} : Fibre(T, key, g) = Fibre(U, key, g)
      BY Zenon DEF Fibre
    <3> QED
      BY <3>1, Zenon
  <2>3. Grouped(T)[key[x]] = f[x] + Grouped(U)[key[x]]
    <3>1. x \in Fibre(T, key, key[x]) /\ Fibre(T, key, key[x]) \ {x} = Fibre(U, key, key[x])
      BY Zenon DEF Fibre
    <3>2. IsFiniteSet(Fibre(T, key, key[x])) /\ \A y \in Fibre(T, key, key[x]) : f[y] \in Int
      BY <1>0, <2>1, Zenon DEF Fibre
    <3>3. SumFunctionOnSet(f, Fibre(T, key, key[x])) = f[x] + SumFunctionOnSet(f, Fibre(U, key, key[x]))
      <4> DEFINE V == Fibre(T, key, key[x])
      <4>1. x \in V /\ IsFiniteSet(V) /\ \A y \in V : f[y] \in Int
        BY <3>1, <3>2, Zenon
      <4>2. SumFunctionOnSet(f, V) = f[x] + SumFunctionOnSet(f, V \ {x})
        <5> HIDE DEF V
        <5> QED
          BY <4>1, SumRemove, Zenon
      <4>3. V \ {x} = Fibre(U, key, key[x])
        BY <3>1, Zenon
      <4> QED
        BY <4>2, <4>3, Zenon
    <3> QED
      BY <2>1, <3>3, Zenon
  <2>4. \A g \in G : Grouped(T)[g] \in Int /\ Grouped(U)[g] \in Int
    BY <1>0, <2>1, Zenon
  <2>5. SumFunctionOnSet(Grouped(T), G)
          = SumFunctionOnSet(Grouped(U), G) + (Grouped(T)[key[x]] - Grouped(U)[key[x]])
    <3> HIDE DEF Grouped, U
    <3> QED
      BY <2>1, <2>2, <2>4, SumUpdate
  <2>6. SumFunctionOnSet(f, T) = f[x] + SumFunctionOnSet(f, U)
    BY <1>0, SumRemove, Zenon
  <2>7. SumFunctionOnSet(Grouped(U), G) = SumFunctionOnSet(f, U)
    BY <1>2, Zenon
  <2>8. SumFunctionOnSet(f, U) \in Int /\ f[x] \in Int
    BY <1>0, <2>1, SumType, Zenon
  <2>9. SumFunctionOnSet(Grouped(T), G) = SumFunctionOnSet(f, T)
    <3> HIDE DEF Grouped, U
    <3> QED
      BY <2>1, <2>3, <2>4, <2>5, <2>6, <2>7, <2>8
  <2> QED
    BY <2>9, Zenon
<1>3. S \in Good
  <2> HIDE DEF Good
  <2> QED
    BY <1>1, <1>2, SubsetInduction, Zenon
<1>4. SumFunctionOnSet(Grouped(S), G) = SumFunctionOnSet(f, S)
  BY <1>3, Zenon
<1>5. \A g \in G : h[g] = Grouped(S)[g]
  BY Zenon
<1> QED
  <2> HIDE DEF Grouped
  <2> QED
    BY <1>4, <1>5, SumCongruent, Zenon

\* A sum under other names of its elements, one name for each, is the same sum.
LEMMA SumReindex ==
    ASSUME NEW S, IsFiniteSet(S), NEW G, IsFiniteSet(G), NEW f, NEW h, NEW key, NEW inverse,
           \A x \in S : f[x] \in Int /\ key[x] \in G /\ inverse[key[x]] = x,
           \A g \in G : inverse[g] \in S /\ key[inverse[g]] = g /\ h[g] = f[inverse[g]]
    PROVE  SumFunctionOnSet(h, G) = SumFunctionOnSet(f, S)
<1>1. ASSUME NEW g \in G
      PROVE  h[g] = SumFunctionOnSet(f, Fibre(S, key, g))
  <2>1. PICK x \in S : x = inverse[g]
    BY Zenon
  <2>2. Fibre(S, key, g) = {} \cup {x}
    BY <2>1, Zenon DEF Fibre
  <2>3. x \notin {} /\ IsFiniteSet({}) /\ f[x] \in Int /\ h[g] = f[x]
    BY <2>1, FS_EmptySet, Zenon
  <2>4. \A y \in {} \cup {x} : f[y] \in Int
    BY <2>3, Zenon
  <2>5. SumFunctionOnSet(f, {} \cup {x}) = f[x] + SumFunctionOnSet(f, {})
    BY <2>3, <2>4, SumAdd, Zenon
  <2> QED
    BY <2>2, <2>3, <2>5, SumEmpty
<1> QED
  BY <1>1, SumGroups

\* Proportional division with whole numbers: the shares are at most what is
\* divided, and less than one unit per element is lost to rounding.
LEMMA SumOfShares ==
    ASSUME NEW S, IsFiniteSet(S), NEW p \in Nat, NEW w, \A x \in S : w[x] \in Nat,
           SumFunctionOnSet(w, S) > 0, NEW h,
           \A x \in S : h[x] = (p * w[x]) \div SumFunctionOnSet(w, S)
    PROVE  /\ \A x \in S : h[x] \in Nat
           /\ SumFunctionOnSet(h, S) \in Nat
           /\ SumFunctionOnSet(h, S) <= p
           /\ p < SumFunctionOnSet(h, S) + Cardinality(S)
<1> DEFINE W == SumFunctionOnSet(w, S)
<1>1. W \in Nat /\ W > 0
  BY SumType, Zenon
<1> HIDE DEF W
<1>2. \A x \in S : p * w[x] \in Nat /\ h[x] = (p * w[x]) \div W
  BY <1>1 DEF W
<1>3. ASSUME NEW x \in S
      PROVE  h[x] \in Nat /\ W * h[x] <= p * w[x] /\ p * w[x] < W * h[x] + W
  <2>1. p * w[x] \in Nat /\ h[x] = (p * w[x]) \div W
    BY <1>2, Zenon
  <2>2. \A n \in Nat : \A d \in Nat \ {0} :
          n \div d \in Nat /\ d * (n \div d) <= n /\ n < d * (n \div d) + d
    BY SMT
  <2>3. PICK n \in Nat : n = p * w[x]
    BY <2>1, Zenon
  <2>4. h[x] = n \div W /\ W \in Nat \ {0}
    BY <1>1, <2>1, <2>3
  <2>5. n \div W \in Nat /\ W * (n \div W) <= n /\ n < W * (n \div W) + W
    BY <2>2, <2>4, Zenon
  <2> QED
    BY <2>3, <2>4, <2>5, Zenon
<1> DEFINE Wh == [x \in S |-> W * h[x]]
           pw == [x \in S |-> p * w[x]]
           WW == [x \in S |-> W]
           up == [x \in S |-> Wh[x] + WW[x]]
           hS == SumFunctionOnSet(h, S)
<1>4. hS \in Nat
  BY <1>3, SumType, Zenon
<1>5. \A x \in S : Wh[x] \in Int /\ pw[x] \in Int /\ up[x] \in Int /\ WW[x] \in Int
                   /\ Wh[x] <= pw[x] /\ pw[x] + 1 <= up[x]
  BY <1>1, <1>2, <1>3
<1>6. SumFunctionOnSet(Wh, S) = W * hS
  BY <1>1, <1>3, SumScale
<1>7. SumFunctionOnSet(pw, S) = p * W
  BY SumScale DEF W
<1>8. SumFunctionOnSet(WW, S) = W * Cardinality(S)
  BY <1>1, SumConstant
<1>9. SumFunctionOnSet(up, S) = SumFunctionOnSet(Wh, S) + SumFunctionOnSet(WW, S)
  BY <1>5, SumPlus, Zenon
<1>10. W * hS <= p * W
  <2>1. SumFunctionOnSet(Wh, S) <= SumFunctionOnSet(pw, S)
    <3> HIDE DEF Wh, pw
    <3> QED
      BY <1>5, SumMonotone, Zenon
  <2> QED
    BY <1>6, <1>7, <2>1, Zenon
<1>11. S # {} /\ Cardinality(S) \in Nat
  <2>1. S = {} => W = 0
    BY SumEmpty, Zenon DEF W
  <2> QED
    BY <1>1, <2>1, FS_CardinalityType
<1>12. p * W < W * hS + W * Cardinality(S)
  <2> DEFINE pw1 == [x \in S |-> pw[x] + 1]
             one == [x \in S |-> 1]
  <2>1. SumFunctionOnSet(pw1, S) <= SumFunctionOnSet(up, S)
    <3>1. \A x \in S : pw1[x] \in Int /\ pw1[x] <= up[x]
      BY <1>5
    <3> HIDE DEF pw, pw1, up
    <3> QED
      BY <1>5, <3>1, SumMonotone, Zenon
  <2>2. SumFunctionOnSet(pw1, S) = SumFunctionOnSet(pw, S) + SumFunctionOnSet(one, S)
    <3>1. \A x \in S : pw[x] \in Int /\ one[x] \in Int /\ pw1[x] = pw[x] + one[x]
      BY <1>5
    <3> HIDE DEF pw, pw1, one
    <3> QED
      BY <3>1, SumPlus, Zenon
  <2>3. SumFunctionOnSet(one, S) = 1 * Cardinality(S)
    BY SumConstant
  <2>4. Cardinality(S) > 0
    BY <1>11, FS_EmptySet
  <2>5. p * W \in Int /\ W * hS \in Int /\ W * Cardinality(S) \in Int
    BY <1>1, <1>4, <1>11
  <2> HIDE DEF pw, pw1, one, up, hS, Wh, WW
  <2> QED
    BY <1>6, <1>7, <1>8, <1>9, <1>11, <2>1, <2>2, <2>3, <2>4, <2>5
<1>13. hS <= p /\ p < hS + Cardinality(S)
  <2>1. \A a, b \in Nat : \A d \in Nat \ {0} : d * a <= b * d => a <= b
    BY SMT
  <2>2. \A a, b, n \in Nat : \A d \in Nat \ {0} : b * d < d * a + d * n => b < a + n
    BY SMT
  <2> HIDE DEF hS
  <2> QED
    BY <1>1, <1>4, <1>10, <1>11, <1>12, <2>1, <2>2
<1> QED
  BY <1>3, <1>4, <1>13, Zenon

-----------------------------------------------------------------------------
(* Folds                                                                   *)

\* The largest number of a set: the element a fold over a sequence takes next.
Top(s) == CHOOSE x \in s : \A y \in s : x >= y

\* A finite set of positions.
IsIndexSet(S) == S \in SUBSET Int /\ IsFiniteSet(S)

\* pick chooses an element of every non-empty subset of S.
IsPicker(pick, S) == IsFiniteSet(S) /\ \A s \in SUBSET S : s # {} => pick[s] \in s

\* h is the table of a fold over the subsets of S, with the elements in the
\* order pick takes them.
IsFold(h, step, base, pick, S) ==
    h = [s \in SUBSET S |-> IF s = {} THEN base ELSE step[<<h[s \ {pick[s]}], pick[s]>>]]

\* A set of positions stays one when positions are left out.
LEMMA IndexSubset == \A S : \A s \in SUBSET S : IsIndexSet(S) => IsIndexSet(s)
BY FS_Subset, Zenon DEF IsIndexSet

\* The largest position of a set is in it, and no smaller than the others.
LEMMA TopIn ==
    ASSUME NEW s, IsIndexSet(s), s # {}
    PROVE  Top(s) \in s /\ \A y \in s : Top(s) >= y
<1>0. s \in SUBSET Int /\ IsFiniteSet(s)
  BY Zenon DEF IsIndexSet
<1> DEFINE HasTop(T) == \E x \in T : \A y \in T : x >= y
           Good == {T \in SUBSET s : T = {} \/ HasTop(T)}
<1>1. {} \in Good
  BY Zenon
<1>2. ASSUME NEW T \in SUBSET s, NEW x \in T, T \ {x} \in Good
      PROVE  T \in Good
  <2>1. CASE T \ {x} = {}
    <3>1. \A y \in T : x >= y
      BY <1>0, <2>1
    <3> QED
      BY <3>1, Zenon
  <2>2. CASE T \ {x} # {}
    <3>1. PICK z \in T \ {x} : \A y \in T \ {x} : z >= y
      BY <1>2, <2>2, Zenon
    <3>2. HasTop(T)
      <4>1. CASE x >= z
        BY <1>0, <3>1, <4>1
      <4>2. CASE ~(x >= z)
        BY <1>0, <3>1, <4>2
      <4> QED
        BY <4>1, <4>2, Zenon
    <3> QED
      BY <3>2, Zenon
  <2> QED
    BY <2>1, <2>2, Zenon
<1>3. s \in Good
  <2> HIDE DEF Good
  <2> QED
    BY <1>0, <1>1, <1>2, SubsetInduction, Zenon
<1>4. PICK x \in s : \A y \in s : x >= y
  BY <1>3, Zenon
<1> QED
  BY <1>4, Zenon DEF Top

\* What picks from the subsets of S picks from those of a subset of it.
LEMMA PickerSubset ==
    ASSUME NEW pick, NEW S, IsPicker(pick, S), NEW s \in SUBSET S
    PROVE  IsPicker(pick, s)
BY FS_Subset, Zenon DEF IsPicker

\* What is picked is an element of the set.
LEMMA PickerIn ==
    ASSUME NEW pick, NEW s, IsPicker(pick, s), s # {}
    PROVE  pick[s] \in s
BY Zenon DEF IsPicker

\* Taking the largest position is a way to pick.
LEMMA TopPicks ==
    ASSUME NEW S, IsIndexSet(S)
    PROVE  IsPicker([s \in SUBSET S |-> Top(s)], S)
<1>1. \A s \in SUBSET S : s # {} => Top(s) \in s
  BY IndexSubset, TopIn, Zenon
<1> QED
  BY <1>1, Zenon DEF IsPicker, IsIndexSet

\* There is at most one table of a fold.
LEMMA FoldUnique ==
    ASSUME NEW S, NEW pick, IsPicker(pick, S), NEW step, NEW base, NEW g, NEW h,
           IsFold(g, step, base, pick, S), IsFold(h, step, base, pick, S)
    PROVE  g = h
<1> DEFINE Differ == {s \in SUBSET S : g[s] # h[s]}
<1>0. /\ g = [s \in SUBSET S |-> IF s = {} THEN base ELSE step[<<g[s \ {pick[s]}], pick[s]>>]]
      /\ h = [s \in SUBSET S |-> IF s = {} THEN base ELSE step[<<h[s \ {pick[s]}], pick[s]>>]]
  BY Zenon DEF IsFold
<1>1. Differ = {}
  <2> SUFFICES ASSUME Differ # {} PROVE FALSE
    BY Zenon
  <2>0. Differ \in SUBSET SUBSET S
    BY Zenon
  <2>b. IsFiniteSet(S)
    BY Zenon DEF IsPicker
  <2>1. PICK s \in Differ : \A t \in Differ : t \subseteq s => t = s
    <3> HIDE DEF Differ
    <3> QED
      BY <2>0, <2>b, SmallestSubset
  <2>2. CASE s = {}
    BY <1>0, <2>1, <2>2, Zenon
  <2>3. CASE s # {}
    <3>0. IsPicker(pick, s)
      BY <2>1, PickerSubset, Zenon
    <3>1. pick[s] \in s
      BY <2>3, <3>0, PickerIn, Zenon
    <3>2. s \ {pick[s]} \in SUBSET S /\ s \ {pick[s]} # s
      BY <2>1, <3>1, Zenon
    <3>3. g[s \ {pick[s]}] = h[s \ {pick[s]}]
      BY <2>1, <3>2, Zenon
    <3>4. g[s] = step[<<g[s \ {pick[s]}], pick[s]>>] /\ h[s] = step[<<h[s \ {pick[s]}], pick[s]>>]
      BY <1>0, <2>1, <2>3, Zenon
    <3> QED
      BY <2>1, <3>3, <3>4, Zenon
  <2> QED
    BY <2>2, <2>3, Zenon
<1>2. \A s \in SUBSET S : g[s] = h[s]
  BY <1>1, Zenon
<1> QED
  BY <1>0, <1>2, Zenon

\* There is a table of a fold, and its values are of the type of the step's
\* result.
LEMMA FoldExists ==
    ASSUME NEW A, NEW base \in A, NEW S, NEW pick, IsPicker(pick, S),
           NEW step \in [A \X S -> A]
    PROVE  \E h \in [SUBSET S -> A] : IsFold(h, step, base, pick, S)
<1> DEFINE Fold(s) == (CHOOSE h : IsFold(h, step, base, pick, s))[s]
           Rec(s) == IF s = {} THEN base ELSE step[<<Fold(s \ {pick[s]}), pick[s]>>]
           Bad == {s \in SUBSET S : Fold(s) # Rec(s) \/ Rec(s) \notin A}
<1>1. \A s \in SUBSET S : Fold(s) = Rec(s) /\ Rec(s) \in A
  <2> SUFFICES ASSUME Bad # {} PROVE FALSE
    BY Zenon
  <2>0. Bad \in SUBSET SUBSET S
    BY Zenon
  <2>b. IsFiniteSet(S)
    BY Zenon DEF IsPicker
  <2>1. PICK s \in Bad : \A t \in Bad : t \subseteq s => t = s
    <3> HIDE DEF Bad
    <3> QED
      BY <2>0, <2>b, SmallestSubset
  <2>a. s \in SUBSET S /\ (Fold(s) # Rec(s) \/ Rec(s) \notin A)
    BY <2>1, Zenon
  <2>2. \A t \in SUBSET s : t # s => Fold(t) = Rec(t) /\ Rec(t) \in A
    BY <2>1, Zenon
  <2> DEFINE g == [t \in SUBSET s |-> Rec(t)]
  <2>3. ASSUME NEW t \in SUBSET s, t # {}
        PROVE  /\ Fold(t \ {pick[t]}) = g[t \ {pick[t]}] /\ Fold(t \ {pick[t]}) \in A
               /\ pick[t] \in S
    <3>1. IsPicker(pick, t)
      BY <2>a, PickerSubset, Zenon
    <3>2. pick[t] \in t
      BY <2>3, <3>1, PickerIn, Zenon
    <3>3. t \ {pick[t]} \in SUBSET s /\ t \ {pick[t]} # s
      BY <3>2, Zenon
    <3> HIDE DEF Rec, Fold
    <3> QED
      BY <2>a, <2>2, <3>2, <3>3, Zenon
  <2>4. ASSUME NEW t \in SUBSET s
        PROVE  Rec(t) = IF t = {} THEN base ELSE step[<<g[t \ {pick[t]}], pick[t]>>]
    <3>1. CASE t = {}
      BY <3>1, Zenon
    <3>2. CASE t # {}
      <4>1. Fold(t \ {pick[t]}) = g[t \ {pick[t]}]
        BY <2>3, <3>2, Zenon
      <4>2. Rec(t) = step[<<Fold(t \ {pick[t]}), pick[t]>>]
        BY <3>2, Zenon
      <4> HIDE DEF Fold, Rec, g
      <4> QED
        BY <3>2, <4>1, <4>2, Zenon
    <3> QED
      BY <3>1, <3>2, Zenon
  <2>5. IsFold(g, step, base, pick, s)
    <3> HIDE DEF Rec
    <3>2. g = [t \in SUBSET s |-> IF t = {} THEN base ELSE step[<<g[t \ {pick[t]}], pick[t]>>]]
      BY <2>4, Zenon
    <3> QED
      BY <3>2, Zenon DEF IsFold
  <2>6. g = CHOOSE h : IsFold(h, step, base, pick, s)
    <3>1. IsPicker(pick, s)
      BY <2>a, PickerSubset, Zenon
    <3> HIDE DEF g
    <3>2. IsFold(CHOOSE h : IsFold(h, step, base, pick, s), step, base, pick, s)
      BY <2>5, Zenon
    <3> QED
      BY <2>5, <3>1, <3>2, FoldUnique, Zenon
  <2>7. Fold(s) = g[s]
    BY <2>6, Zenon
  <2>8. g[s] = Rec(s)
    BY Zenon
  <2>9. Rec(s) \in A
    <3>1. CASE s = {}
      BY <3>1, Zenon
    <3>2. CASE s # {}
      <4>1. <<Fold(s \ {pick[s]}), pick[s]>> \in A \X S
        BY <2>3, <3>2, Zenon
      <4>2. Rec(s) = step[<<Fold(s \ {pick[s]}), pick[s]>>]
        BY <3>2, Zenon
      <4> HIDE DEF Fold, Rec
      <4> QED
        BY <4>1, <4>2, Zenon
    <3> QED
      BY <3>1, <3>2, Zenon
  <2> HIDE DEF Fold, Rec, g
  <2> QED
    BY <2>a, <2>7, <2>8, <2>9, Zenon
<1> DEFINE h == [s \in SUBSET S |-> Rec(s)]
<1>2. h \in [SUBSET S -> A]
  <2> HIDE DEF Rec
  <2> QED
    BY <1>1, Zenon
<1>3. ASSUME NEW s \in SUBSET S
      PROVE  Rec(s) = IF s = {} THEN base ELSE step[<<h[s \ {pick[s]}], pick[s]>>]
  <2>1. CASE s = {}
    BY <2>1, Zenon
  <2>2. CASE s # {}
    <3>1. s \ {pick[s]} \in SUBSET S
      BY Zenon
    <3>2. Rec(s) = step[<<Fold(s \ {pick[s]}), pick[s]>>]
      BY <2>2, Zenon
    <3> HIDE DEF Fold, Rec
    <3>3. Fold(s \ {pick[s]}) = h[s \ {pick[s]}]
      BY <1>1, <3>1, Zenon
    <3> HIDE DEF h
    <3> QED
      BY <2>2, <3>2, <3>3, Zenon
  <2> QED
    BY <2>1, <2>2, Zenon
<1>4. h = [s \in SUBSET S |-> IF s = {} THEN base ELSE step[<<h[s \ {pick[s]}], pick[s]>>]]
  <2> HIDE DEF Rec
  <2> QED
    BY <1>3, Zenon
<1> QED
  <2> HIDE DEF h
  <2> QED
    BY <1>2, <1>4, Zenon DEF IsFold

-----------------------------------------------------------------------------
(* Products                                                                *)

\* h is the table of the products of f over the subsets of S.
IsProd(h, f, S) ==
    h = [s \in SUBSET S |-> IF s = {} THEN 1 ELSE f[Pick(s)] * h[s \ {Pick(s)}]]

\* The product of f over S, as the library's fold computes it.
Prod(f, S) == (CHOOSE h : IsProd(h, f, S))[S]

\* There is at most one table of products.
LEMMA ProdUnique ==
    ASSUME NEW f, NEW S, IsFiniteSet(S), NEW g, NEW h, IsProd(g, f, S), IsProd(h, f, S)
    PROVE  g = h
<1> DEFINE Differ == {s \in SUBSET S : g[s] # h[s]}
<1>0. /\ g = [s \in SUBSET S |-> IF s = {} THEN 1 ELSE f[Pick(s)] * g[s \ {Pick(s)}]]
      /\ h = [s \in SUBSET S |-> IF s = {} THEN 1 ELSE f[Pick(s)] * h[s \ {Pick(s)}]]
  BY Zenon DEF IsProd
<1>1. Differ = {}
  <2> SUFFICES ASSUME Differ # {} PROVE FALSE
    BY Zenon
  <2>0. Differ \in SUBSET SUBSET S
    BY Zenon
  <2>1. PICK s \in Differ : \A t \in Differ : t \subseteq s => t = s
    <3> HIDE DEF Differ
    <3> QED
      BY <2>0, SmallestSubset
  <2>2. CASE s = {}
    BY <1>0, <2>1, <2>2, Zenon
  <2>3. CASE s # {}
    <3>1. Pick(s) \in s
      BY <2>3, PickIn, Zenon
    <3>2. s \ {Pick(s)} \in SUBSET S /\ s \ {Pick(s)} # s
      BY <2>1, <3>1, Zenon
    <3>3. g[s \ {Pick(s)}] = h[s \ {Pick(s)}]
      BY <2>1, <3>2, Zenon
    <3>4. g[s] = f[Pick(s)] * g[s \ {Pick(s)}] /\ h[s] = f[Pick(s)] * h[s \ {Pick(s)}]
      BY <1>0, <2>1, <2>3, Zenon
    <3> QED
      BY <2>1, <3>3, <3>4, Zenon
  <2> QED
    BY <2>2, <2>3, Zenon
<1>2. \A s \in SUBSET S : g[s] = h[s]
  BY <1>1, Zenon
<1> QED
  BY <1>0, <1>2, Zenon

\* h gives, for naturals, every product, and the step from a subset to the
\* next.
IsProdTable(h, f, S) ==
    /\ h \in [SUBSET S -> Nat]
    /\ \A T \in SUBSET S : h[T] = Prod(f, T)
    /\ \A T \in SUBSET S : h[T] = IF T = {} THEN 1 ELSE f[Pick(T)] * h[T \ {Pick(T)}]

\* Such a table exists.
LEMMA ProdTable ==
    ASSUME NEW S, IsFiniteSet(S), NEW f, \A x \in S : f[x] \in Nat
    PROVE  \E h : IsProdTable(h, f, S)
<1> DEFINE step == [p \in Nat \X S |-> f[p[2]] * p[1]]
           pick == [s \in SUBSET S |-> Pick(s)]
<1>1. step \in [Nat \X S -> Nat] /\ 1 \in Nat
  <2>1. \A p \in Nat \X S : f[p[2]] * p[1] \in Nat
    <3>1. \A a, b \in Nat : a * b \in Nat
      BY SMT
    <3> QED
      BY <3>1, Zenon
  <2> QED
    BY <2>1, Zenon
<1>2. IsPicker(pick, S)
  BY PickIn, Zenon DEF IsPicker
<1>3. PICK h \in [SUBSET S -> Nat] : IsFold(h, step, 1, pick, S)
  <2> HIDE DEF step, pick
  <2> QED
    BY <1>1, <1>2, FoldExists, Zenon
<1>4. \A T \in SUBSET S : h[T] = IF T = {} THEN 1 ELSE f[Pick(T)] * h[T \ {Pick(T)}]
  <2>1. h = [s \in SUBSET S |-> IF s = {} THEN 1 ELSE step[<<h[s \ {pick[s]}], pick[s]>>]]
    BY <1>3, Zenon DEF IsFold
  <2>2. ASSUME NEW T \in SUBSET S, T # {}
        PROVE  h[T] = f[Pick(T)] * h[T \ {Pick(T)}]
    <3>1. Pick(T) \in S /\ pick[T] = Pick(T) /\ T \ {Pick(T)} \in SUBSET S
      BY <2>2, PickIn, Zenon
    <3>2. h[T] = step[<<h[T \ {Pick(T)}], Pick(T)>>]
      <4> HIDE DEF step, pick
      <4> QED
        BY <2>1, <2>2, <3>1, Zenon
    <3>3. <<h[T \ {Pick(T)}], Pick(T)>> \in Nat \X S
      BY <1>3, <3>1, Zenon
    <3> QED
      BY <3>2, <3>3, Zenon
  <2>3. h[{}] = 1
    BY <2>1, Zenon
  <2> QED
    BY <2>2, <2>3, Zenon
<1>5. ASSUME NEW T \in SUBSET S
      PROVE  h[T] = Prod(f, T)
  <2> DEFINE g == [s \in SUBSET T |-> h[s]]
  <2>1. \A s \in SUBSET T : g[s] = IF s = {} THEN 1 ELSE f[Pick(s)] * g[s \ {Pick(s)}]
    <3>1. \A s \in SUBSET T : s \ {Pick(s)} \in SUBSET T /\ s \in SUBSET S
      BY Zenon
    <3> QED
      BY <1>4, <3>1, Zenon
  <2>2. IsProd(g, f, T)
    <3>1. g = [s \in SUBSET T |-> g[s]]
      BY Zenon
    <3> HIDE DEF g
    <3>2. g = [s \in SUBSET T |-> IF s = {} THEN 1 ELSE f[Pick(s)] * g[s \ {Pick(s)}]]
      BY <2>1, <3>1, Zenon
    <3> QED
      BY <3>2, Zenon DEF IsProd
  <2>3. IsFiniteSet(T)
    BY FS_Subset, Zenon
  <2>4. g = CHOOSE k : IsProd(k, f, T)
    <3> HIDE DEF g
    <3>1. IsProd(CHOOSE k : IsProd(k, f, T), f, T)
      BY <2>2, Zenon
    <3> QED
      BY <2>2, <2>3, <3>1, ProdUnique, Zenon
  <2>5. g[T] = h[T]
    BY Zenon
  <2> QED
    BY <2>4, <2>5, Zenon DEF Prod
<1> QED
  BY <1>3, <1>4, <1>5, Zenon DEF IsProdTable

\* Products of naturals are naturals.
LEMMA ProdType ==
    ASSUME NEW S, IsFiniteSet(S), NEW f, \A x \in S : f[x] \in Nat
    PROVE  Prod(f, S) \in Nat
<1>1. PICK h : IsProdTable(h, f, S)
  BY ProdTable, Zenon
<1> QED
  BY <1>1, Zenon DEF IsProdTable

\* The factor of any element can be split off a product.
LEMMA ProdRemove ==
    ASSUME NEW S, IsFiniteSet(S), NEW f, \A x \in S : f[x] \in Nat, NEW x \in S
    PROVE  Prod(f, S) = f[x] * Prod(f, S \ {x})
<1>0. PICK h : IsProdTable(h, f, S)
  BY ProdTable, Zenon
<1>1. /\ h \in [SUBSET S -> Nat]
      /\ \A T \in SUBSET S : h[T] = Prod(f, T)
      /\ \A T \in SUBSET S : h[T] = IF T = {} THEN 1 ELSE f[Pick(T)] * h[T \ {Pick(T)}]
  BY <1>0, Zenon DEF IsProdTable
<1> DEFINE Removes(T) == \A y \in T : h[T] = f[y] * h[T \ {y}]
           Bad == {T \in SUBSET S : ~Removes(T)}
<1>2. Removes(S)
  <2> SUFFICES ASSUME Bad # {} PROVE FALSE
    BY Zenon
  <2>0. Bad \in SUBSET SUBSET S
    BY Zenon
  <2>1. PICK T \in Bad : \A R \in Bad : R \subseteq T => R = T
    <3> HIDE DEF Bad
    <3> QED
      BY <2>0, SmallestSubset
  <2>2. PICK y \in T : h[T] # f[y] * h[T \ {y}]
    BY <2>1, Zenon
  <2>3. T \in SUBSET S /\ \A R \in SUBSET T : R # T => Removes(R)
    BY <2>1, Zenon
  <2>4. Pick(T) \in T /\ h[T] = f[Pick(T)] * h[T \ {Pick(T)}]
    BY <1>1, <2>2, <2>3, PickIn, Zenon
  <2>5. y # Pick(T)
    BY <2>2, <2>4, Zenon
  <2> DEFINE p == Pick(T)
             R == (T \ {p}) \ {y}
  <2>6. h[T \ {p}] = f[y] * h[R]
    <3>1. T \ {p} \in SUBSET T /\ T \ {p} # T /\ y \in T \ {p}
      BY <2>4, <2>5, Zenon
    <3> QED
      BY <2>3, <3>1, Zenon
  <2>7. h[T \ {y}] = f[p] * h[R]
    <3>1. T \ {y} \in SUBSET T /\ T \ {y} # T /\ p \in T \ {y} /\ (T \ {y}) \ {p} = R
      BY <2>2, <2>4, <2>5, Zenon
    <3> HIDE DEF R, p
    <3> QED
      BY <2>3, <3>1, Zenon
  <2>8. f[y] \in Nat /\ f[p] \in Nat /\ h[R] \in Nat
    BY <1>1, <2>3, <2>4, Zenon
  <2>9. \A a, b, c \in Nat : a * (b * c) = b * (a * c)
    BY SMT
  <2> HIDE DEF R, p
  <2>10. f[p] * (f[y] * h[R]) = f[y] * (f[p] * h[R])
    BY <2>8, <2>9, Zenon
  <2> QED
    BY <2>2, <2>4, <2>6, <2>7, <2>10, Zenon DEF p
<1> QED
  BY <1>1, <1>2, Zenon

-----------------------------------------------------------------------------
(* Loops over sequences                                                    *)

\* The positions of a sequence are a finite set of numbers.
LEMMA IndicesAreIndexSet == \A n \in Nat : IsIndexSet(1 .. n)
<1> SUFFICES ASSUME NEW n \in Nat PROVE IsIndexSet(1 .. n)
  BY Zenon
<1>1. IsFiniteSet(1 .. n)
  BY FS_Interval, SMT
<1> QED
  BY <1>1 DEF IsIndexSet

\* The last position of a prefix, and the prefix without it.
LEMMA PrefixTop ==
    ASSUME NEW k \in Nat \ {0}
    PROVE  1 .. k # {} /\ Top(1 .. k) = k /\ (1 .. k) \ {k} = 1 .. (k - 1)
<1>1. 1 .. k # {} /\ (1 .. k) \ {k} = 1 .. (k - 1) /\ k \in 1 .. k
  OBVIOUS
<1>2. Top(1 .. k) \in 1 .. k /\ \A y \in 1 .. k : Top(1 .. k) >= y
  BY <1>1, IndicesAreIndexSet, TopIn, Zenon
<1> QED
  BY <1>1, <1>2

\* A set of naturals has a least member.
LEMMA LeastNatural ==
    ASSUME NEW T \in SUBSET Nat, T # {}
    PROVE  \E t \in T : \A u \in T : t <= u
<1>1. PICK n \in T : TRUE
  BY Zenon
<1> DEFINE U == {n - u : u \in {v \in T : v <= n}}
<1>2. U \in SUBSET Nat /\ 0 \in U /\ \A u \in U : u <= n
  BY <1>1
<1>3. IsFiniteSet(U)
  <2> HIDE DEF U
  <2> QED
    BY <1>1, <1>2, FS_BoundedSetOfNaturals, Zenon
<1>4. Top(U) \in U /\ \A y \in U : Top(U) >= y
  <2> HIDE DEF U
  <2>1. IsIndexSet(U) /\ U # {}
    BY <1>2, <1>3 DEF IsIndexSet
  <2> QED
    BY <2>1, TopIn, Zenon
<1>5. PICK t \in T : t <= n /\ Top(U) = n - t
  BY <1>4, Zenon
<1>6. ASSUME NEW u \in T PROVE t <= u
  <2>1. CASE u <= n
    <3>1. n - u \in U
      BY <2>1, Zenon
    <3>2. n - t >= n - u
      BY <1>4, <1>5, <3>1, Zenon
    <3> QED
      BY <1>1, <1>5, <3>2
  <2>2. CASE ~(u <= n)
    <3>1. u \in Nat /\ t \in Nat /\ n \in Nat /\ t <= n
      BY <1>1, <1>5, Zenon
    <3> QED
      BY <2>2, <3>1
  <2> QED
    BY <2>1, <2>2, Zenon
<1> QED
  BY <1>6, Zenon

\* Induction up to n, with the property given as the set Good.
LEMMA NaturalInduction ==
    ASSUME NEW Good, 0 \in Good, NEW n \in Nat,
           \A k \in 1 .. n : k - 1 \in Good => k \in Good
    PROVE  \A k \in 0 .. n : k \in Good
<1> DEFINE Bad == {k \in 0 .. n : k \notin Good}
<1> SUFFICES ASSUME Bad # {} PROVE FALSE
  BY Zenon
<1>1. Bad \in SUBSET Nat
  OBVIOUS
<1>2. PICK k \in Bad : \A u \in Bad : k <= u
  <2> HIDE DEF Bad
  <2> QED
    BY <1>1, LeastNatural, Zenon
<1>3. k # 0 /\ k \in 1 .. n /\ k - 1 \in 0 .. n
  BY <1>2
<1>4. k - 1 \in Good
  BY <1>2, <1>3
<1> QED
  BY <1>2, <1>3, <1>4, Zenon

\* h is the table of a fold over the positions 1 .. n in their order.
IsScan(h, step, base, n) ==
    h = [s \in SUBSET (1 .. n) |-> IF s = {} THEN base ELSE step[<<h[s \ {Top(s)}], Top(s)>>]]

\* t is that fold as a run: its value after each of the n steps.
IsRun(t, step, base, n) ==
    /\ t[0] = base
    /\ \A k \in 1 .. n : t[k] = step[<<t[k - 1], k>>]

\* The fold of step from base over 1 .. n has a run that ends in result.
Runs(step, base, n, A, result) ==
    \E t \in [0 .. n -> A] : IsRun(t, step, base, n) /\ t[n] = result

\* A fold over positions has a table, typed by the step's result.
LEMMA ScanExists ==
    ASSUME NEW n \in Nat, NEW A, NEW base \in A, NEW step \in [A \X (1 .. n) -> A]
    PROVE  \E h \in [SUBSET (1 .. n) -> A] :
             /\ IsScan(h, step, base, n)
             /\ \A s \in SUBSET (1 .. n) : s # {} => <<h[s \ {Top(s)}], Top(s)>> \in A \X (1 .. n)
<1> DEFINE D == 1 .. n
           pick == [s \in SUBSET D |-> Top(s)]
<1>1. IsIndexSet(D)
  BY IndicesAreIndexSet, Zenon
<1>2. IsPicker(pick, D)
  BY <1>1, TopPicks, Zenon
<1>3. PICK h \in [SUBSET D -> A] : IsFold(h, step, base, pick, D)
  <2> HIDE DEF D, pick
  <2> QED
    BY <1>2, FoldExists, Zenon DEF D
<1>4. IsScan(h, step, base, n)
  <2>1. h = [s \in SUBSET D |-> IF s = {} THEN base ELSE step[<<h[s \ {pick[s]}], pick[s]>>]]
    BY <1>3, Zenon DEF IsFold
  <2>2. \A s \in SUBSET D : pick[s] = Top(s)
    BY Zenon
  <2> HIDE DEF pick
  <2> QED
    BY <2>1, <2>2, Zenon DEF IsScan
<1>5. ASSUME NEW s \in SUBSET D, s # {} PROVE <<h[s \ {Top(s)}], Top(s)>> \in A \X D
  <2>1. Top(s) \in s
    BY <1>1, <1>5, IndexSubset, TopIn, Zenon
  <2>2. Top(s) \in D
    BY <2>1, Zenon
  <2>3. s \ {Top(s)} \in SUBSET D
    BY Zenon
  <2>4. h[s \ {Top(s)}] \in A
    BY <1>3, <2>3, Zenon
  <2> QED
    BY <2>2, <2>4, Zenon
<1> QED
  BY <1>3, <1>4, <1>5, Zenon

\* g obeys the equations of the fold wherever it has a value in A.
ScansFrom(g, step, base, n, A) ==
    /\ g[{}] = base
    /\ \A s \in SUBSET (1 .. n) :
         s # {} /\ g[s \ {Top(s)}] \in A => g[s] = step[<<g[s \ {Top(s)}], Top(s)>>]

\* The largest of some of the positions 1 .. n is one of them.
LEMMA TopOfPrefix ==
    ASSUME NEW n \in Nat, NEW s \in SUBSET (1 .. n), s # {}
    PROVE  Top(s) \in 1 .. n
<1>1. IsIndexSet(s)
  BY IndicesAreIndexSet, IndexSubset, Zenon
<1>2. Top(s) \in s
  BY <1>1, TopIn, Zenon
<1> QED
  BY <1>2, Zenon

\* What the library's folds compute over a sequence is the end of a run of its
\* steps. This turns a loop of the code into steps an induction can follow.
LEMMA ScanRuns ==
    ASSUME NEW n \in Nat, NEW A, NEW base \in A, NEW step \in [A \X (1 .. n) -> A], NEW g,
           ScansFrom(g, step, base, n, A)
    PROVE  Runs(step, base, n, A, g[1 .. n])
<1> DEFINE t == [k \in 0 .. n |-> g[1 .. k]]
           Good == {k \in 0 .. n : t[k] \in A}
<1>1. t[0] = base
  <2>1. 1 .. 0 = {} /\ 0 \in 0 .. n
    OBVIOUS
  <2> QED
    BY <2>1, Zenon DEF ScansFrom
<1>2. ASSUME NEW k \in 1 .. n, t[k - 1] \in A
      PROVE  t[k] = step[<<t[k - 1], k>>] /\ t[k] \in A
  <2>1. k \in Nat \ {0} /\ k \in 0 .. n /\ k - 1 \in 0 .. n /\ 1 .. k \in SUBSET (1 .. n)
    OBVIOUS
  <2>2. 1 .. k # {} /\ Top(1 .. k) = k /\ (1 .. k) \ {k} = 1 .. (k - 1)
    BY <2>1, PrefixTop, Zenon
  <2>3. t[k - 1] = g[1 .. (k - 1)] /\ t[k] = g[1 .. k]
    BY <2>1, Zenon
  <2>4. g[1 .. k] = step[<<g[1 .. (k - 1)], k>>]
    <3> HIDE DEF t
    <3> QED
      BY <1>2, <2>1, <2>2, <2>3, Zenon DEF ScansFrom
  <2>5. <<t[k - 1], k>> \in A \X (1 .. n)
    BY <1>2, Zenon
  <2> HIDE DEF t
  <2> QED
    BY <2>3, <2>4, <2>5, Zenon
<1>3. \A k \in 0 .. n : k \in Good
  <2>1. 0 \in Good
    BY <1>1
  <2>2. ASSUME NEW k \in 1 .. n, k - 1 \in Good PROVE k \in Good
    <3>1. t[k - 1] \in A /\ k \in 0 .. n
      BY <2>2
    <3> HIDE DEF t
    <3> QED
      BY <1>2, <3>1, Zenon
  <2> HIDE DEF Good
  <2> QED
    BY <2>1, <2>2, NaturalInduction, Zenon
<1>4. t \in [0 .. n -> A] /\ t[n] = g[1 .. n]
  BY <1>3
<1>5. \A k \in 1 .. n : t[k - 1] \in A
  <2>1. \A k \in 1 .. n : k - 1 \in 0 .. n
    OBVIOUS
  <2> HIDE DEF t
  <2> QED
    BY <1>4, <2>1, Zenon
<1> HIDE DEF t
<1>6. IsRun(t, step, base, n)
  BY <1>1, <1>2, <1>5, Zenon DEF IsRun
<1> QED
  BY <1>4, <1>6, Zenon DEF Runs

-----------------------------------------------------------------------------
(* Rounding, parts and tables                                              *)

\* Division of naturals rounds down.
LEMMA QuotientNat ==
    ASSUME NEW n \in Nat, NEW d \in Nat \ {0}
    PROVE  n \div d \in Nat /\ d * (n \div d) <= n
BY SMT

\* Rounding each part down keeps the sum within the whole.
LEMMA SumOfQuotients ==
    ASSUME NEW S, IsFiniteSet(S), NEW f, \A x \in S : f[x] \in Nat,
           NEW d \in Nat \ {0}, NEW n \in Nat, SumFunctionOnSet(f, S) <= n * d,
           NEW h, \A x \in S : h[x] = f[x] \div d
    PROVE  /\ \A x \in S : h[x] \in Nat
           /\ SumFunctionOnSet(h, S) \in Nat /\ SumFunctionOnSet(h, S) <= n
<1> DEFINE g == [x \in S |-> d * h[x]]
<1>1. \A x \in S : h[x] \in Nat /\ d * h[x] <= f[x]
  BY QuotientNat, Zenon
<1>2. \A x \in S : g[x] = d * h[x]
  BY Zenon
<1>3. \A x \in S : g[x] \in Int /\ f[x] \in Int /\ g[x] <= f[x]
  <2>1. \A a, b \in Nat : a * b \in Nat
    OBVIOUS
  <2> HIDE DEF g
  <2> QED
    BY <1>1, <1>2, <2>1
<1> HIDE DEF g
<1>4. SumFunctionOnSet(g, S) <= SumFunctionOnSet(f, S)
  BY <1>3, SumMonotone, Zenon
<1>5. \A x \in S : h[x] \in Int
  BY <1>1
<1>6. SumFunctionOnSet(g, S) = d * SumFunctionOnSet(h, S)
  BY <1>2, <1>5, SumScale
<1>7. SumFunctionOnSet(h, S) \in Nat /\ SumFunctionOnSet(f, S) \in Nat
  BY <1>1, SumType, Zenon
<1>8. \A a, b \in Nat : \A c \in Nat \ {0} : c * a <= b * c => a <= b
  BY SMT
<1>9. PICK a \in Nat, b \in Nat, c \in Nat :
        a = SumFunctionOnSet(h, S) /\ b = SumFunctionOnSet(f, S) /\ c = n * d
  <2>1. n * d \in Nat
    OBVIOUS
  <2> QED
    BY <1>7, <2>1, Zenon
<1>10. d * a <= b /\ b <= c /\ d * a \in Nat
  <2>1. d * a \in Nat
    OBVIOUS
  <2> QED
    BY <1>4, <1>6, <1>9, <2>1, Zenon
<1>11. d * a <= n * d
  BY <1>9, <1>10
<1>12. a <= n
  BY <1>8, <1>11, Zenon
<1> QED
  BY <1>1, <1>9, <1>12, Zenon

\* The parts of disjoint owners add up to no more than the whole; what has no
\* owner is left out.
LEMMA SumOfParts ==
    ASSUME NEW S, IsFiniteSet(S), NEW f, \A x \in S : f[x] \in Nat,
           NEW pod, \A x \in S : \A u, v \in pod[x] : u = v,
           NEW U, IsFiniteSet(U),
           NEW h, \A u \in U : h[u] = SumFunctionOnSet(f, {x \in S : u \in pod[x]})
    PROVE  /\ \A u \in U : h[u] \in Nat
           /\ SumFunctionOnSet(h, U) <= SumFunctionOnSet(f, S)
<1> DEFINE T == {x \in S : \E u \in U : u \in pod[x]}
           key == [x \in T |-> CHOOSE u \in U : u \in pod[x]]
           Of(u) == {x \in S : u \in pod[x]}
<1>1. T \in SUBSET S /\ IsFiniteSet(T) /\ \A x \in T : key[x] \in U /\ key[x] \in pod[x] /\ f[x] \in Int
  <2>1. T \in SUBSET S /\ IsFiniteSet(T)
    BY FS_Subset, Zenon
  <2> QED
    BY <2>1
<1>2. ASSUME NEW u \in U PROVE Fibre(T, key, u) = Of(u)
  <2>1. \A x \in T : key[x] = u => u \in pod[x]
    BY <1>1, Zenon
  <2>2. \A x \in Of(u) : x \in T /\ key[x] = u
    <3> SUFFICES ASSUME NEW x \in Of(u) PROVE x \in T /\ key[x] = u
      BY Zenon
    <3>1. x \in T
      BY Zenon
    <3>2. key[x] \in pod[x] /\ u \in pod[x] /\ x \in S
      BY <1>1, <3>1, Zenon
    <3> HIDE DEF key, T
    <3> QED
      BY <3>1, <3>2, Zenon
  <2> HIDE DEF key
  <2> QED
    BY <2>1, <2>2, Zenon DEF Fibre
<1>3. \A u \in U : h[u] = SumFunctionOnSet(f, Fibre(T, key, u))
  BY <1>2, Zenon
<1>4. \A u \in U : h[u] \in Nat
  <2> SUFFICES ASSUME NEW u \in U PROVE h[u] \in Nat
    BY Zenon
  <2>1. Of(u) \in SUBSET S /\ h[u] = SumFunctionOnSet(f, Of(u))
    BY Zenon
  <2> HIDE DEF Of
  <2>2. IsFiniteSet(Of(u))
    BY <2>1, FS_Subset, Zenon
  <2> QED
    BY <2>1, <2>2, SumType
<1> HIDE DEF T, key
<1>5. SumFunctionOnSet(h, U) = SumFunctionOnSet(f, T)
  BY <1>1, <1>3, SumGroups
<1>6. SumFunctionOnSet(f, T) <= SumFunctionOnSet(f, S)
  BY <1>1, SumSubset, Zenon
<1> QED
  BY <1>4, <1>5, <1>6, Zenon

\* One column of a table, as a function of the row.
ColumnOf(m, U, c) == [u \in U |-> m[u][c]]

\* byU and byC are the sums of the rows and of the columns of the table m.
Margins(m, U, C, byU, byC) ==
    /\ \A u \in U : \A c \in C : m[u][c] \in Int
    /\ \A u \in U : byU[u] = SumFunctionOnSet(m[u], C)
    /\ \A c \in C : byC[c] = SumFunctionOnSet(ColumnOf(m, U, c), U)

\* The rows and the columns of a table have the same total.
LEMMA SumSwap ==
    ASSUME NEW U, IsFiniteSet(U), NEW C, IsFiniteSet(C), NEW m, NEW byU, NEW byC,
           Margins(m, U, C, byU, byC)
    PROVE  SumFunctionOnSet(byU, U) = SumFunctionOnSet(byC, C)
<1> USE DEF Margins
<1> DEFINE Row(T) == [u \in U |-> SumFunctionOnSet(m[u], T)]
           Good == {T \in SUBSET C : SumFunctionOnSet(Row(T), U) = SumFunctionOnSet(byC, T)}
<1>0. \A T \in SUBSET C : IsFiniteSet(T)
  BY FS_Subset, Zenon
<1>1. {} \in Good
  <2>1. \A u \in U : Row({})[u] = 0
    BY SumEmpty, Zenon
  <2> HIDE DEF Row
  <2>2. SumFunctionOnSet(Row({}), U) = 0
    BY <2>1, SumZero, Zenon
  <2> QED
    BY <2>2, SumEmpty, Zenon
<1>2. \A c \in C : byC[c] \in Int
  <2> SUFFICES ASSUME NEW c \in C PROVE byC[c] \in Int
    BY Zenon
  <2>1. \A u \in U : ColumnOf(m, U, c)[u] \in Int
    BY Zenon DEF ColumnOf
  <2>2. byC[c] = SumFunctionOnSet(ColumnOf(m, U, c), U)
    BY Zenon
  <2> QED
    BY <2>1, <2>2, SumType, Zenon
<1>3. ASSUME NEW T \in SUBSET C, NEW c \in T, T \ {c} \in Good
      PROVE  T \in Good
  <2>1. \A u \in U : /\ Row(T \ {c})[u] \in Int /\ ColumnOf(m, U, c)[u] \in Int
                     /\ Row(T)[u] = Row(T \ {c})[u] + ColumnOf(m, U, c)[u]
    <3> SUFFICES ASSUME NEW u \in U
                 PROVE  /\ Row(T \ {c})[u] \in Int /\ ColumnOf(m, U, c)[u] \in Int
                        /\ Row(T)[u] = Row(T \ {c})[u] + ColumnOf(m, U, c)[u]
      BY Zenon
    <3>1. \A d \in T : m[u][d] \in Int
      BY Zenon
    <3>2. SumFunctionOnSet(m[u], T) = m[u][c] + SumFunctionOnSet(m[u], T \ {c})
      BY <1>0, <3>1, SumRemove, Zenon
    <3>3. SumFunctionOnSet(m[u], T \ {c}) \in Int
      <4>1. T \ {c} \in SUBSET C
        BY Zenon
      <4> QED
        BY <1>0, <3>1, <4>1, SumType, Zenon
    <3>4. m[u][c] \in Int
      BY Zenon
    <3> QED
      BY <3>2, <3>3, <3>4 DEF ColumnOf
  <2>2. SumFunctionOnSet(Row(T), U) = SumFunctionOnSet(Row(T \ {c}), U) + SumFunctionOnSet(ColumnOf(m, U, c), U)
    <3> HIDE DEF Row
    <3>1. PICK a, b, d : a = Row(T \ {c}) /\ b = ColumnOf(m, U, c) /\ d = Row(T)
      BY Zenon
    <3>2. \A u \in U : a[u] \in Int /\ b[u] \in Int /\ d[u] = a[u] + b[u]
      BY <2>1, <3>1, Zenon
    <3>3. SumFunctionOnSet(d, U) = SumFunctionOnSet(a, U) + SumFunctionOnSet(b, U)
      BY <3>2, SumPlus, Zenon
    <3> QED
      BY <3>1, <3>3, Zenon
  <2>3. SumFunctionOnSet(ColumnOf(m, U, c), U) = byC[c]
    BY Zenon
  <2>4. SumFunctionOnSet(byC, T) = byC[c] + SumFunctionOnSet(byC, T \ {c})
    BY <1>0, <1>2, SumRemove, Zenon
  <2>5. byC[c] \in Int /\ SumFunctionOnSet(byC, T \ {c}) \in Int
    <3>1. T \ {c} \in SUBSET C
      BY Zenon
    <3> QED
      BY <1>0, <1>2, <3>1, SumType, Zenon
  <2>6. SumFunctionOnSet(Row(T \ {c}), U) = SumFunctionOnSet(byC, T \ {c})
    BY <1>3, Zenon
  <2> HIDE DEF Row
  <2> QED
    BY <2>2, <2>3, <2>4, <2>5, <2>6
<1>4. C \in Good
  <2> HIDE DEF Good
  <2> QED
    BY <1>1, <1>3, SubsetInduction, Zenon
<1>5. SumFunctionOnSet(Row(C), U) = SumFunctionOnSet(byU, U)
  <2>1. \A u \in U : Row(C)[u] = byU[u]
    BY Zenon
  <2> HIDE DEF Row
  <2> QED
    BY <2>1, SumCongruent, Zenon
<1> QED
  BY <1>4, <1>5, Zenon

\* A product of positive numbers is positive.
LEMMA ProdPositive ==
    ASSUME NEW S, IsFiniteSet(S), NEW f, \A x \in S : f[x] \in Nat \ {0}
    PROVE  Prod(f, S) \in Nat \ {0}
<1> DEFINE Good == {T \in SUBSET S : Prod(f, T) \in Nat \ {0}}
<1>0. \A T \in SUBSET S : IsFiniteSet(T) /\ \A x \in T : f[x] \in Nat
  BY FS_Subset, Zenon
<1>1. {} \in Good
  <2>1. PICK h : IsProdTable(h, f, {})
    BY <1>0, ProdTable, Zenon
  <2>2. h[{}] = Prod(f, {}) /\ h[{}] = 1
    BY <2>1, Zenon DEF IsProdTable
  <2> QED
    BY <2>2
<1>2. ASSUME NEW T \in SUBSET S, NEW x \in T, T \ {x} \in Good
      PROVE  T \in Good
  <2>1. Prod(f, T) = f[x] * Prod(f, T \ {x})
    BY <1>0, ProdRemove, Zenon
  <2>2. \A a, b \in Nat \ {0} : a * b \in Nat \ {0}
    BY SMT
  <2> QED
    BY <1>2, <2>1, <2>2, Zenon
<1> HIDE DEF Good
<1>3. S \in Good
  BY <1>1, <1>2, SubsetInduction, Zenon
<1> QED
  BY <1>3, Zenon DEF Good
=============================================================================
