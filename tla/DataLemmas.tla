------------------------------ MODULE DataLemmas ------------------------------
(***************************************************************************)
(* Lemmas on what the contracts' data are made of, for every function, set *)
(* and sequence: sums over finite sets and fields of byte entries.         *)
(***************************************************************************)
EXTENDS EntryBytes, FiniteSets, Functions, FiniteSetTheorems, SequenceTheorems,
        WellFoundedInduction, TLAPS

-----------------------------------------------------------------------------
\* Sums

\* SumFunctionOnSet(f, S) of the community module Functions is defined by recursion
\* over the subsets of S, taking out one chosen element at a time, and the prover
\* knows nothing about that recursion: that it defines anything, and that the order
\* of the choices does not matter, is proved here by taking a smallest counterexample.

\* The element that the library's fold takes out of a set first.
Pick(s) == CHOOSE x \in s : TRUE

\* g is the fold's iterator for the sum of f over the subsets of S.
Iterates(g, f, S) ==
  g = [s \in SUBSET S |-> IF s = {} THEN 0 ELSE f[Pick(s)] + g[s \ {Pick(s)}]]

-----------------------------------------------------------------------------

\* Every nonempty set of natural numbers has a least element.
LEMMA LeastNatural ==
  ASSUME NEW T, T \subseteq Nat, T # {}
  PROVE  \E n \in T : \A m \in T : n <= m
<1> DEFINE R == OpToRel(<, Nat)
<1>1. IsWellFoundedOn(R, Nat)
  BY Zenon, NatLessThanWellFounded
<1>2. \A x, y \in Nat : <<x, y>> \in R <=> x < y
  BY Zenon DEF OpToRel
<1> HIDE DEF R
<1>3. PICK n \in T : \A m \in T : ~(<<m, n>> \in R)
  BY <1>1, WFMin
<1>4. \A m \in T : ~(m < n)
  BY <1>2, <1>3
<1> QED BY <1>4

\* Every nonempty family of subsets of a finite set has a smallest member;
\* a subset with fewer elements is not in the family.
LEMMA SmallestSubset ==
  ASSUME NEW S, IsFiniteSet(S), NEW Family \in SUBSET (SUBSET S), Family # {}
  PROVE  \E s \in Family : /\ IsFiniteSet(s)
                           /\ \A x \in s : s \ {x} \notin Family
<1> DEFINE Sizes == {Cardinality(s) : s \in Family}
<1>1. \A s \in Family : IsFiniteSet(s) /\ Cardinality(s) \in Nat
  BY FS_Subset, FS_CardinalityType
<1>2. Sizes \subseteq Nat /\ Sizes # {}
  BY <1>1
<1>3. PICK n \in Sizes : \A m \in Sizes : n <= m
  <2> HIDE DEF Sizes
  <2> QED BY <1>2, LeastNatural
<1>4. PICK s \in Family : n = Cardinality(s)
  BY <1>3
<1>5. ASSUME NEW x \in s, s \ {x} \in Family PROVE FALSE
  <2>1. Cardinality(s \ {x}) = Cardinality(s) - 1
    BY <1>1, FS_RemoveElement
  <2>2. Cardinality(s) <= Cardinality(s \ {x})
    BY <1>3, <1>4, <1>5
  <2> QED BY <2>1, <2>2, <1>1
<1> QED BY <1>1, <1>4, <1>5

\* Two iterators agree on every finite set they are both defined on.
LEMMA IteratorsAgree ==
  ASSUME NEW f, NEW A, NEW B, NEW g, NEW h, Iterates(g, f, A), Iterates(h, f, B),
         NEW C, IsFiniteSet(C), C \subseteq A, C \subseteq B
  PROVE  g[C] = h[C]
<1> DEFINE Differ == {s \in SUBSET C : g[s] # h[s]}
<1> SUFFICES ASSUME Differ # {} PROVE FALSE
  OBVIOUS
<1>1. PICK s \in Differ : IsFiniteSet(s) /\ \A x \in s : s \ {x} \notin Differ
  <2> Differ \in SUBSET (SUBSET C)
    OBVIOUS
  <2> HIDE DEF Differ
  <2> QED BY SmallestSubset
<1>2. CASE s = {}
  BY <1>2 DEF Iterates
<1>3. CASE s # {}
  <2>1. Pick(s) \in s /\ s \ {Pick(s)} \in SUBSET C
    BY <1>3 DEF Pick
  <2>2. g[s \ {Pick(s)}] = h[s \ {Pick(s)}]
    BY <2>1, <1>1
  <2>3. g[s] = f[Pick(s)] + g[s \ {Pick(s)}]
    BY <1>3 DEF Iterates
  <2>4. h[s] = f[Pick(s)] + h[s \ {Pick(s)}]
    BY <1>3 DEF Iterates
  <2> QED BY <2>2, <2>3, <2>4
<1> QED BY <1>2, <1>3

\* The recursion defines an iterator for every finite set.
LEMMA IteratorExists ==
  ASSUME NEW f, NEW S, IsFiniteSet(S)
  PROVE  \E g : Iterates(g, f, S)
<1> DEFINE Without == {s \in SUBSET S : ~ \E g : Iterates(g, f, s)}
<1> SUFFICES ASSUME Without # {} PROVE FALSE
  OBVIOUS
<1>1. PICK s \in Without : IsFiniteSet(s) /\ \A x \in s : s \ {x} \notin Without
  <2> Without \in SUBSET (SUBSET S)
    OBVIOUS
  <2> HIDE DEF Without
  <2> QED BY SmallestSubset
<1> DEFINE It(x) == CHOOSE g : Iterates(g, f, s \ {x})
           Value(t) == IF t = {} THEN 0
                       ELSE f[Pick(t)] + It(Pick(t))[t \ {Pick(t)}]
           G == [t \in SUBSET s |-> Value(t)]
<1>2. \A x \in s : Iterates(It(x), f, s \ {x})
  BY <1>1
<1>3. \A t \in SUBSET s : t # {} => Pick(t) \in t /\ t \ {Pick(t)} \in SUBSET s
  BY DEF Pick
<1>4. \A t \in SUBSET s, x \in s : x \notin t => It(x)[t] = G[t]
  <2> SUFFICES ASSUME NEW t \in SUBSET s, NEW x \in s, x \notin t
               PROVE  It(x)[t] = G[t]
    OBVIOUS
  <2>1. It(x) = [u \in SUBSET (s \ {x}) |->
                   IF u = {} THEN 0 ELSE f[Pick(u)] + It(x)[u \ {Pick(u)}]]
    BY <1>2 DEF Iterates
  <2>2. It(x)[t] = IF t = {} THEN 0 ELSE f[Pick(t)] + It(x)[t \ {Pick(t)}]
    <3> HIDE DEF It
    <3> QED BY <2>1
  <2>3. G[t] = Value(t)
    OBVIOUS
  <2>4. CASE t = {}
    BY <2>2, <2>3, <2>4
  <2>5. CASE t # {}
    <3> DEFINE c == Pick(t)
    <3>1. c \in t /\ c \in s /\ t \ {c} \subseteq s \ {c} /\ t \ {c} \subseteq s \ {x}
      BY <2>5, <1>3
    <3>2. IsFiniteSet(t \ {c})
      BY <1>1, FS_Subset
    <3>3. It(x)[t \ {c}] = It(c)[t \ {c}]
      <4>1. Iterates(It(x), f, s \ {x}) /\ Iterates(It(c), f, s \ {c})
        BY <1>2, <3>1
      <4> HIDE DEF It, c
      <4> QED BY <4>1, <3>1, <3>2, IteratorsAgree
    <3> HIDE DEF It
    <3> QED BY <2>2, <2>3, <2>5, <3>3
  <2> QED BY <2>4, <2>5
<1>5. Iterates(G, f, s)
  <2>1. ASSUME NEW t \in SUBSET s
        PROVE  Value(t) = IF t = {} THEN 0 ELSE f[Pick(t)] + G[t \ {Pick(t)}]
    <3>1. CASE t = {}
      BY <3>1
    <3>2. CASE t # {}
      <4>1. Pick(t) \in s /\ t \ {Pick(t)} \in SUBSET s /\ Pick(t) \notin t \ {Pick(t)}
        BY <3>2, <1>3
      <4>2. It(Pick(t))[t \ {Pick(t)}] = G[t \ {Pick(t)}]
        <5> HIDE DEF G, It
        <5> QED BY <4>1, <1>4
      <4>3. Value(t) = f[Pick(t)] + It(Pick(t))[t \ {Pick(t)}]
        BY <3>2
      <4> QED BY <3>2, <4>2, <4>3
    <3> QED BY <3>1, <3>2
  <2>2. G = [t \in SUBSET s |-> IF t = {} THEN 0 ELSE f[Pick(t)] + G[t \ {Pick(t)}]]
    <3> HIDE DEF Value
    <3> QED BY <2>1
  <2> HIDE DEF G
  <2> QED BY <2>2 DEF Iterates
<1> QED BY <1>1, <1>5

-----------------------------------------------------------------------------

\* The sum over the empty set is 0.
LEMMA SumOfNone ==
  ASSUME NEW f
  PROVE  SumFunctionOnSet(f, {}) = 0
<1> DEFINE g == CHOOSE g : Iterates(g, f, {})
<1>1. Iterates(g, f, {})
  BY IteratorExists, FS_EmptySet
<1>2. SumFunctionOnSet(f, {}) = g[{}]
  BY DEF SumFunctionOnSet, FoldFunctionOnSet, MapThenFoldSet, Iterates, Pick
<1> HIDE DEF g
<1> QED BY <1>1, <1>2 DEF Iterates

\* The sum over a nonempty finite set takes out the picked element.
LEMMA SumOfPicked ==
  ASSUME NEW f, NEW S, IsFiniteSet(S), S # {}
  PROVE  SumFunctionOnSet(f, S) = f[Pick(S)] + SumFunctionOnSet(f, S \ {Pick(S)})
<1> DEFINE It(A) == CHOOSE g : Iterates(g, f, A)
           R == S \ {Pick(S)}
<1>1. \A A : IsFiniteSet(A) => Iterates(It(A), f, A)
  BY IteratorExists
<1>2. \A A : SumFunctionOnSet(f, A) = It(A)[A]
  BY DEF SumFunctionOnSet, FoldFunctionOnSet, MapThenFoldSet, Iterates, Pick
<1> HIDE DEF It
<1>3. IsFiniteSet(R) /\ R \subseteq S
  BY FS_RemoveElement
<1>4. It(S)[R] = It(R)[R]
  BY <1>1, <1>3, IteratorsAgree
<1>5. It(S)[S] = f[Pick(S)] + It(S)[R]
  BY <1>1 DEF Iterates
<1> QED BY <1>2, <1>4, <1>5

\* The sum of integers is an integer.
LEMMA SumIsInt ==
  ASSUME NEW f, NEW S, IsFiniteSet(S), \A x \in S : f[x] \in Int
  PROVE  SumFunctionOnSet(f, S) \in Int
<1> DEFINE Wrong == {s \in SUBSET S : SumFunctionOnSet(f, s) \notin Int}
<1> SUFFICES ASSUME Wrong # {} PROVE FALSE
  OBVIOUS
<1>1. PICK s \in Wrong : IsFiniteSet(s) /\ \A x \in s : s \ {x} \notin Wrong
  <2> Wrong \in SUBSET (SUBSET S)
    OBVIOUS
  <2> HIDE DEF Wrong
  <2> QED BY SmallestSubset
<1>2. s # {}
  BY SumOfNone
<1>3. Pick(s) \in s /\ s \ {Pick(s)} \in SUBSET S
  BY <1>2 DEF Pick
<1>4. SumFunctionOnSet(f, s \ {Pick(s)}) \in Int /\ f[Pick(s)] \in Int
  BY <1>1, <1>3
<1>5. SumFunctionOnSet(f, s) \in Int
  BY <1>1, <1>2, <1>4, SumOfPicked
<1> QED BY <1>5

\* Any element can be taken out of the sum, not only the picked one.
LEMMA SumTakeOut ==
  ASSUME NEW f, NEW S, IsFiniteSet(S), \A x \in S : f[x] \in Int, NEW x \in S
  PROVE  SumFunctionOnSet(f, S) = f[x] + SumFunctionOnSet(f, S \ {x})
<1> DEFINE Total(s) == SumFunctionOnSet(f, s)
           Wrong == {s \in SUBSET S : \E y \in s : Total(s) # f[y] + Total(s \ {y})}
<1> SUFFICES ASSUME Wrong # {} PROVE FALSE
  OBVIOUS
<1>1. PICK s \in Wrong : IsFiniteSet(s) /\ \A y \in s : s \ {y} \notin Wrong
  <2> Wrong \in SUBSET (SUBSET S)
    OBVIOUS
  <2> HIDE DEF Wrong
  <2> QED BY SmallestSubset
<1>2. PICK y \in s : Total(s) # f[y] + Total(s \ {y})
  BY <1>1
<1> DEFINE c == Pick(s)
<1>3. c \in s
  BY <1>2 DEF Pick
<1>4. Total(s) = f[c] + Total(s \ {c})
  BY <1>1, <1>3, SumOfPicked
<1>5. y # c
  BY <1>2, <1>4
<1>6. Total(s \ {c}) = f[y] + Total((s \ {c}) \ {y})
  BY <1>1, <1>2, <1>3, <1>5
<1>7. Total(s \ {y}) = f[c] + Total((s \ {y}) \ {c})
  BY <1>1, <1>2, <1>3, <1>5
<1>8. (s \ {y}) \ {c} = (s \ {c}) \ {y}
  OBVIOUS
<1>9. Total((s \ {c}) \ {y}) \in Int /\ f[c] \in Int /\ f[y] \in Int
  <2>1. IsFiniteSet((s \ {c}) \ {y})
    BY <1>1, FS_Subset
  <2>2. \A z \in (s \ {c}) \ {y} : f[z] \in Int
    OBVIOUS
  <2> QED BY <2>1, <2>2, SumIsInt, <1>3
<1>10. Total((s \ {y}) \ {c}) = Total((s \ {c}) \ {y})
  BY <1>8
<1>11. Total(s) # f[y] + Total(s \ {y})
  BY <1>2
<1> HIDE DEF Total, Wrong, c
<1> QED BY <1>4, <1>6, <1>7, <1>9, <1>10, <1>11

\* The sum depends only on the values of the function on the set.
LEMMA SumOfEqual ==
  ASSUME NEW f, NEW g, NEW S, IsFiniteSet(S), \A x \in S : f[x] = g[x]
  PROVE  SumFunctionOnSet(f, S) = SumFunctionOnSet(g, S)
<1> DEFINE Wrong == {s \in SUBSET S : SumFunctionOnSet(f, s) # SumFunctionOnSet(g, s)}
<1> SUFFICES ASSUME Wrong # {} PROVE FALSE
  OBVIOUS
<1>1. PICK s \in Wrong : IsFiniteSet(s) /\ \A x \in s : s \ {x} \notin Wrong
  <2> Wrong \in SUBSET (SUBSET S)
    OBVIOUS
  <2> HIDE DEF Wrong
  <2> QED BY SmallestSubset
<1>2. s # {}
  BY SumOfNone
<1>3. Pick(s) \in s /\ s \ {Pick(s)} \in SUBSET S
  BY <1>2 DEF Pick
<1>4. /\ SumFunctionOnSet(f, s) = f[Pick(s)] + SumFunctionOnSet(f, s \ {Pick(s)})
      /\ SumFunctionOnSet(g, s) = g[Pick(s)] + SumFunctionOnSet(g, s \ {Pick(s)})
  BY <1>1, <1>2, SumOfPicked
<1>5. SumFunctionOnSet(f, s \ {Pick(s)}) = SumFunctionOnSet(g, s \ {Pick(s)})
  BY <1>1, <1>3
<1>6. f[Pick(s)] = g[Pick(s)]
  BY <1>3
<1>7. SumFunctionOnSet(f, s) = SumFunctionOnSet(g, s)
  BY <1>4, <1>5, <1>6
<1> QED BY <1>7

\* The sum of natural numbers is a natural number.
LEMMA SumIsNat ==
  ASSUME NEW f, NEW S, IsFiniteSet(S), \A x \in S : f[x] \in Nat
  PROVE  SumFunctionOnSet(f, S) \in Nat
<1> DEFINE Wrong == {s \in SUBSET S : SumFunctionOnSet(f, s) \notin Nat}
<1> SUFFICES ASSUME Wrong # {} PROVE FALSE
  OBVIOUS
<1>1. PICK s \in Wrong : IsFiniteSet(s) /\ \A x \in s : s \ {x} \notin Wrong
  <2> Wrong \in SUBSET (SUBSET S)
    OBVIOUS
  <2> HIDE DEF Wrong
  <2> QED BY SmallestSubset
<1>2. s # {}
  BY SumOfNone
<1>3. Pick(s) \in s /\ s \ {Pick(s)} \in SUBSET S
  BY <1>2 DEF Pick
<1>4. SumFunctionOnSet(f, s \ {Pick(s)}) \in Nat /\ f[Pick(s)] \in Nat
  BY <1>1, <1>3
<1>5. SumFunctionOnSet(f, s) \in Nat
  BY <1>1, <1>2, <1>4, SumOfPicked
<1> QED BY <1>5

\* Changing the function at one point of the set changes the sum by the
\* difference at that point.
LEMMA SumChangeAt ==
  ASSUME NEW f, NEW g, NEW S, IsFiniteSet(S), NEW x \in S,
         \A y \in S : f[y] \in Int /\ g[y] \in Int,
         \A y \in S \ {x} : f[y] = g[y]
  PROVE  SumFunctionOnSet(g, S) = SumFunctionOnSet(f, S) + g[x] - f[x]
<1>1. IsFiniteSet(S \ {x})
  BY FS_RemoveElement
<1>2. SumFunctionOnSet(f, S \ {x}) = SumFunctionOnSet(g, S \ {x})
  BY <1>1, SumOfEqual
<1>3. SumFunctionOnSet(f, S) = f[x] + SumFunctionOnSet(f, S \ {x})
  BY SumTakeOut
<1>4. SumFunctionOnSet(g, S) = g[x] + SumFunctionOnSet(g, S \ {x})
  BY SumTakeOut
<1>5. SumFunctionOnSet(f, S \ {x}) \in Int
  BY <1>1, SumIsInt
<1> QED BY <1>2, <1>3, <1>4, <1>5

\* Adding up equal numbers is multiplying.
LEMMA SumOfConstant ==
  ASSUME NEW f, NEW S, IsFiniteSet(S), NEW c \in Int, \A x \in S : f[x] = c
  PROVE  SumFunctionOnSet(f, S) = Cardinality(S) * c
<1> DEFINE Wrong == {s \in SUBSET S : SumFunctionOnSet(f, s) # Cardinality(s) * c}
<1> SUFFICES ASSUME Wrong # {} PROVE FALSE
  OBVIOUS
<1>1. PICK s \in Wrong : IsFiniteSet(s) /\ \A x \in s : s \ {x} \notin Wrong
  <2> Wrong \in SUBSET (SUBSET S)
    OBVIOUS
  <2> HIDE DEF Wrong
  <2> QED BY SmallestSubset
<1>2. s # {}
  <2>1. Cardinality({}) * c = 0
    BY FS_EmptySet
  <2> QED BY <2>1, SumOfNone
<1> DEFINE r == s \ {Pick(s)}
<1>3. Pick(s) \in s /\ r \in SUBSET S
  BY <1>2 DEF Pick
<1>4. SumFunctionOnSet(f, s) = f[Pick(s)] + SumFunctionOnSet(f, r)
  BY <1>1, <1>2, SumOfPicked
<1>5. SumFunctionOnSet(f, r) = Cardinality(r) * c /\ f[Pick(s)] = c
  BY <1>1, <1>3
<1>6. Cardinality(r) = Cardinality(s) - 1 /\ Cardinality(s) \in Nat
  BY <1>1, <1>3, FS_RemoveElement, FS_CardinalityType
<1> HIDE DEF r
<1>7. SumFunctionOnSet(f, s) = c + (Cardinality(s) - 1) * c
  BY <1>4, <1>5, <1>6
<1> DEFINE n == Cardinality(s)
<1>8. c + (n - 1) * c = n * c
  <2> n \in Nat
    BY <1>6
  <2> HIDE DEF n
  <2> QED OBVIOUS
<1> QED BY <1>7, <1>8

\* Setting the function to zero on a part of the set takes that part's sum away.
LEMMA SumZeroedOn ==
  ASSUME NEW f, NEW g, NEW S, IsFiniteSet(S), NEW T \in SUBSET S,
         \A x \in S : f[x] \in Int,
         \A x \in S : g[x] = IF x \in T THEN 0 ELSE f[x]
  PROVE  SumFunctionOnSet(g, S) = SumFunctionOnSet(f, S) - SumFunctionOnSet(f, T)
<1> DEFINE F(s) == SumFunctionOnSet(f, s)
           G(s) == SumFunctionOnSet(g, s)
           Wrong == {s \in SUBSET S : G(s) # F(s) - F(s \cap T)}
<1> SUFFICES ASSUME Wrong # {} PROVE FALSE
  <2>1. S \cap T = T /\ S \in SUBSET S
    OBVIOUS
  <2> QED BY <2>1
<1>1. PICK s \in Wrong : IsFiniteSet(s) /\ \A x \in s : s \ {x} \notin Wrong
  <2> Wrong \in SUBSET (SUBSET S)
    OBVIOUS
  <2> HIDE DEF Wrong
  <2> QED BY SmallestSubset
<1>2. s # {}
  <2>1. {} \cap T = {}
    OBVIOUS
  <2>2. G({}) = 0 /\ F({}) = 0 /\ F({} \cap T) = 0
    BY <2>1, SumOfNone
  <2> HIDE DEF F, G
  <2>3. G({}) = F({}) - F({} \cap T)
    BY <2>2
  <2> QED BY <2>3, <1>1
<1> DEFINE x == Pick(s)
           r == s \ {x}
<1>3. x \in s /\ r \in SUBSET S /\ IsFiniteSet(r) /\ IsFiniteSet(s \cap T)
  BY <1>1, <1>2, FS_Subset DEF Pick
<1>4. F(s) = f[x] + F(r) /\ G(s) = g[x] + G(r)
  BY <1>1, <1>2, SumOfPicked
<1>5. G(r) = F(r) - F(r \cap T)
  BY <1>1, <1>3
<1>6. F(r) \in Int /\ F(r \cap T) \in Int /\ f[x] \in Int
  <2>1. IsFiniteSet(r \cap T)
    BY <1>3, FS_Subset
  <2> QED BY <1>3, <2>1, SumIsInt
<1> HIDE DEF F, G, x
<1>7. CASE x \in T
  <2>1. x \in s \cap T /\ (s \cap T) \ {x} = r \cap T
    BY <1>3, <1>7
  <2>2. F(s \cap T) = f[x] + F((s \cap T) \ {x})
    BY <1>3, <2>1, SumTakeOut DEF F
  <2>3. g[x] = 0
    BY <1>3, <1>7
  <2>4. G(s) = F(s) - F(s \cap T)
    BY <1>4, <1>5, <1>6, <2>1, <2>2, <2>3
  <2> QED BY <2>4, <1>1
<1>8. CASE x \notin T
  <2>1. s \cap T = r \cap T
    BY <1>8
  <2>2. g[x] = f[x]
    BY <1>3, <1>8
  <2>3. F(s \cap T) = F(r \cap T)
    BY Zenon, <2>1
  <2> HIDE DEF r
  <2>4. G(s) = F(s) - F(s \cap T)
    BY <1>4, <1>5, <1>6, <2>2, <2>3
  <2> QED BY <2>4, <1>1
<1> QED BY <1>7, <1>8

\* A set that grows by one element has a sum that grows by that element.
LEMMA SumGrows ==
  ASSUME NEW f, NEW g, NEW S, IsFiniteSet(S), NEW x, x \notin S,
         \A y \in S : f[y] \in Int /\ g[y] = f[y], g[x] \in Int
  PROVE  SumFunctionOnSet(g, S \cup {x}) = SumFunctionOnSet(f, S) + g[x]
<1>1. IsFiniteSet(S \cup {x}) /\ (S \cup {x}) \ {x} = S
  BY FS_AddElement
<1>2. SumFunctionOnSet(g, S \cup {x}) = g[x] + SumFunctionOnSet(g, (S \cup {x}) \ {x})
  BY <1>1, SumTakeOut
<1>3. SumFunctionOnSet(g, S) = SumFunctionOnSet(f, S)
  BY SumOfEqual
<1>4. SumFunctionOnSet(f, S) \in Int
  BY SumIsInt
<1>5. SumFunctionOnSet(g, (S \cup {x}) \ {x}) = SumFunctionOnSet(g, S)
  BY Zenon, <1>1
<1> QED BY <1>2, <1>3, <1>4, <1>5

\* The sum of the differences is the difference of the sums.
LEMMA SumOfDifference ==
  ASSUME NEW f, NEW g, NEW h, NEW S, IsFiniteSet(S),
         \A x \in S : f[x] \in Int /\ g[x] \in Int /\ h[x] = f[x] - g[x]
  PROVE  SumFunctionOnSet(h, S) = SumFunctionOnSet(f, S) - SumFunctionOnSet(g, S)
<1> DEFINE F(s) == SumFunctionOnSet(f, s)
           G(s) == SumFunctionOnSet(g, s)
           H(s) == SumFunctionOnSet(h, s)
           Wrong == {s \in SUBSET S : H(s) # F(s) - G(s)}
<1> SUFFICES ASSUME Wrong # {} PROVE FALSE
  OBVIOUS
<1>1. PICK s \in Wrong : IsFiniteSet(s) /\ \A x \in s : s \ {x} \notin Wrong
  <2> Wrong \in SUBSET (SUBSET S)
    OBVIOUS
  <2> HIDE DEF Wrong
  <2> QED BY SmallestSubset
<1>2. s # {}
  <2>1. H({}) = 0 /\ F({}) = 0 /\ G({}) = 0
    BY SumOfNone
  <2> HIDE DEF F, G, H
  <2>2. H({}) = F({}) - G({})
    BY <2>1
  <2> QED BY <2>2, <1>1
<1> DEFINE x == Pick(s)
           r == s \ {x}
<1>3. x \in s /\ r \in SUBSET S /\ IsFiniteSet(r)
  BY <1>1, <1>2, FS_Subset DEF Pick
<1>4. F(s) = f[x] + F(r) /\ G(s) = g[x] + G(r) /\ H(s) = h[x] + H(r)
  BY <1>1, <1>2, SumOfPicked
<1>5. H(r) = F(r) - G(r)
  BY <1>1, <1>3
<1>6. F(r) \in Int /\ G(r) \in Int
  BY <1>3, SumIsInt
<1>7. f[x] \in Int /\ g[x] \in Int /\ h[x] = f[x] - g[x]
  BY <1>3
<1> HIDE DEF F, G, H, x, r
<1>8. H(s) = F(s) - G(s)
  BY <1>4, <1>5, <1>6, <1>7
<1> QED BY <1>8, <1>1

\* If each g[x] times d is at most f[x] times a, so are their sums.
LEMMA SumsCompare ==
  ASSUME NEW f, NEW g, NEW S, IsFiniteSet(S), NEW a \in Int, NEW d \in Int,
         \A x \in S : f[x] \in Int /\ g[x] \in Int /\ g[x] * d <= f[x] * a
  PROVE  SumFunctionOnSet(g, S) * d <= SumFunctionOnSet(f, S) * a
<1> DEFINE F(s) == SumFunctionOnSet(f, s)
           G(s) == SumFunctionOnSet(g, s)
           Wrong == {s \in SUBSET S : ~(G(s) * d <= F(s) * a)}
<1> SUFFICES ASSUME Wrong # {} PROVE FALSE
  OBVIOUS
<1>1. PICK s \in Wrong : IsFiniteSet(s) /\ \A x \in s : s \ {x} \notin Wrong
  <2> Wrong \in SUBSET (SUBSET S)
    OBVIOUS
  <2> HIDE DEF Wrong
  <2> QED BY SmallestSubset
<1>2. s # {}
  <2>1. F({}) = 0 /\ G({}) = 0
    BY SumOfNone
  <2> HIDE DEF F, G
  <2>2. G({}) * d <= F({}) * a
    BY <2>1
  <2> QED BY <2>2, <1>1
<1> DEFINE x == Pick(s)
           r == s \ {x}
<1>3. x \in s /\ r \in SUBSET S /\ IsFiniteSet(r)
  BY <1>1, <1>2, FS_Subset DEF Pick
<1>4. F(s) = f[x] + F(r) /\ G(s) = g[x] + G(r)
  BY <1>1, <1>2, SumOfPicked
<1>5. G(r) * d <= F(r) * a
  BY <1>1, <1>3
<1>6. F(r) \in Int /\ G(r) \in Int
  BY <1>3, SumIsInt
<1>7. f[x] \in Int /\ g[x] \in Int /\ g[x] * d <= f[x] * a
  BY <1>3
<1> HIDE DEF F, G, x, r
<1>8. /\ F(s) * a = f[x] * a + F(r) * a
      /\ G(s) * d = g[x] * d + G(r) * d
  BY <1>4, <1>6, <1>7
<1>9. /\ f[x] * a \in Int /\ F(r) * a \in Int
      /\ g[x] * d \in Int /\ G(r) * d \in Int
  BY <1>6, <1>7
<1>10. G(s) * d <= F(s) * a
  BY <1>5, <1>7, <1>8, <1>9
<1> QED BY <1>10, <1>1

\* A sum of smaller terms is smaller.
LEMMA SumOfSmaller ==
  ASSUME NEW f, NEW g, NEW S, IsFiniteSet(S),
         \A x \in S : f[x] \in Int /\ g[x] \in Int /\ g[x] <= f[x]
  PROVE  SumFunctionOnSet(g, S) <= SumFunctionOnSet(f, S)
<1>1. \A x \in S : g[x] * 1 <= f[x] * 1
  OBVIOUS
<1>2. SumFunctionOnSet(g, S) * 1 <= SumFunctionOnSet(f, S) * 1
  BY <1>1, SumsCompare
<1>3. SumFunctionOnSet(g, S) \in Int /\ SumFunctionOnSet(f, S) \in Int
  BY SumIsInt
<1> DEFINE F == SumFunctionOnSet(f, S)
           G == SumFunctionOnSet(g, S)
<1> HIDE DEF F, G
<1>4. G * 1 <= F * 1 /\ F \in Int /\ G \in Int
  BY <1>2, <1>3 DEF F, G
<1>5. G <= F
  BY <1>4
<1> QED BY <1>5 DEF F, G

\* g on K is f on the elements of S where f is not zero, each paired with a label l.
Labels(l, f, S, g, K) ==
  /\ \A k \in K : \E x \in S : k = <<l, x>>
  /\ \A x \in S : <<l, x>> \in K <=> f[x] # 0
  /\ \A x \in S : f[x] # 0 => g[<<l, x>>] = f[x]

\* What is zero may be left out of a sum, and the rest be labelled.
LEMMA SumOfNonzero ==
  ASSUME NEW f, NEW S, IsFiniteSet(S), \A x \in S : f[x] \in Int,
         NEW l, NEW g, NEW K, Labels(l, f, S, g, K)
  PROVE  /\ IsFiniteSet(K)
         /\ SumFunctionOnSet(g, K) = SumFunctionOnSet(f, S)
<1> DEFINE F(s) == SumFunctionOnSet(f, s)
           Named(s) == {<<l, x>> : x \in {y \in s : f[y] # 0}}
           G(s) == SumFunctionOnSet(g, Named(s))
           Wrong == {s \in SUBSET S : ~(IsFiniteSet(Named(s)) /\ G(s) = F(s))}
<1> SUFFICES ASSUME Wrong # {} PROVE FALSE
  <2>1. K = Named(S) /\ S \in SUBSET S
    <3>1. ASSUME NEW k \in K PROVE k \in Named(S)
      BY DEF Labels
    <3>2. ASSUME NEW k \in Named(S) PROVE k \in K
      BY DEF Labels
    <3> HIDE DEF Named
    <3> QED BY <3>1, <3>2
  <2> HIDE DEF Named, F
  <2>2. Wrong = {} => IsFiniteSet(Named(S)) /\ G(S) = F(S)
    BY <2>1
  <2> QED BY <2>1, <2>2 DEF F
<1>1. PICK s \in Wrong : IsFiniteSet(s) /\ \A x \in s : s \ {x} \notin Wrong
  <2> Wrong \in SUBSET (SUBSET S)
    OBVIOUS
  <2> HIDE DEF Wrong
  <2> QED BY SmallestSubset
<1>2. s # {}
  <2>1. Named({}) = {}
    OBVIOUS
  <2>2. IsFiniteSet(Named({})) /\ G({}) = 0 /\ F({}) = 0
    BY <2>1, SumOfNone, FS_EmptySet
  <2> HIDE DEF F, G, Named
  <2> QED BY <2>2, <1>1
<1> DEFINE x == Pick(s)
           r == s \ {x}
<1>3. x \in s /\ r \in SUBSET S /\ x \in S
  BY <1>1, <1>2 DEF Pick
<1>4. F(s) = f[x] + F(r)
  BY <1>1, <1>2, SumOfPicked
<1>5. IsFiniteSet(Named(r)) /\ G(r) = F(r)
  BY <1>1, <1>3
<1>6. \A k \in Named(s) : g[k] \in Int
  BY <1>1 DEF Labels
<1>7. F(r) \in Int
  <2>1. IsFiniteSet(r)
    BY <1>3, FS_Subset
  <2> QED BY <1>3, <2>1, SumIsInt
<1>8. ~(IsFiniteSet(Named(s)) /\ G(s) = F(s))
  BY <1>1
<1> HIDE DEF F, Wrong
<1>9. CASE f[x] = 0
  <2>1. Named(s) = Named(r)
    BY <1>3, <1>9
  <2> HIDE DEF Named
  <2> QED BY <1>4, <1>5, <1>7, <1>8, <1>9, <2>1
<1>10. CASE f[x] # 0
  <2> DEFINE k == <<l, x>>
  <2>1. Named(s) = Named(r) \cup {k} /\ k \in Named(s) /\ Named(s) \ {k} = Named(r)
    <3> HIDE DEF x
    <3> QED BY <1>3, <1>10
  <2>2. g[k] = f[x]
    BY <1>3, <1>10 DEF Labels
  <2> DEFINE A == Named(s)
             B == Named(r)
  <2>3. A = B \cup {k} /\ k \in A /\ A \ {k} = B /\ IsFiniteSet(B) /\ \A m \in A : g[m] \in Int
    BY <1>5, <1>6, <2>1
  <2>4. G(s) = SumFunctionOnSet(g, A) /\ G(r) = SumFunctionOnSet(g, B)
    OBVIOUS
  <2> HIDE DEF G, Named, k, x, A, B
  <2>5. IsFiniteSet(A)
    <3>1. IsFiniteSet(B \cup {k})
      BY <2>3, FS_AddElement
    <3> QED BY <2>3, <3>1
  <2>6. SumFunctionOnSet(g, A) = g[k] + SumFunctionOnSet(g, A \ {k})
    BY <2>3, <2>5, SumTakeOut
  <2>7. IsFiniteSet(Named(s))
    BY <2>5 DEF A
  <2>8. G(s) = g[k] + G(r)
    BY Zenon, <2>3, <2>4, <2>6
  <2> QED BY <1>4, <1>5, <1>8, <2>2, <2>7, <2>8
<1> QED BY <1>9, <1>10

-----------------------------------------------------------------------------
\* Fields of an entry

\* src is `size` bytes of some of the values.
Entry(src, Values, size) == src \in Seq(Values \X Nat) /\ Len(src) = size

\* The bytes of `value` follow the first `from` bytes of src.
Holds(src, from, value, width) == \A k \in 1..width : src[from + k] = <<value, k>>

\* The field of `value` behind an entry: it lies there, and all others stay in place.
Extends(more, src, Values, size, value, width) ==
  /\ Entry(more, Values, size + width)
  /\ Holds(more, size, value, width)
  /\ \A from, w \in Nat : \A v :
       from + w <= size /\ Holds(src, from, v, w) => Holds(more, from, v, w)

\* Writing one more field at the end of an entry.
LEMMA FieldAppended ==
  ASSUME NEW Values, NEW value \in Values, NEW width \in Nat,
         NEW src, NEW size \in Nat, Entry(src, Values, size)
  PROVE  Extends(src \o to_le(value, width), src, Values, size, value, width)
<1> DEFINE field == to_le(value, width)
<1>1. /\ field \in Seq(Values \X Nat) /\ Len(field) = width
      /\ \A k \in 1..width : field[k] = <<value, k>>
  BY DEF to_le
<1> HIDE DEF field
<1>2. /\ src \o field \in Seq(Values \X Nat) /\ Len(src \o field) = size + width
      /\ \A k \in 1..size : (src \o field)[k] = src[k]
      /\ \A k \in 1..width : (src \o field)[size + k] = field[k]
  <2> DEFINE Bytes == Values \X Nat
  <2>1. src \in Seq(Bytes) /\ field \in Seq(Bytes) /\ Len(src) = size /\ Len(field) = width
    BY <1>1 DEF Entry
  <2> HIDE DEF Bytes
  <2>2. src \o field \in Seq(Bytes) /\ Len(src \o field) = size + width
    BY <2>1, ConcatProperties
  <2>3. \A k \in 1..size : (src \o field)[k] = src[k]
    BY <2>1
  <2>4. \A k \in 1..width : (src \o field)[size + k] = field[k]
    BY <2>1
  <2> QED BY <2>2, <2>3, <2>4 DEF Bytes
<1>3. \A from, w \in Nat : from + w <= size => \A k \in 1..w : from + k \in 1..size
  OBVIOUS
<1> QED BY <1>1, <1>2, <1>3 DEF Extends, Holds, Entry, field

\* The bytes `from` to `to` of src are those of `value`.
Reads(src, from, to, value) == from_le(Slice(src, from, to), to - from) = value

\* A field is read from where it lies.
LEMMA FieldRead ==
  ASSUME NEW Values, NEW src, NEW size \in Nat, Entry(src, Values, size),
         NEW from \in Nat, NEW to \in Nat, NEW value, from < to, to <= size,
         Holds(src, from, value, to - from)
  PROVE  Reads(src, from, to, value)
<1> DEFINE s == Slice(src, from, to)
           width == to - from
<1>1. s = [k \in 1..width |-> src[from + k]] /\ width \in Nat \ {0}
  BY DEF Slice, Entry
<1>2. s = to_le(value, width)
  BY <1>1 DEF Holds, to_le
<1> HIDE DEF width
<1>3. Len(s) = width /\ s[1] = <<value, 1>>
  BY <1>1, <1>2 DEF to_le
<1> HIDE DEF s
<1>4. from_le(s, width) = value
  BY <1>2, <1>3 DEF from_le
<1> QED BY <1>4 DEF Reads, s, width

\* An entry begins with its first field.
LEMMA FieldFirst ==
  ASSUME NEW Values, NEW value \in Values, NEW width \in Nat
  PROVE  /\ Entry(to_le(value, width), Values, width)
         /\ Holds(to_le(value, width), 0, value, width)
BY DEF to_le, Holds, Entry

\* The bytes of b lie in c, behind the first p.
Follow(c, p, b) == \A k \in 1..Len(b) : c[p + k] = b[k]

\* c has the bytes of a, then those of b.
Joined(c, a, b, Bytes) ==
  /\ c \in Seq(Bytes) /\ Len(c) = Len(a) + Len(b)
  /\ \A k \in 1..Len(a) : c[k] = a[k]
  /\ Follow(c, Len(a), b)

\* So does their concatenation,
LEMMA Concatenated ==
  ASSUME NEW Bytes, NEW a \in Seq(Bytes), NEW b \in Seq(Bytes)
  PROVE  Joined(a \o b, a, b, Bytes)
<1>1. a \o b \in Seq(Bytes) /\ Len(a \o b) = Len(a) + Len(b)
  BY ConcatProperties
<1>2. \A k \in 1..Len(a) : (a \o b)[k] = a[k]
  OBVIOUS
<1>3. \A k \in 1..Len(b) : (a \o b)[Len(a) + k] = b[k]
  OBVIOUS
<1> QED BY <1>1, <1>2, <1>3 DEF Joined, Follow

\* and nothing else.
LEMMA PutTogether ==
  ASSUME NEW Bytes, NEW a \in Seq(Bytes), NEW b \in Seq(Bytes), NEW c, Joined(c, a, b, Bytes)
  PROVE  c = a \o b
<1> DEFINE d == a \o b
           p == Len(a)
           q == Len(b)
<1>1. Joined(d, a, b, Bytes)
  BY Concatenated
<1> HIDE DEF d
<1>2. /\ c \in Seq(Bytes) /\ Len(c) = p + q /\ d \in Seq(Bytes) /\ Len(d) = p + q
      /\ \A k \in 1..p : c[k] = a[k] /\ d[k] = a[k]
      /\ \A k \in 1..q : c[p + k] = b[k] /\ d[p + k] = b[k]
      /\ p \in Nat /\ q \in Nat
  BY <1>1 DEF Joined, Follow
<1> HIDE DEF p, q
<1>3. ASSUME NEW k \in 1..(p + q) PROVE c[k] = d[k]
  <2>1. CASE k \in 1..p
    BY <1>2, <2>1
  <2>2. CASE k \notin 1..p
    <3> DEFINE j == k - p
    <3>1. j \in 1..q /\ k = p + j
      BY <1>2, <2>2
    <3> HIDE DEF j
    <3> QED BY <1>2, <3>1
  <2> QED BY <2>1, <2>2
<1>4. c = d
  BY <1>2, <1>3
<1> QED BY <1>4 DEF d

\* What follows the first p bytes can be sliced out.
LEMMA TakenOut ==
  ASSUME NEW Bytes, NEW p \in Nat, NEW b \in Seq(Bytes), NEW c \in Seq(Bytes),
         p + Len(b) <= Len(c), Follow(c, p, b)
  PROVE  Slice(c, p, p + Len(b)) = b
<1> DEFINE q == Len(b)
<1>1. Slice(c, p, p + q) = [k \in 1..q |-> c[p + k]]
  BY DEF Slice
<1>2. b = [k \in 1..q |-> b[k]]
  OBVIOUS
<1>3. [k \in 1..q |-> c[p + k]] = [k \in 1..q |-> b[k]]
  BY DEF Follow
<1> HIDE DEF q
<1>4. Slice(c, p, p + q) = b
  BY <1>1, <1>2, <1>3
<1> QED BY <1>4 DEF q

\* Two entries one behind the other: the fields of the first stay in place, and the
\* second is the rest.
LEMMA EntriesJoined ==
  ASSUME NEW Values, NEW a, NEW b, NEW p \in Nat, NEW q \in Nat,
         Entry(a, Values, p), Entry(b, Values, q)
  PROVE  /\ Entry(a \o b, Values, p + q)
         /\ \A from, w \in Nat : \A v :
              from + w <= p /\ Holds(a, from, v, w) => Holds(a \o b, from, v, w)
         /\ Slice(a \o b, p, p + q) = b
<1> DEFINE Bytes == Values \X Nat
           s == a \o b
<1>1. a \in Seq(Bytes) /\ b \in Seq(Bytes) /\ Len(a) = p /\ Len(b) = q
  BY DEF Entry
<1> HIDE DEF Bytes
<1>2. Joined(s, a, b, Bytes)
  BY <1>1, Concatenated
<1> HIDE DEF s
<1>3. /\ s \in Seq(Bytes) /\ Len(s) = p + q
      /\ \A k \in 1..p : s[k] = a[k]
      /\ Follow(s, p, b)
  BY <1>1, <1>2 DEF Joined
<1>4. ASSUME NEW from \in Nat, NEW w \in Nat, NEW v, from + w <= p, Holds(a, from, v, w)
      PROVE  Holds(s, from, v, w)
  <2> SUFFICES ASSUME NEW k \in 1..w PROVE s[from + k] = <<v, k>>
    BY DEF Holds
  <2>1. from + k \in 1..p
    BY <1>4
  <2> QED BY <1>3, <1>4, <2>1 DEF Holds
<1>5. Slice(s, p, p + q) = b
  <2>1. p + Len(b) <= Len(s)
    BY <1>1, <1>3
  <2>2. Slice(s, p, p + Len(b)) = b
    BY <1>1, <1>3, <2>1, TakenOut
  <2> QED BY <1>1, <2>2
<1> QED BY <1>1, <1>3, <1>4, <1>5 DEF Entry, s, Bytes
=============================================================================
