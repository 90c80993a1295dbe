---------------------------- MODULE SumTheorems ----------------------------
(***************************************************************************)
(* Facts about sums over finite sets, SumFunctionOnSet of the community    *)
(* modules: what the sum is made of, in whatever order it is taken, and    *)
(* how it changes when one summand does. Inductions are on the smallest    *)
(* set for which a claim fails.                                            *)
(***************************************************************************)
EXTENDS Integers, Functions, FiniteSetTheorems, SequenceTheorems, TLAPS

\* Among sets of elements of a finite set there is one with no other within it.
LEMMA SmallestSet ==
  ASSUME NEW S, IsFiniteSet(S), NEW C, C \subseteq SUBSET S, C # {}
  PROVE  \E s \in C : \A t \in C : t \subseteq s => t = s
<1>1. IsWellFoundedOn(StrictSubsetOrdering(S), SUBSET S)
  BY FS_StrictSubsetOrderingWellFounded, FS_FiniteSubsetsOfFinite
<1>2. PICK s \in C : \A t \in C : ~ (<<t, s>> \in StrictSubsetOrdering(S))
  BY <1>1, WFMin
<1>3. \A t \in C : t \subseteq s /\ t # s => <<t, s>> \in StrictSubsetOrdering(S)
  BY DEF StrictSubsetOrdering
<1>4. \A t \in C : t \subseteq s => t = s
  BY <1>2, <1>3
<1> QED
  BY <1>4
-----------------------------------------------------------------------------
(* What a sum is.                                                          *)

AnyOf(s) == CHOOSE x \in s : TRUE

\* g sums f over every part of S, taking one element at a time.
Adds(g, f, S) ==
  g = [s \in SUBSET S |-> IF s = {} THEN 0 ELSE f[AnyOf(s)] + g[s \ {AnyOf(s)}]]

LEMMA SumIs ==
  ASSUME NEW f, NEW S
  PROVE  SumFunctionOnSet(f, S) = (CHOOSE g : Adds(g, f, S))[S]
BY DEF SumFunctionOnSet, FoldFunctionOnSet, MapThenFoldSet, Adds, AnyOf

LEMMA AnyOfIn ==
  ASSUME NEW s, s # {}
  PROVE  AnyOf(s) \in s
BY DEF AnyOf

LEMMA AddsAt ==
  ASSUME NEW f, NEW S, NEW g, Adds(g, f, S), NEW s \in SUBSET S
  PROVE  g[s] = IF s = {} THEN 0 ELSE f[AnyOf(s)] + g[s \ {AnyOf(s)}]
BY DEF Adds

LEMMA AddsUnique ==
  ASSUME NEW f, NEW S, IsFiniteSet(S), NEW g, NEW h, Adds(g, f, S), Adds(h, f, S)
  PROVE  g = h
<1> DEFINE Bad == {s \in SUBSET S : g[s] # h[s]}
<1>1. SUFFICES ASSUME Bad # {} PROVE FALSE
  <2>1. /\ g = [s \in SUBSET S |-> g[s]] /\ h = [s \in SUBSET S |-> h[s]]
    BY DEF Adds
  <2> QED
    BY <2>1
<1>2. PICK s \in Bad : \A t \in Bad : t \subseteq s => t = s
  <2> HIDE DEF Bad
  <2>1. Bad \subseteq SUBSET S
    BY DEF Bad
  <2> QED
    BY <1>1, <2>1, SmallestSet
<1>3. s # {}
  BY AddsAt
<1> DEFINE t == s \ {AnyOf(s)}
<1>4. t \in SUBSET S /\ t \subseteq s /\ t # s
  BY <1>3, AnyOfIn
<1>5. g[t] = h[t]
  BY <1>2, <1>4
<1>6. g[s] = f[AnyOf(s)] + g[t] /\ h[s] = f[AnyOf(s)] + h[t]
  <2>1. s \in SUBSET S
    OBVIOUS
  <2> HIDE DEF Bad
  <2> QED
    BY <1>3, <2>1, AddsAt
<1> QED
  BY <1>5, <1>6

LEMMA AddsParts ==
  ASSUME NEW f, NEW S, NEW g, Adds(g, f, S), NEW T, T \subseteq S
  PROVE  Adds([s \in SUBSET T |-> g[s]], f, T)
<1> DEFINE h == [s \in SUBSET T |-> g[s]]
<1>1. ASSUME NEW s \in SUBSET T
      PROVE  h[s] = IF s = {} THEN 0 ELSE f[AnyOf(s)] + h[s \ {AnyOf(s)}]
  <2>1. s \in SUBSET S /\ s \ {AnyOf(s)} \in SUBSET T
    OBVIOUS
  <2>2. h[s] = g[s] /\ h[s \ {AnyOf(s)}] = g[s \ {AnyOf(s)}]
    BY <2>1
  <2> HIDE DEF h
  <2> QED
    BY <2>1, <2>2, AddsAt
<1>2. h = [s \in SUBSET T |-> h[s]]
  OBVIOUS
<1> HIDE DEF h
<1>3. h = [s \in SUBSET T |-> IF s = {} THEN 0 ELSE f[AnyOf(s)] + h[s \ {AnyOf(s)}]]
  BY <1>1, <1>2
<1>4. Adds(h, f, T)
  BY <1>3 DEF Adds
<1> QED
  BY <1>4 DEF h

\* A sum that can be taken is any one function's that adds.
LEMMA SumOfAdds ==
  ASSUME NEW f, NEW S, IsFiniteSet(S), NEW g, Adds(g, f, S)
  PROVE  SumFunctionOnSet(f, S) = g[S]
<1>1. Adds(CHOOSE h : Adds(h, f, S), f, S)
  OBVIOUS
<1>2. (CHOOSE h : Adds(h, f, S)) = g
  BY <1>1, AddsUnique
<1> QED
  BY <1>2, SumIs

LEMMA UnfoldAdds ==
  ASSUME NEW f, NEW S, IsFiniteSet(S), \E g : Adds(g, f, S)
  PROVE  SumFunctionOnSet(f, S) =
           IF S = {} THEN 0
           ELSE f[AnyOf(S)] + SumFunctionOnSet(f, S \ {AnyOf(S)})
<1>1. PICK g : Adds(g, f, S)
  OBVIOUS
<1> DEFINE T == S \ {AnyOf(S)}
           h == [s \in SUBSET T |-> g[s]]
<1>2. IsFiniteSet(T)
  BY FS_RemoveElement
<1>3. Adds(h, f, T)
  BY <1>1, AddsParts
<1>4. h[T] = g[T]
  OBVIOUS
<1> HIDE DEF h
<1>5. SumFunctionOnSet(f, T) = g[T]
  BY <1>2, <1>3, <1>4, SumOfAdds
<1>6. SumFunctionOnSet(f, S) = g[S]
  BY <1>1, SumOfAdds
<1> QED
  BY <1>1, <1>5, <1>6, AddsAt

LEMMA AddsExists ==
  ASSUME NEW f, NEW S, IsFiniteSet(S)
  PROVE  \E g : Adds(g, f, S)
<1> DEFINE Bad == {T \in SUBSET S : ~ \E g : Adds(g, f, T)}
<1>1. SUFFICES ASSUME Bad # {} PROVE FALSE
  OBVIOUS
<1>2. PICK T \in Bad : \A U \in Bad : U \subseteq T => U = T
  <2> HIDE DEF Bad
  <2>1. Bad \subseteq SUBSET S
    BY DEF Bad
  <2> QED
    BY <1>1, <2>1, SmallestSet
<1>3. T \in SUBSET S /\ ~ \E g : Adds(g, f, T)
  OBVIOUS
<1>4. ASSUME NEW U, U \subseteq T, U # T
      PROVE  SumFunctionOnSet(f, U) =
               IF U = {} THEN 0 ELSE f[AnyOf(U)] + SumFunctionOnSet(f, U \ {AnyOf(U)})
  <2>1. \E g : Adds(g, f, U)
    BY <1>2, <1>3, <1>4
  <2>2. IsFiniteSet(U)
    BY <1>3, <1>4, FS_Subset
  <2> QED
    BY <2>1, <2>2, UnfoldAdds
<1> HIDE DEF Bad
<1> DEFINE g == [s \in SUBSET T |->
                   IF s = {} THEN 0
                   ELSE f[AnyOf(s)] + SumFunctionOnSet(f, s \ {AnyOf(s)})]
<1>5. ASSUME NEW s \in SUBSET T, s # {}
      PROVE  g[s \ {AnyOf(s)}] = SumFunctionOnSet(f, s \ {AnyOf(s)})
  <2> DEFINE U == s \ {AnyOf(s)}
  <2>1. U \subseteq T /\ U # T
    BY <1>5, AnyOfIn
  <2>2. g[U] = IF U = {} THEN 0 ELSE f[AnyOf(U)] + SumFunctionOnSet(f, U \ {AnyOf(U)})
    BY <2>1
  <2> HIDE DEF U, g
  <2>3. g[U] = SumFunctionOnSet(f, U)
    BY <1>4, <2>1, <2>2
  <2> QED
    BY <2>3 DEF U
<1>6. \A s \in SUBSET T :
        g[s] = IF s = {} THEN 0 ELSE f[AnyOf(s)] + g[s \ {AnyOf(s)}]
  <2> TAKE s \in SUBSET T
  <2>1. g[s] = IF s = {} THEN 0
               ELSE f[AnyOf(s)] + SumFunctionOnSet(f, s \ {AnyOf(s)})
    OBVIOUS
  <2> HIDE DEF g
  <2> QED
    BY <1>5, <2>1
<1>7. g = [s \in SUBSET T |-> g[s]]
  OBVIOUS
<1> HIDE DEF g
<1>8. g = [s \in SUBSET T |-> IF s = {} THEN 0 ELSE f[AnyOf(s)] + g[s \ {AnyOf(s)}]]
  BY <1>6, <1>7
<1>9. Adds(g, f, T)
  BY <1>8 DEF Adds
<1> QED
  BY <1>3, <1>9

LEMMA SumUnfold ==
  ASSUME NEW f, NEW S, IsFiniteSet(S)
  PROVE  SumFunctionOnSet(f, S) =
           IF S = {} THEN 0
           ELSE f[AnyOf(S)] + SumFunctionOnSet(f, S \ {AnyOf(S)})
BY AddsExists, UnfoldAdds

LEMMA SumEmpty == \A f : SumFunctionOnSet(f, {}) = 0
BY SumUnfold, FS_EmptySet
-----------------------------------------------------------------------------
(* What a sum depends on.                                                  *)

LEMMA SumType ==
  ASSUME NEW f, NEW S, IsFiniteSet(S), \A x \in S : f[x] \in Int
  PROVE  SumFunctionOnSet(f, S) \in Int
<1> DEFINE Bad == {T \in SUBSET S : SumFunctionOnSet(f, T) \notin Int}
<1>1. SUFFICES ASSUME Bad # {} PROVE FALSE
  OBVIOUS
<1>2. PICK T \in Bad : \A U \in Bad : U \subseteq T => U = T
  <2> HIDE DEF Bad
  <2>1. Bad \subseteq SUBSET S
    BY DEF Bad
  <2> QED
    BY <1>1, <2>1, SmallestSet
<1>3. IsFiniteSet(T)
  BY FS_Subset
<1> DEFINE U == T \ {AnyOf(T)}
<1>4. T # {}
  BY SumEmpty
<1>5. U \in SUBSET S /\ U \subseteq T /\ U # T /\ f[AnyOf(T)] \in Int
  BY <1>4, AnyOfIn
<1>6. SumFunctionOnSet(f, U) \in Int
  BY <1>2, <1>5
<1>7. SumFunctionOnSet(f, T) = f[AnyOf(T)] + SumFunctionOnSet(f, U)
  BY <1>3, <1>4, SumUnfold
<1> QED
  BY <1>5, <1>6, <1>7

LEMMA SumNatural ==
  ASSUME NEW f, NEW S, IsFiniteSet(S), \A x \in S : f[x] \in Nat
  PROVE  SumFunctionOnSet(f, S) \in Nat
<1> DEFINE Bad == {T \in SUBSET S : SumFunctionOnSet(f, T) \notin Nat}
<1>1. SUFFICES ASSUME Bad # {} PROVE FALSE
  OBVIOUS
<1>2. PICK T \in Bad : \A U \in Bad : U \subseteq T => U = T
  <2> HIDE DEF Bad
  <2>1. Bad \subseteq SUBSET S
    BY DEF Bad
  <2> QED
    BY <1>1, <2>1, SmallestSet
<1>3. IsFiniteSet(T)
  BY FS_Subset
<1> DEFINE U == T \ {AnyOf(T)}
<1>4. T # {}
  BY SumEmpty
<1>5. U \in SUBSET S /\ U \subseteq T /\ U # T /\ f[AnyOf(T)] \in Nat
  BY <1>4, AnyOfIn
<1>6. SumFunctionOnSet(f, U) \in Nat
  BY <1>2, <1>5
<1>7. SumFunctionOnSet(f, T) = f[AnyOf(T)] + SumFunctionOnSet(f, U)
  BY <1>3, <1>4, SumUnfold
<1> QED
  BY <1>5, <1>6, <1>7

LEMMA SumSame ==
  ASSUME NEW f, NEW g, NEW S, IsFiniteSet(S), \A x \in S : f[x] = g[x]
  PROVE  SumFunctionOnSet(f, S) = SumFunctionOnSet(g, S)
<1> DEFINE Bad == {T \in SUBSET S : SumFunctionOnSet(f, T) # SumFunctionOnSet(g, T)}
<1>1. SUFFICES ASSUME Bad # {} PROVE FALSE
  OBVIOUS
<1>2. PICK T \in Bad : \A U \in Bad : U \subseteq T => U = T
  <2> HIDE DEF Bad
  <2>1. Bad \subseteq SUBSET S
    BY DEF Bad
  <2> QED
    BY <1>1, <2>1, SmallestSet
<1>3. IsFiniteSet(T)
  BY FS_Subset
<1> DEFINE U == T \ {AnyOf(T)}
<1>4. T # {}
  BY SumEmpty
<1>5. U \in SUBSET S /\ U \subseteq T /\ U # T /\ f[AnyOf(T)] = g[AnyOf(T)]
  BY <1>4, AnyOfIn
<1>6. SumFunctionOnSet(f, U) = SumFunctionOnSet(g, U)
  BY <1>2, <1>5
<1>7. /\ SumFunctionOnSet(f, T) = f[AnyOf(T)] + SumFunctionOnSet(f, U)
      /\ SumFunctionOnSet(g, T) = g[AnyOf(T)] + SumFunctionOnSet(g, U)
  BY <1>3, <1>4, SumUnfold
<1> QED
  BY <1>5, <1>6, <1>7

\* Any element may be taken out first: the order does not matter.
LEMMA SumTakeOut ==
  ASSUME NEW f, NEW S, IsFiniteSet(S), \A x \in S : f[x] \in Int, NEW y \in S
  PROVE  SumFunctionOnSet(f, S) = f[y] + SumFunctionOnSet(f, S \ {y})
<1> DEFINE Bad == {T \in SUBSET S : \E z \in T :
                     SumFunctionOnSet(f, T) # f[z] + SumFunctionOnSet(f, T \ {z})}
<1>1. SUFFICES ASSUME Bad # {} PROVE FALSE
  OBVIOUS
<1>2. PICK T \in Bad : \A U \in Bad : U \subseteq T => U = T
  <2> HIDE DEF Bad
  <2>1. Bad \subseteq SUBSET S
    BY DEF Bad
  <2> QED
    BY <1>1, <2>1, SmallestSet
<1>3. PICK z \in T : SumFunctionOnSet(f, T) # f[z] + SumFunctionOnSet(f, T \ {z})
  OBVIOUS
<1> DEFINE a == AnyOf(T)
           V == (T \ {a}) \ {z}
<1>4. /\ IsFiniteSet(T) /\ a \in T /\ a # z
      /\ SumFunctionOnSet(f, T) = f[a] + SumFunctionOnSet(f, T \ {a})
  BY <1>3, FS_Subset, AnyOfIn, SumUnfold
<1>5. T \ {a} \notin Bad /\ T \ {z} \notin Bad
  BY <1>2, <1>3, <1>4
<1>6. /\ T \ {a} \in SUBSET S /\ z \in T \ {a}
      /\ T \ {z} \in SUBSET S /\ a \in T \ {z}
      /\ (T \ {z}) \ {a} = V /\ V \in SUBSET S
  BY <1>3, <1>4
<1>7. SumFunctionOnSet(f, T \ {a}) = f[z] + SumFunctionOnSet(f, V)
  BY <1>5, <1>6
<1>8. SumFunctionOnSet(f, T \ {z}) = f[a] + SumFunctionOnSet(f, V)
  BY <1>5, <1>6
<1>9. SumFunctionOnSet(f, V) \in Int /\ f[a] \in Int /\ f[z] \in Int
  <2>1. IsFiniteSet(V) /\ \A x \in V : f[x] \in Int
    BY <1>6, FS_Subset
  <2> QED
    BY <1>3, <1>4, <2>1, SumType
<1> HIDE DEF a, V
<1> QED
  BY <1>3, <1>4, <1>7, <1>8, <1>9

\* No summand of a sum of natural numbers is larger than the sum.
LEMMA SumCovers ==
  ASSUME NEW f, NEW S, IsFiniteSet(S), \A x \in S : f[x] \in Nat, NEW y \in S
  PROVE  f[y] <= SumFunctionOnSet(f, S)
<1>1. SumFunctionOnSet(f, S) = f[y] + SumFunctionOnSet(f, S \ {y})
  BY SumTakeOut
<1>2. SumFunctionOnSet(f, S \ {y}) \in Nat
  BY FS_RemoveElement, SumNatural
<1> QED
  BY <1>1, <1>2

\* What x adds to the sum of f over S.
Share(f, S, x) == IF x \in S THEN f[x] ELSE 0

LEMMA SumRest ==
  ASSUME NEW f, NEW S, IsFiniteSet(S), \A y \in S : f[y] \in Int, NEW x
  PROVE  /\ SumFunctionOnSet(f, S) = Share(f, S, x) + SumFunctionOnSet(f, S \ {x})
         /\ SumFunctionOnSet(f, S \ {x}) \in Int /\ Share(f, S, x) \in Int
<1>1. SumFunctionOnSet(f, S \ {x}) \in Int
  BY FS_RemoveElement, SumType
<1>2. CASE x \in S
  BY <1>1, <1>2, SumTakeOut DEF Share
<1>3. CASE x \notin S
  <2>1. S \ {x} = S
    BY <1>3
  <2>2. SumFunctionOnSet(f, S) = SumFunctionOnSet(f, S \ {x})
    BY <2>1, Zenon
  <2>3. Share(f, S, x) = 0
    BY <1>3 DEF Share
  <2> QED
    BY <1>1, <2>2, <2>3
<1> QED
  BY <1>2, <1>3

\* If only x changes - its value, or whether it counts at all - the sum changes
\* by as much.
LEMMA SumChange ==
  ASSUME NEW f, NEW S, IsFiniteSet(S), \A y \in S : f[y] \in Int,
         NEW g, NEW T, IsFiniteSet(T), \A y \in T : g[y] \in Int,
         NEW x, S \ {x} = T \ {x}, \A y \in S \ {x} : g[y] = f[y]
  PROVE  SumFunctionOnSet(g, T) =
           SumFunctionOnSet(f, S) - Share(f, S, x) + Share(g, T, x)
<1>1. /\ SumFunctionOnSet(f, S) = Share(f, S, x) + SumFunctionOnSet(f, S \ {x})
      /\ SumFunctionOnSet(f, S \ {x}) \in Int /\ Share(f, S, x) \in Int
  BY SumRest
<1>2. /\ SumFunctionOnSet(g, T) = Share(g, T, x) + SumFunctionOnSet(g, T \ {x})
      /\ SumFunctionOnSet(g, T \ {x}) \in Int /\ Share(g, T, x) \in Int
  BY SumRest
<1>3. SumFunctionOnSet(f, S \ {x}) = SumFunctionOnSet(g, T \ {x})
  <2> DEFINE R == S \ {x}
  <2>1. IsFiniteSet(R) /\ T \ {x} = R /\ \A y \in R : f[y] = g[y]
    BY FS_RemoveElement
  <2> HIDE DEF R
  <2>2. SumFunctionOnSet(f, R) = SumFunctionOnSet(g, R)
    BY <2>1, SumSame
  <2>3. SumFunctionOnSet(g, T \ {x}) = SumFunctionOnSet(g, R)
    BY <2>1, Zenon
  <2> QED
    BY <2>2, <2>3 DEF R
<1> QED
  BY <1>1, <1>2, <1>3
-----------------------------------------------------------------------------
\* Sets of positions of a sequence are finite.
LEMMA FinitePositions ==
  ASSUME NEW X, NEW q \in Seq(X), NEW S, S \subseteq DOMAIN q
  PROVE  IsFiniteSet(S)
<1>1. Len(q) \in Nat /\ DOMAIN q = 1 .. Len(q)
  BY LenProperties
<1> DEFINE n == Len(q)
<1> HIDE DEF n
<1>2. 1 \in Int /\ n \in Int
  BY <1>1 DEF n
<1>3. IsFiniteSet(1 .. n)
  BY <1>2, FS_Interval, Zenon
<1>4. S \in SUBSET (1 .. n)
  BY <1>1 DEF n
<1> QED
  BY <1>3, <1>4, FS_Subset
=============================================================================
