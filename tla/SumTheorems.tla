----------------------------- MODULE SumTheorems -----------------------------
(***************************************************************************)
(* Facts about SumFunctionOnSet(f, S), the sum of f over a finite set S that *)
(* the balances of the other modules are written with: what it does when an   *)
(* element is added, removed, changed or replaced.                           *)
(*                                                                         *)
(* The sum is a recursive function that takes an element out of the set with  *)
(* CHOOSE.  Induction is by a minimal counterexample: SubsetInduction states  *)
(* it for a set G of subsets, where the library has an operator.              *)
(***************************************************************************)
EXTENDS Integers, Functions, FiniteSetTheorems, WellFoundedInduction, TLAPS

\* The recursion of MapThenFoldSet, as SumFunctionOnSet instantiates it.
Picked(s) == CHOOSE x \in s : TRUE
SumStep(g, f, s) == IF s = {} THEN 0 ELSE f[Picked(s)] + g[s \ {Picked(s)}]
IsSumOf(g, f, S) == g = [s \in SUBSET S |-> SumStep(g, f, s)]

LEMMA ChosenIn == ASSUME NEW s, s # {} PROVE Picked(s) \in s
  BY DEF Picked

\* A set of subsets of a finite set has a minimal member.
LEMMA MinimalSubset ==
  ASSUME NEW S, IsFiniteSet(S), NEW B, B \subseteq SUBSET S, B # {}
  PROVE  \E m \in B : \A t \in B : t \subseteq m => t = m
<1>1. IsWellFoundedOn(StrictSubsetOrdering(S), SUBSET S)
  BY FS_FiniteSubsetsOfFinite, FS_StrictSubsetOrderingWellFounded
<1>2. PICK m \in B : \A t \in B : ~(<<t, m>> \in StrictSubsetOrdering(S))
  BY <1>1, WFMin
<1>3. ASSUME NEW t \in B, t \subseteq m, t # m PROVE FALSE
  <2>1. <<t, m>> \in (SUBSET S) \X (SUBSET S)
    BY <1>3
  <2>2. <<t, m>> \in StrictSubsetOrdering(S)
    BY <2>1, <1>3 DEF StrictSubsetOrdering
  <2> QED BY <2>2, <1>2
<1> QED BY <1>3

\* Two functions that satisfy the recursion agree where both are defined.
LEMMA RecursionAgrees ==
  ASSUME NEW S, NEW T, T \subseteq S, IsFiniteSet(T), NEW f, NEW g, NEW h,
         IsSumOf(g, f, S), IsSumOf(h, f, T)
  PROVE  \A s \in SUBSET T : g[s] = h[s]
<1> DEFINE B == {s \in SUBSET T : g[s] # h[s]}
<1>1. SUFFICES ASSUME B # {} PROVE FALSE
  OBVIOUS
<1>2. PICK m \in B : \A t \in B : t \subseteq m => t = m
  <2>1. B \subseteq SUBSET T
    OBVIOUS
  <2> HIDE DEF B
  <2> QED BY <1>1, <2>1, MinimalSubset
<1>3. g[m] = SumStep(g, f, m) /\ h[m] = SumStep(h, f, m)
  <2>1. m \in SUBSET S /\ m \in SUBSET T
    OBVIOUS
  <2> QED BY <2>1 DEF IsSumOf
<1>4. m # {}
  BY <1>3 DEF SumStep
<1> DEFINE r == m \ {Picked(m)}
<1>5. r \in SUBSET T /\ r \subseteq m /\ r # m
  BY <1>4, ChosenIn
<1>6. g[r] = h[r]
  BY <1>5, <1>2
<1>7. g[m] = h[m]
  BY <1>3, <1>4, <1>6 DEF SumStep
<1> QED BY <1>7

\* There is one: at a minimal set without one, those of its subsets define it.
LEMMA RecursionExists ==
  ASSUME NEW S, IsFiniteSet(S), NEW f
  PROVE  \E g : IsSumOf(g, f, S)
<1> DEFINE B == {s \in SUBSET S : ~\E g : IsSumOf(g, f, s)}
<1>1. SUFFICES ASSUME B # {} PROVE FALSE
  OBVIOUS
<1>2. PICK m \in B : \A t \in B : t \subseteq m => t = m
  <2>1. B \subseteq SUBSET S
    OBVIOUS
  <2> HIDE DEF B
  <2> QED BY <1>1, <2>1, MinimalSubset
<1> DEFINE P(t) == CHOOSE g : IsSumOf(g, f, t)
<1> DEFINE G == [s \in SUBSET m |-> IF s = {} THEN 0
                   ELSE f[Picked(s)] + P(s \ {Picked(s)})[s \ {Picked(s)}]]
<1>3. ASSUME NEW t \in SUBSET m, t # m PROVE IsSumOf(P(t), f, t)
  <2>1. \E g : IsSumOf(g, f, t)
    BY <1>2, <1>3
  <2> QED BY <2>1
<1> HIDE DEF P
<1>4. ASSUME NEW t \in SUBSET m, t # m PROVE G[t] = P(t)[t]
  <2>1. P(t)[t] = SumStep(P(t), f, t)
    <3>1. t \in SUBSET t
      OBVIOUS
    <3> QED BY <1>3, <1>4, <3>1 DEF IsSumOf
  <2>2. CASE t = {}
    BY <2>1, <2>2 DEF SumStep
  <2>3. CASE t # {}
    <3> DEFINE u == t \ {Picked(t)}
    <3>1. u \in SUBSET m /\ u # m /\ u \subseteq t /\ IsFiniteSet(u)
      <4>1. IsFiniteSet(u)
        <5>1. u \in SUBSET S
          OBVIOUS
        <5> QED BY <5>1, FS_Subset
      <4> QED BY <4>1, <2>3, ChosenIn
    <3>2. P(t)[u] = P(u)[u]
      <4>1. IsSumOf(P(t), f, t) /\ IsSumOf(P(u), f, u)
        BY <3>1, <1>3, <1>4
      <4>2. u \in SUBSET u
        OBVIOUS
      <4>3. \A s \in SUBSET u : P(t)[s] = P(u)[s]
        <5>1. PICK v : v = u /\ v \subseteq t /\ IsFiniteSet(v)
          BY <3>1
        <5>2. PICK g, h : g = P(t) /\ h = P(v)
          OBVIOUS
        <5>3. IsSumOf(g, f, t) /\ IsSumOf(h, f, v)
          BY <4>1, <5>1, <5>2
        <5>4. \A s \in SUBSET v : g[s] = h[s]
          BY <5>1, <5>3, RecursionAgrees
        <5> QED BY <5>1, <5>2, <5>4
      <4> QED BY <4>2, <4>3
    <3> QED BY <2>1, <2>3, <3>2 DEF SumStep
  <2> QED BY <2>2, <2>3
<1>5. ASSUME NEW s \in SUBSET m PROVE G[s] = SumStep(G, f, s)
  <2>1. CASE s = {}
    BY <2>1 DEF SumStep
  <2>2. CASE s # {}
    <3>1. s \ {Picked(s)} \in SUBSET m /\ s \ {Picked(s)} # m
      BY <2>2, ChosenIn
    <3>2. G[s \ {Picked(s)}] = P(s \ {Picked(s)})[s \ {Picked(s)}]
      BY <3>1, <1>4
    <3>3. G[s] = f[Picked(s)] + P(s \ {Picked(s)})[s \ {Picked(s)}]
      BY <2>2
    <3> QED BY <3>2, <3>3, <2>2 DEF SumStep
  <2> QED BY <2>1, <2>2
<1>6. IsSumOf(G, f, m)
  <2>1. G = [s \in SUBSET m |-> G[s]]
    OBVIOUS
  <2> HIDE DEF G
  <2> QED BY <2>1, <1>5 DEF IsSumOf
<1> QED BY <1>6, <1>2

\* The library's sum is the value of such a function.
LEMMA SumIsRecursive ==
  ASSUME NEW S, IsFiniteSet(S), NEW f
  PROVE  \E g : IsSumOf(g, f, S) /\ SumFunctionOnSet(f, S) = g[S]
<1> DEFINE I == CHOOSE g : IsSumOf(g, f, S)
<1>1. IsSumOf(I, f, S)
  BY RecursionExists
<1>2. SumFunctionOnSet(f, S) = I[S]
  BY DEF SumFunctionOnSet, FoldFunctionOnSet, MapThenFoldSet, IsSumOf, SumStep, Picked
<1> QED BY <1>1, <1>2

LEMMA SumEmpty == ASSUME NEW f PROVE SumFunctionOnSet(f, {}) = 0
<1>1. IsFiniteSet({})
  BY FS_EmptySet
<1>2. PICK g : IsSumOf(g, f, {}) /\ SumFunctionOnSet(f, {}) = g[{}]
  BY <1>1, SumIsRecursive
<1>3. {} \in SUBSET {}
  OBVIOUS
<1> QED BY <1>2, <1>3 DEF IsSumOf, SumStep

LEMMA SumUnfold ==
  ASSUME NEW S, IsFiniteSet(S), S # {}, NEW f
  PROVE  SumFunctionOnSet(f, S) = f[Picked(S)] + SumFunctionOnSet(f, S \ {Picked(S)})
<1> DEFINE R == S \ {Picked(S)}
<1>1. R \subseteq S /\ IsFiniteSet(R)
  BY FS_RemoveElement
<1>2. PICK g : IsSumOf(g, f, S) /\ SumFunctionOnSet(f, S) = g[S]
  BY SumIsRecursive
<1>3. PICK h : IsSumOf(h, f, R) /\ SumFunctionOnSet(f, R) = h[R]
  BY <1>1, SumIsRecursive
<1>4. g[R] = h[R]
  <2>1. R \in SUBSET R
    OBVIOUS
  <2>2. \A s \in SUBSET R : g[s] = h[s]
    <3> HIDE DEF R
    <3> QED BY <1>1, <1>2, <1>3, RecursionAgrees
  <2> QED BY <2>1, <2>2
<1>5. g[S] = f[Picked(S)] + g[R]
  <2>1. S \in SUBSET S
    OBVIOUS
  <2> QED BY <2>1, <1>2 DEF IsSumOf, SumStep
<1> QED BY <1>2, <1>3, <1>4, <1>5

\* Induction over the subsets of a finite set, for membership in a set.
LEMMA SubsetInduction ==
  ASSUME NEW S, IsFiniteSet(S), NEW G, {} \in G,
         \A T \in SUBSET S : T # {} /\ (\A x \in T : T \ {x} \in G) => T \in G
  PROVE  \A T \in SUBSET S : T \in G
<1> DEFINE B == {s \in SUBSET S : s \notin G}
<1>1. SUFFICES ASSUME B # {} PROVE FALSE
  OBVIOUS
<1>2. PICK m \in B : \A t \in B : t \subseteq m => t = m
  <2>1. B \subseteq SUBSET S
    OBVIOUS
  <2> HIDE DEF B
  <2> QED BY <1>1, <2>1, MinimalSubset
<1>3. ASSUME NEW x \in m PROVE m \ {x} \in G
  <2>1. m \ {x} \in SUBSET S /\ m \ {x} \subseteq m /\ m \ {x} # m
    BY <1>3
  <2> QED BY <2>1, <1>2
<1> QED BY <1>3

(* What the other modules cite.                                               *)

LEMMA SumInt ==
  ASSUME NEW S, IsFiniteSet(S), NEW f, \A x \in S : f[x] \in Int
  PROVE  \A T \in SUBSET S : SumFunctionOnSet(f, T) \in Int
<1> DEFINE G == {T \in SUBSET S : SumFunctionOnSet(f, T) \in Int}
<1>1. {} \in G
  BY SumEmpty
<1>2. ASSUME NEW T \in SUBSET S, T # {}, \A y \in T : T \ {y} \in G
      PROVE  T \in G
  <2>1. IsFiniteSet(T)
    BY FS_Subset
  <2>2. SumFunctionOnSet(f, T) = f[Picked(T)] + SumFunctionOnSet(f, T \ {Picked(T)})
    BY <1>2, <2>1, SumUnfold
  <2>3. Picked(T) \in T
    BY <1>2, ChosenIn
  <2> QED BY <1>2, <2>2, <2>3
<1>3. \A T \in SUBSET S : T \in G
  <2> HIDE DEF G
  <2> QED BY <1>1, <1>2, SubsetInduction
<1> QED BY <1>3

\* Any element can be taken out, not only the one the definition picks.
LEMMA SumRemove ==
  ASSUME NEW S, IsFiniteSet(S), NEW f, \A x \in S : f[x] \in Int
  PROVE  \A T \in SUBSET S : \A x \in T :
           SumFunctionOnSet(f, T) = f[x] + SumFunctionOnSet(f, T \ {x})
<1> DEFINE G == {T \in SUBSET S : \A x \in T :
                   SumFunctionOnSet(f, T) = f[x] + SumFunctionOnSet(f, T \ {x})}
<1>1. {} \in G
  OBVIOUS
<1>2. ASSUME NEW T \in SUBSET S, T # {}, \A y \in T : T \ {y} \in G
      PROVE  T \in G
  <2> SUFFICES ASSUME NEW x \in T
               PROVE  SumFunctionOnSet(f, T) = f[x] + SumFunctionOnSet(f, T \ {x})
    OBVIOUS
  <2>1. PICK c \in T : SumFunctionOnSet(f, T) = f[c] + SumFunctionOnSet(f, T \ {c})
    <3>1. IsFiniteSet(T)
      BY FS_Subset
    <3> QED BY <1>2, <3>1, SumUnfold, ChosenIn
  <2>2. CASE c = x
    BY <2>1, <2>2
  <2>3. CASE c # x
    <3>1. SumFunctionOnSet(f, T \ {c}) = f[x] + SumFunctionOnSet(f, (T \ {c}) \ {x})
      BY <1>2, <2>3
    <3>2. (T \ {x}) \ {c} = (T \ {c}) \ {x}
      OBVIOUS
    <3>3. SumFunctionOnSet(f, T \ {x}) = f[c] + SumFunctionOnSet(f, (T \ {c}) \ {x})
      BY <1>2, <2>3, <3>2
    <3>4. f[c] \in Int /\ f[x] \in Int /\ SumFunctionOnSet(f, (T \ {c}) \ {x}) \in Int
      BY SumInt
    <3> HIDE DEF G
    <3> QED BY <2>1, <3>1, <3>3, <3>4
  <2> QED BY <2>2, <2>3
<1>3. \A T \in SUBSET S : T \in G
  <2> HIDE DEF G
  <2> QED BY <1>1, <1>2, SubsetInduction
<1> QED BY <1>3

\* Larger values, larger sum.
LEMMA SumMonotone ==
  ASSUME NEW S, IsFiniteSet(S), NEW f, NEW g,
         \A x \in S : f[x] \in Int /\ g[x] \in Int /\ f[x] <= g[x]
  PROVE  SumFunctionOnSet(f, S) <= SumFunctionOnSet(g, S)
<1> DEFINE G == {T \in SUBSET S : SumFunctionOnSet(f, T) <= SumFunctionOnSet(g, T)}
<1>1. {} \in G
  BY SumEmpty
<1>2. ASSUME NEW T \in SUBSET S, T # {}, \A y \in T : T \ {y} \in G
      PROVE  T \in G
  <2>1. PICK x \in T : TRUE
    BY <1>2
  <2>2. SumFunctionOnSet(f, T) = f[x] + SumFunctionOnSet(f, T \ {x})
    BY SumRemove
  <2>3. SumFunctionOnSet(g, T) = g[x] + SumFunctionOnSet(g, T \ {x})
    BY SumRemove
  <2>4. SumFunctionOnSet(f, T \ {x}) <= SumFunctionOnSet(g, T \ {x})
    BY <1>2
  <2>5. /\ SumFunctionOnSet(f, T \ {x}) \in Int /\ SumFunctionOnSet(g, T \ {x}) \in Int
    <3>1. T \ {x} \in SUBSET S
      OBVIOUS
    <3> QED BY <3>1, SumInt
  <2>6. f[x] \in Int /\ g[x] \in Int /\ f[x] <= g[x]
    OBVIOUS
  <2> QED BY <2>2, <2>3, <2>4, <2>5, <2>6
<1>3. \A T \in SUBSET S : T \in G
  <2> HIDE DEF G
  <2> QED BY <1>1, <1>2, SubsetInduction
<1> QED BY <1>3

\* The sum depends on the values only.
LEMMA SumSame ==
  ASSUME NEW S, IsFiniteSet(S), NEW f, NEW g, \A x \in S : f[x] \in Int /\ g[x] = f[x]
  PROVE  SumFunctionOnSet(f, S) = SumFunctionOnSet(g, S)
<1>1. SumFunctionOnSet(f, S) <= SumFunctionOnSet(g, S)
  BY SumMonotone
<1>2. SumFunctionOnSet(g, S) <= SumFunctionOnSet(f, S)
  BY SumMonotone
<1>3. SumFunctionOnSet(f, S) \in Int /\ SumFunctionOnSet(g, S) \in Int
  BY SumInt
<1> QED BY <1>1, <1>2, <1>3

\* One value changes.
LEMMA SumUpdate ==
  ASSUME NEW S, IsFiniteSet(S), NEW f, NEW g, NEW x \in S,
         \A y \in S : f[y] \in Int, \A y \in S : g[y] \in Int, \A y \in S \ {x} : g[y] = f[y]
  PROVE  SumFunctionOnSet(g, S) = SumFunctionOnSet(f, S) + g[x] - f[x]
<1>1. SumFunctionOnSet(f, S) = f[x] + SumFunctionOnSet(f, S \ {x})
  BY SumRemove
<1>2. SumFunctionOnSet(g, S) = g[x] + SumFunctionOnSet(g, S \ {x})
  BY SumRemove
<1>3. IsFiniteSet(S \ {x})
  BY FS_RemoveElement
<1>4. SumFunctionOnSet(f, S \ {x}) = SumFunctionOnSet(g, S \ {x})
  BY <1>3, SumSame
<1>5. SumFunctionOnSet(f, S \ {x}) \in Int /\ f[x] \in Int /\ g[x] \in Int
  BY SumInt
<1> QED BY <1>1, <1>2, <1>4, <1>5

\* What a value gains, another integer loses, or gains as well.
LEMMA SumExchange ==
  ASSUME NEW S, IsFiniteSet(S), NEW f, NEW g, NEW x \in S,
         \A y \in S : f[y] \in Int, \A y \in S : g[y] \in Int, \A y \in S \ {x} : g[y] = f[y],
         NEW a \in Int, NEW b \in Int
  PROVE  /\ b + g[x] = a + f[x]
              => b + SumFunctionOnSet(g, S) = a + SumFunctionOnSet(f, S)
         /\ b - g[x] = a - f[x] /\ a = SumFunctionOnSet(f, S)
              => b = SumFunctionOnSet(g, S)
<1>1. SumFunctionOnSet(g, S) = SumFunctionOnSet(f, S) + g[x] - f[x]
  BY SumUpdate
<1>2. /\ SumFunctionOnSet(f, S) \in Int /\ SumFunctionOnSet(g, S) \in Int
      /\ f[x] \in Int /\ g[x] \in Int
  BY SumInt
<1> QED BY <1>1, <1>2

\* One element more.
LEMMA SumAdd ==
  ASSUME NEW S, IsFiniteSet(S), NEW f, NEW x, x \notin S, \A y \in S \cup {x} : f[y] \in Int
  PROVE  SumFunctionOnSet(f, S \cup {x}) = SumFunctionOnSet(f, S) + f[x]
<1>1. IsFiniteSet(S \cup {x})
  BY FS_AddElement
<1>2. (S \cup {x}) \ {x} = S /\ S \cup {x} \in SUBSET (S \cup {x}) /\ x \in S \cup {x}
  OBVIOUS
<1>3. SumFunctionOnSet(f, S \cup {x}) = f[x] + SumFunctionOnSet(f, S)
  BY <1>1, <1>2, SumRemove
<1>4. SumFunctionOnSet(f, S) \in Int /\ f[x] \in Int
  BY SumInt
<1> QED BY <1>3, <1>4

\* The sum over a part and over the rest.
LEMMA SumSplit ==
  ASSUME NEW S, IsFiniteSet(S), NEW f, \A x \in S : f[x] \in Int, NEW T \in SUBSET S
  PROVE  SumFunctionOnSet(f, S) = SumFunctionOnSet(f, T) + SumFunctionOnSet(f, S \ T)
<1> DEFINE G == {U \in SUBSET S : SumFunctionOnSet(f, U)
                   = SumFunctionOnSet(f, U \cap T) + SumFunctionOnSet(f, U \ T)}
<1>1. {} \in G
  <2>1. {} \cap T = {} /\ {} \ T = {}
    OBVIOUS
  <2> QED BY <2>1, SumEmpty
<1>2. ASSUME NEW U \in SUBSET S, U # {}, \A y \in U : U \ {y} \in G
      PROVE  U \in G
  <2>1. PICK x \in U : TRUE
    BY <1>2
  <2> DEFINE R == U \ {x}
  <2>2. SumFunctionOnSet(f, U) = f[x] + SumFunctionOnSet(f, R)
    BY SumRemove
  <2>3. SumFunctionOnSet(f, R) = SumFunctionOnSet(f, R \cap T) + SumFunctionOnSet(f, R \ T)
    BY <1>2
  <2>4. f[x] \in Int /\ SumFunctionOnSet(f, R \cap T) \in Int /\ SumFunctionOnSet(f, R \ T) \in Int
    BY SumInt
  <2>5. CASE x \in T
    <3>1. x \in U \cap T /\ (U \cap T) \ {x} = R \cap T /\ U \ T = R \ T /\ U \cap T \in SUBSET S
      BY <2>5
    <3>2. SumFunctionOnSet(f, U \cap T) = f[x] + SumFunctionOnSet(f, R \cap T)
      <4> HIDE DEF R
      <4> QED BY <3>1, SumRemove
    <3>3. SumFunctionOnSet(f, U \ T) = SumFunctionOnSet(f, R \ T)
      BY <3>1
    <3> HIDE DEF R, G
    <3>4. SumFunctionOnSet(f, U) = SumFunctionOnSet(f, U \cap T) + SumFunctionOnSet(f, U \ T)
      BY <2>2, <2>3, <2>4, <3>2, <3>3
    <3> QED BY <3>4 DEF G
  <2>6. CASE x \notin T
    <3>1. x \in U \ T /\ (U \ T) \ {x} = R \ T /\ U \cap T = R \cap T /\ U \ T \in SUBSET S
      BY <2>6
    <3>2. SumFunctionOnSet(f, U \ T) = f[x] + SumFunctionOnSet(f, R \ T)
      <4> HIDE DEF R
      <4> QED BY <3>1, SumRemove
    <3>3. SumFunctionOnSet(f, U \cap T) = SumFunctionOnSet(f, R \cap T)
      BY <3>1
    <3> HIDE DEF R, G
    <3>4. SumFunctionOnSet(f, U) = SumFunctionOnSet(f, U \cap T) + SumFunctionOnSet(f, U \ T)
      BY <2>2, <2>3, <2>4, <3>2, <3>3
    <3> QED BY <3>4 DEF G
  <2> QED BY <2>5, <2>6
<1>3. \A U \in SUBSET S : U \in G
  <2> HIDE DEF G
  <2> QED BY <1>1, <1>2, SubsetInduction
<1>4. S \in SUBSET S /\ S \cap T = T
  OBVIOUS
<1> QED BY <1>3, <1>4

LEMMA SumNat ==
  ASSUME NEW S, IsFiniteSet(S), NEW f, \A x \in S : f[x] \in Nat
  PROVE  SumFunctionOnSet(f, S) \in Nat
<1> DEFINE G == {T \in SUBSET S : SumFunctionOnSet(f, T) \in Nat}
<1>1. {} \in G
  BY SumEmpty
<1>2. ASSUME NEW T \in SUBSET S, T # {}, \A y \in T : T \ {y} \in G
      PROVE  T \in G
  <2>1. PICK x \in T : TRUE
    BY <1>2
  <2>2. SumFunctionOnSet(f, T) = f[x] + SumFunctionOnSet(f, T \ {x})
    BY SumRemove
  <2> QED BY <1>2, <2>2
<1>3. \A T \in SUBSET S : T \in G
  <2> HIDE DEF G
  <2> QED BY <1>1, <1>2, SubsetInduction
<1> QED BY <1>3

\* A part of values that are not negative is no larger than the whole.
LEMMA SumSubset ==
  ASSUME NEW S, IsFiniteSet(S), NEW f, \A x \in S : f[x] \in Nat, NEW T \in SUBSET S
  PROVE  SumFunctionOnSet(f, T) <= SumFunctionOnSet(f, S)
<1>1. IsFiniteSet(S \ T) /\ IsFiniteSet(T)
  BY FS_Difference, FS_Subset
<1>2. SumFunctionOnSet(f, S \ T) \in Nat /\ SumFunctionOnSet(f, T) \in Nat
  BY <1>1, SumNat
<1> QED BY <1>2, SumSplit

\* Equal values.
LEMMA SumConstant ==
  ASSUME NEW S, IsFiniteSet(S), NEW f, NEW c \in Int, \A x \in S : f[x] = c
  PROVE  SumFunctionOnSet(f, S) = c * Cardinality(S)
<1> DEFINE G == {T \in SUBSET S : SumFunctionOnSet(f, T) = c * Cardinality(T)}
<1>1. {} \in G
  BY SumEmpty, FS_EmptySet
<1>2. ASSUME NEW T \in SUBSET S, T # {}, \A y \in T : T \ {y} \in G
      PROVE  T \in G
  <2>1. PICK x \in T : TRUE
    BY <1>2
  <2>2. SumFunctionOnSet(f, T) = f[x] + SumFunctionOnSet(f, T \ {x})
    BY SumRemove
  <2>3. IsFiniteSet(T)
    BY FS_Subset
  <2>4. Cardinality(T \ {x}) = Cardinality(T) - 1 /\ Cardinality(T) \in Nat
    BY <2>3, FS_RemoveElement, FS_CardinalityType
  <2>5. SumFunctionOnSet(f, T \ {x}) = c * (Cardinality(T) - 1)
    BY <1>2, <2>4
  <2>6. c + c * (Cardinality(T) - 1) = c * Cardinality(T)
    BY <2>4
  <2> QED BY <2>2, <2>5, <2>6
<1>3. \A T \in SUBSET S : T \in G
  <2> HIDE DEF G
  <2> QED BY <1>1, <1>2, SubsetInduction
<1> QED BY <1>3
\* A sum over the members of S is one over their images, when no two share one.
LEMMA SumImage ==
  ASSUME NEW S, IsFiniteSet(S), NEW f, NEW g, NEW h,
         \A x, y \in S : h[x] = h[y] => x = y,
         \A x \in S : f[h[x]] \in Int /\ g[x] = f[h[x]]
  PROVE  SumFunctionOnSet(g, S) = SumFunctionOnSet(f, {h[x] : x \in S})
<1> DEFINE Im(T) == {h[x] : x \in T}
           G == {T \in SUBSET S : IsFiniteSet(Im(T))
                                  /\ SumFunctionOnSet(g, T) = SumFunctionOnSet(f, Im(T))}
<1>1. {} \in G
  <2>1. Im({}) = {}
    OBVIOUS
  <2> QED BY <2>1, SumEmpty, FS_EmptySet
<1>2. ASSUME NEW T \in SUBSET S, T # {}, \A y \in T : T \ {y} \in G
      PROVE  T \in G
  <2>1. PICK x \in T : TRUE
    BY <1>2
  <2>2. SumFunctionOnSet(g, T) = g[x] + SumFunctionOnSet(g, T \ {x})
    BY SumRemove
  <2>3. Im(T) \ {h[x]} = Im(T \ {x})
    <3>1. ASSUME NEW z PROVE z \in Im(T) \ {h[x]} <=> z \in Im(T \ {x})
      OBVIOUS
    <3> HIDE DEF Im
    <3> QED BY <3>1
  <2>4. IsFiniteSet(Im(T))
    <3>1. Im(T) = Im(T \ {x}) \cup {h[x]}
      OBVIOUS
    <3>2. IsFiniteSet(Im(T \ {x}))
      BY <1>2
    <3>3. IsFiniteSet(Im(T \ {x}) \cup {h[x]})
      <4> HIDE DEF Im
      <4> QED BY <3>2, FS_AddElement
    <3> QED BY <3>1, <3>3
  <2>5. SumFunctionOnSet(f, Im(T)) = f[h[x]] + SumFunctionOnSet(f, Im(T) \ {h[x]})
    <3>1. h[x] \in Im(T) /\ \A z \in Im(T) : f[z] \in Int
      OBVIOUS
    <3> HIDE DEF Im
    <3> QED BY <2>4, <3>1, SumRemove
  <2>6. SumFunctionOnSet(g, T \ {x}) = SumFunctionOnSet(f, Im(T \ {x}))
    BY <1>2
  <2>7. SumFunctionOnSet(g, T) = SumFunctionOnSet(f, Im(T))
    <3>1. g[x] = f[h[x]]
      OBVIOUS
    <3> HIDE DEF Im
    <3> QED BY <2>2, <2>3, <2>5, <2>6, <3>1
  <2> QED BY <2>7, <2>4
<1>3. \A T \in SUBSET S : T \in G
  <2> HIDE DEF G
  <2> QED BY <1>1, <1>2, SubsetInduction
<1>4. S \in G
  BY <1>3
<1> QED BY <1>4

\* Two parts of S that share no member.
LEMMA SumUnion ==
  ASSUME NEW S, IsFiniteSet(S), NEW f, \A x \in S : f[x] \in Int,
         NEW A \in SUBSET S, NEW B \in SUBSET S, A \cap B = {}
  PROVE  SumFunctionOnSet(f, A \cup B) = SumFunctionOnSet(f, A) + SumFunctionOnSet(f, B)
<1>1. A \cup B \in SUBSET S /\ A \in SUBSET (A \cup B) /\ (A \cup B) \ A = B
  OBVIOUS
<1>2. IsFiniteSet(A \cup B)
  BY <1>1, FS_Subset
<1>3. \A x \in A \cup B : f[x] \in Int
  BY <1>1
<1>4. SumFunctionOnSet(f, A \cup B)
        = SumFunctionOnSet(f, A) + SumFunctionOnSet(f, (A \cup B) \ A)
  BY <1>1, <1>2, <1>3, SumSplit
<1> QED BY <1>1, <1>4

=============================================================================
