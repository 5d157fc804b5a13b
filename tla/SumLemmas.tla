----------------------------- MODULE SumLemmas -----------------------------
(***************************************************************************)
(* What a sum over a finite set is, whichever element its recursive        *)
(* definition takes first: the facts the proofs about FileCopy need of     *)
(* SumFunctionOnSet.                                                       *)
(*                                                                         *)
(* Each proof by induction looks at a smallest counterexample: a set of    *)
(* natural numbers has a least element, and so there is a set with fewest  *)
(* elements among those of which a fact fails.                             *)
(***************************************************************************)
EXTENDS FiniteSetsExt, FiniteSetTheorems, TLAPS

(* Every inhabited set of natural numbers has a least element.             *)
LEMMA LeastNumber ==
    ASSUME NEW T \in SUBSET Nat, T # {}
    PROVE  \E n \in T : \A m \in T : n <= m
<1>1. IsWellFoundedOn(OpToRel(<, Nat), Nat)
      BY NatLessThanWellFounded
<1>2. PICK n \in T : \A m \in T : <<m, n>> \notin OpToRel(<, Nat)
      BY <1>1, WFMin
<1>3. \A m \in T : ~ (m < n)
      BY <1>2 DEF OpToRel
<1> QED BY <1>3

(* Every inhabited collection of finite sets has a member no other is a    *)
(* part of.                                                                *)
LEMMA LeastSet ==
    ASSUME NEW S, IsFiniteSet(S), NEW T \in SUBSET (SUBSET S), T # {}
    PROVE  \E U \in T : \A V \in T : V \subseteq U => V = U
<1>1. \A U \in T : IsFiniteSet(U) /\ Cardinality(U) \in Nat
      BY FS_Subset, FS_CardinalityType
<1> DEFINE N == {Cardinality(U) : U \in T}
<1>2. PICK n \in N : \A m \in N : n <= m
  <2>1. N \in SUBSET Nat /\ N # {}
        BY <1>1
  <2> QED BY <2>1, LeastNumber
<1>3. PICK U \in T : n = Cardinality(U)
      BY <1>2
<1>4. ASSUME NEW V \in T, V \subseteq U PROVE V = U
  <2>1. Cardinality(V) <= Cardinality(U) /\ (Cardinality(U) = Cardinality(V) => U = V)
        BY <1>1, <1>4, FS_Subset
  <2>2. Cardinality(U) <= Cardinality(V)
        BY <1>2, <1>3
  <2> QED BY <1>1, <2>1, <2>2
<1> QED BY <1>4

-----------------------------------------------------------------------------
(* How SumFunctionOnSet adds: it takes some element, and sums the rest.    *)
First(s) == CHOOSE x \in s : TRUE
Sum(fun, sums, s) == IF s = {} THEN 0 ELSE fun[First(s)] + sums[s \ {First(s)}]

(* sums holds the sum over each part of S.                                 *)
SumsUp(fun, S, sums) == sums = [s \in SUBSET S |-> Sum(fun, sums, s)]

(* A nonempty set has the element the sum starts with.                     *)
LEMMA FirstOf == \A s : s # {} => First(s) \in s
  BY DEF First

(* The equation holds of each part.                                        *)
LEMMA SumOfPart ==
    ASSUME NEW fun, NEW S, NEW sums, SumsUp(fun, S, sums), NEW s \in SUBSET S
    PROVE  sums[s] = Sum(fun, sums, s)
  BY DEF SumsUp

(* The sum of a set does not depend on the larger set it is a part of.     *)
LEMMA SumsAgree ==
    ASSUME NEW fun, NEW A, IsFiniteSet(A), NEW B, NEW g, NEW h,
           SumsUp(fun, A, g), SumsUp(fun, B, h)
    PROVE  \A s \in SUBSET (A \cap B) : g[s] = h[s]
<1> DEFINE T == {s \in SUBSET (A \cap B) : g[s] # h[s]}
<1> SUFFICES ASSUME T # {} PROVE FALSE
    OBVIOUS
<1>1. PICK s \in T : \A t \in T : t \subseteq s => t = s
  <2>1. T \in SUBSET (SUBSET A)
        OBVIOUS
  <2> HIDE DEF T
  <2> QED BY <2>1, LeastSet
<1>2. g[s] = Sum(fun, g, s) /\ h[s] = Sum(fun, h, s)
      BY SumOfPart
<1>3. s # {}
      BY <1>2 DEF Sum
<1>4. g[s \ {First(s)}] = h[s \ {First(s)}]
      BY <1>1, <1>3, FirstOf
<1> QED BY <1>2, <1>3, <1>4 DEF Sum

(* Every finite set has sums for all its parts.                            *)
LEMMA SumsExist ==
    ASSUME NEW fun, NEW S, IsFiniteSet(S)
    PROVE  \E sums : SumsUp(fun, S, sums)
<1> DEFINE T == {U \in SUBSET S : ~ \E sums : SumsUp(fun, U, sums)}
<1> SUFFICES ASSUME T # {} PROVE FALSE
    OBVIOUS
<1>1. PICK U \in T : \A V \in T : V \subseteq U => V = U
  <2>1. T \in SUBSET (SUBSET S)
        OBVIOUS
  <2> HIDE DEF T
  <2> QED BY <2>1, LeastSet
<1> DEFINE of(V) == CHOOSE sums : SumsUp(fun, V, sums)
           rest == [s \in SUBSET U |-> of(s)[s]]
           sums == [s \in SUBSET U |-> IF s = U THEN Sum(fun, rest, U) ELSE rest[s]]
<1>2. ASSUME NEW V \in SUBSET U, V # U PROVE SumsUp(fun, V, of(V)) /\ IsFiniteSet(V)
  <2>1. V \notin T /\ V \in SUBSET S
        BY <1>1, <1>2
  <2> QED BY <2>1, FS_Subset
<1>3. ASSUME NEW s \in SUBSET U PROVE sums[s] = Sum(fun, sums, s)
  <2>1. CASE s = {}
    <3>1. CASE s = U
          BY <2>1, <3>1 DEF Sum
    <3>2. CASE s # U
      <4>1. of(s)[s] = Sum(fun, of(s), s)
        <5>1. SumsUp(fun, s, of(s)) /\ s \in SUBSET s
              BY <1>2, <3>2
        <5> HIDE DEF of
        <5> QED BY <5>1, SumOfPart
      <4> QED BY <2>1, <3>2, <4>1 DEF Sum
    <3> QED BY <3>1, <3>2
  <2>2. CASE s # {}
    <3> DEFINE x == First(s)
               t == s \ {x}
    <3>1. x \in s /\ t \in SUBSET U /\ t # U /\ t # s
          BY <2>2, FirstOf
    <3>2. sums[t] = of(t)[t]
          BY <3>1
    <3>3. CASE s = U
      <4>1. sums[s] = fun[x] + rest[t]
            BY <2>2, <3>3 DEF Sum
      <4> QED BY <2>2, <3>1, <3>2, <4>1 DEF Sum
    <3>4. CASE s # U
      <4>1. of(s)[s] = fun[x] + of(s)[t]
        <5>1. SumsUp(fun, s, of(s)) /\ s \in SUBSET s
              BY <1>2, <3>4
        <5>2. of(s)[s] = Sum(fun, of(s), s)
          <6> HIDE DEF of
          <6> QED BY <5>1, SumOfPart
        <5> QED BY <2>2, <5>2 DEF Sum
      <4>2. of(s)[t] = of(t)[t]
        <5>1. SumsUp(fun, s, of(s)) /\ SumsUp(fun, t, of(t)) /\ IsFiniteSet(s)
              BY <1>2, <3>1, <3>4
        <5>2. t \in SUBSET (s \cap t)
              BY <3>1
        <5> HIDE DEF of, x, t
        <5> QED BY <5>1, <5>2, SumsAgree
      <4> QED BY <2>2, <3>2, <3>4, <4>1, <4>2 DEF Sum
    <3> QED BY <3>3, <3>4
  <2> QED BY <2>1, <2>2
<1>4. SumsUp(fun, U, sums)
  <2> HIDE DEF sums
  <2>1. sums = [s \in SUBSET U |-> sums[s]]
        BY DEF sums
  <2> QED BY <1>3, <2>1 DEF SumsUp
<1> QED BY <1>1, <1>4

(* So the community module's sum is the sum of all parts, at the set.      *)
LEMMA SumIsSum ==
    ASSUME NEW fun, NEW S, IsFiniteSet(S), NEW sums, SumsUp(fun, S, sums)
    PROVE  SumFunctionOnSet(fun, S) = sums[S]
<1> DEFINE iter == CHOOSE g : SumsUp(fun, S, g)
<1>1. SumFunctionOnSet(fun, S) = iter[S]
      BY DEF SumFunctionOnSet, FoldFunctionOnSet, MapThenFoldSet, SumsUp, Sum, First
<1>2. SumsUp(fun, S, iter)
      OBVIOUS
<1> QED BY <1>1, <1>2, SumsAgree

-----------------------------------------------------------------------------
(* What follows, of the community module's sum alone.                      *)

(* The empty sum, and the sum that takes the first element.                *)
LEMMA SumStep ==
    ASSUME NEW fun, NEW S, IsFiniteSet(S)
    PROVE  /\ S = {} => SumFunctionOnSet(fun, S) = 0
           /\ S # {} => SumFunctionOnSet(fun, S) =
                            fun[First(S)] + SumFunctionOnSet(fun, S \ {First(S)})
<1> DEFINE rest == S \ {First(S)}
<1>1. PICK sums : SumsUp(fun, S, sums)
      BY SumsExist
<1>2. SumFunctionOnSet(fun, S) = Sum(fun, sums, S)
      BY <1>1, SumIsSum, SumOfPart
<1>3. IsFiniteSet(rest) /\ rest \in SUBSET S
      BY FS_Subset
<1>4. PICK part : SumsUp(fun, rest, part)
      BY <1>3, SumsExist
<1>5. SumFunctionOnSet(fun, rest) = part[rest]
      BY <1>3, <1>4, SumIsSum
<1>6. part[rest] = sums[rest]
  <2>1. rest \in SUBSET (rest \cap S)
        BY <1>3
  <2> HIDE DEF rest
  <2> QED BY <1>1, <1>3, <1>4, <2>1, SumsAgree
<1> QED BY <1>2, <1>5, <1>6 DEF Sum

(* The sum of no numbers is 0.                                             *)
LEMMA SumEmpty == ASSUME NEW fun PROVE SumFunctionOnSet(fun, {}) = 0
  BY SumStep, FS_EmptySet

(* A sum of natural numbers is one.                                        *)
LEMMA SumType ==
    ASSUME NEW fun, NEW S, IsFiniteSet(S), \A x \in S : fun[x] \in Nat
    PROVE  SumFunctionOnSet(fun, S) \in Nat
<1> DEFINE T == {U \in SUBSET S : SumFunctionOnSet(fun, U) \notin Nat}
<1> SUFFICES ASSUME T # {} PROVE FALSE
    OBVIOUS
<1>1. PICK U \in T : \A V \in T : V \subseteq U => V = U
  <2>1. T \in SUBSET (SUBSET S)
        OBVIOUS
  <2> HIDE DEF T
  <2> QED BY <2>1, LeastSet
<1>2. IsFiniteSet(U) /\ U \in SUBSET S
      BY FS_Subset
<1>3. U # {}
      BY SumEmpty
<1>4. /\ First(U) \in U
      /\ SumFunctionOnSet(fun, U) = fun[First(U)] + SumFunctionOnSet(fun, U \ {First(U)})
      BY <1>2, <1>3, FirstOf, SumStep
<1>5. SumFunctionOnSet(fun, U \ {First(U)}) \in Nat
      BY <1>1, <1>2, <1>4
<1> QED BY <1>2, <1>4, <1>5

(* Functions that agree on a set have the same sum over it.                *)
LEMMA SumCongruent ==
    ASSUME NEW f, NEW g, NEW S, IsFiniteSet(S), \A x \in S : f[x] = g[x]
    PROVE  SumFunctionOnSet(f, S) = SumFunctionOnSet(g, S)
<1> DEFINE T == {U \in SUBSET S : SumFunctionOnSet(f, U) # SumFunctionOnSet(g, U)}
<1> SUFFICES ASSUME T # {} PROVE FALSE
    OBVIOUS
<1>1. PICK U \in T : \A V \in T : V \subseteq U => V = U
  <2>1. T \in SUBSET (SUBSET S)
        OBVIOUS
  <2> HIDE DEF T
  <2> QED BY <2>1, LeastSet
<1>2. IsFiniteSet(U) /\ U \in SUBSET S
      BY FS_Subset
<1>3. U # {}
      BY SumEmpty
<1>4. /\ First(U) \in U
      /\ SumFunctionOnSet(f, U) = f[First(U)] + SumFunctionOnSet(f, U \ {First(U)})
      /\ SumFunctionOnSet(g, U) = g[First(U)] + SumFunctionOnSet(g, U \ {First(U)})
      BY <1>2, <1>3, FirstOf, SumStep
<1>5. SumFunctionOnSet(f, U \ {First(U)}) = SumFunctionOnSet(g, U \ {First(U)})
      BY <1>1, <1>2, <1>4
<1> QED BY <1>2, <1>4, <1>5

(* Any element may be taken out of a sum of natural numbers.               *)
LEMMA SumTakesOut ==
    ASSUME NEW fun, NEW S, IsFiniteSet(S), \A x \in S : fun[x] \in Nat, NEW x \in S
    PROVE  SumFunctionOnSet(fun, S) = fun[x] + SumFunctionOnSet(fun, S \ {x})
<1> DEFINE total(U) == SumFunctionOnSet(fun, U)
           T == {U \in SUBSET S : \E y \in U : total(U) # fun[y] + total(U \ {y})}
<1> SUFFICES ASSUME T # {} PROVE FALSE
    OBVIOUS
<1>1. PICK U \in T : \A V \in T : V \subseteq U => V = U
  <2>1. T \in SUBSET (SUBSET S)
        OBVIOUS
  <2> HIDE DEF T
  <2> QED BY <2>1, LeastSet
<1>2. \A V \in SUBSET S : IsFiniteSet(V) /\ total(V) \in Nat
  <2> TAKE V \in SUBSET S
  <2>1. IsFiniteSet(V) /\ \A y \in V : fun[y] \in Nat
        BY FS_Subset
  <2> QED BY <2>1, SumType
<1>3. PICK y \in U : total(U) # fun[y] + total(U \ {y})
      OBVIOUS
<1> DEFINE z == First(U)
<1>4. z \in U /\ total(U) = fun[z] + total(U \ {z})
      BY <1>2, <1>3, FirstOf, SumStep
<1>5. y # z
      BY <1>3, <1>4
<1> DEFINE others == (U \ {y}) \ {z}
<1>6. total(U \ {z}) = fun[y] + total(others)
  <2>1. total(U \ {z}) = fun[y] + total((U \ {z}) \ {y})
        BY <1>1, <1>3, <1>4, <1>5
  <2>2. (U \ {z}) \ {y} = others
        OBVIOUS
  <2> QED BY <2>1, <2>2
<1>7. total(U \ {y}) = fun[z] + total(others)
      BY <1>1, <1>3, <1>4, <1>5
<1>8. fun[y] \in Nat /\ fun[z] \in Nat /\ total(others) \in Nat
      BY <1>2, <1>3, <1>4
<1>9. fun[z] + (fun[y] + total(others)) = fun[y] + (fun[z] + total(others))
  <2> HIDE DEF total, z, others
  <2> QED BY <1>8
<1> QED BY <1>3, <1>4, <1>6, <1>7, <1>9

(* An element may be put in.                                               *)
LEMMA SumPutsIn ==
    ASSUME NEW fun, NEW S, IsFiniteSet(S), NEW x, x \notin S,
           \A y \in S \cup {x} : fun[y] \in Nat
    PROVE  SumFunctionOnSet(fun, S \cup {x}) = fun[x] + SumFunctionOnSet(fun, S)
<1>1. IsFiniteSet(S \cup {x}) /\ x \in S \cup {x} /\ (S \cup {x}) \ {x} = S
      BY FS_AddElement
<1> QED BY <1>1, SumTakesOut

(* Two functions that differ at one element differ by it in their sums.    *)
LEMMA SumDiffers ==
    ASSUME NEW f, NEW g, NEW S, IsFiniteSet(S), NEW x \in S,
           \A y \in S : f[y] \in Nat /\ g[y] \in Nat,
           \A y \in S \ {x} : f[y] = g[y]
    PROVE  \E rest \in Nat : /\ SumFunctionOnSet(f, S) = f[x] + rest
                             /\ SumFunctionOnSet(g, S) = g[x] + rest
<1>1. IsFiniteSet(S \ {x})
      BY FS_RemoveElement
<1>2. SumFunctionOnSet(f, S \ {x}) = SumFunctionOnSet(g, S \ {x})
      BY <1>1, SumCongruent
<1>3. SumFunctionOnSet(f, S \ {x}) \in Nat
      BY <1>1, SumType
<1>4. /\ SumFunctionOnSet(f, S) = f[x] + SumFunctionOnSet(f, S \ {x})
      /\ SumFunctionOnSet(g, S) = g[x] + SumFunctionOnSet(g, S \ {x})
      BY SumTakesOut
<1> QED BY <1>2, <1>3, <1>4
=============================================================================
