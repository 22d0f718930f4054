------------------------------ MODULE NatFacts ------------------------------
(* Facts about natural numbers, and about sums over finite sets, that the    *)
(* proofs of several modules use.                                          *)
EXTENDS Integers, FiniteSets, FiniteSetsExt, Functions, FiniteSetTheorems, WellFoundedInduction, TLAPS

\* A nonempty set of natural numbers has a least element, which Min chooses.
LEMMA MinIn ==
  ASSUME NEW S \in SUBSET Nat, S # {}
  PROVE  Min(S) \in S /\ \A n \in S : Min(S) <= n
<1>1. \E m \in S : \A n \in S : ~(<<n, m>> \in OpToRel(<, Nat))
  BY NatLessThanWellFounded, WFMin, Zenon
<1>2. PICK m \in S : \A n \in S : ~(<<n, m>> \in OpToRel(<, Nat))
  BY <1>1
<1>3. \A n \in S : ~(n < m)
  <2> SUFFICES ASSUME NEW n \in S, n < m PROVE FALSE
    OBVIOUS
  <2>1. <<n, m>> \in Nat \X Nat /\ <<n, m>>[1] < <<n, m>>[2]
    OBVIOUS
  <2>2. <<n, m>> \in OpToRel(<, Nat)
    BY <2>1, Zenon DEF OpToRel
  <2>3. QED BY <1>2, <2>2
<1>4. \A n \in S : m <= n
  BY <1>3
<1>5. QED
  BY <1>4 DEF Min

\* Among sets that are all part of one finite set there is one that none of the others is part of.
LEMMA LeastSubset ==
  ASSUME NEW S, IsFiniteSet(S), NEW T \in SUBSET SUBSET S, T # {}
  PROVE  \E s \in T : IsFiniteSet(s) /\ \A t \in T : t \subseteq s => t = s
<1> DEFINE K == {Cardinality(s) : s \in T}
<1>1. \A s \in T : IsFiniteSet(s) /\ Cardinality(s) \in Nat
  BY FS_Subset, FS_CardinalityType
<1>2. K \in SUBSET Nat /\ K # {}
  BY <1>1
<1>3. Min(K) \in K /\ \A n \in K : Min(K) <= n
  BY <1>2, MinIn
<1>4. PICK s \in T : Cardinality(s) = Min(K)
  BY <1>3
<1>5. ASSUME NEW t \in T, t \subseteq s PROVE t = s
  <2>1. Cardinality(t) <= Cardinality(s) /\ (Cardinality(s) = Cardinality(t) => s = t)
    BY <1>1, <1>5, FS_Subset
  <2>2. Cardinality(s) <= Cardinality(t)
    BY <1>3, <1>4
  <2> QED
    BY <1>1, <2>1, <2>2
<1> QED
  BY <1>1, <1>5

Chosen(s) == CHOOSE x \in s : TRUE
Adds(g, f, S) == g = [s \in SUBSET S |-> IF s = {} THEN 0 ELSE f[Chosen(s)] + g[s \ {Chosen(s)}]]
Adder(f, S) == CHOOSE g : Adds(g, f, S)

LEMMA SumIsAdder == \A f, S : SumFunctionOnSet(f, S) = Adder(f, S)[S]
  BY Zenon DEF SumFunctionOnSet, FoldFunctionOnSet, MapThenFoldSet, Adder, Adds, Chosen

\* What two sums come to by the same steps is the same where their terms are.
LEMMA AddersAgree ==
  ASSUME NEW A, NEW B, NEW f, NEW e, NEW g, NEW h, Adds(g, f, A), Adds(h, e, B),
         NEW s \in SUBSET (A \cap B), IsFiniteSet(s), \A x \in s : f[x] = e[x]
  PROVE  g[s] = h[s]
<1> DEFINE T == {t \in SUBSET s : g[t] # h[t]}
<1>0. T \in SUBSET SUBSET s
  OBVIOUS
<1>1. SUFFICES ASSUME T # {} PROVE FALSE
  OBVIOUS
<1> HIDE DEF T
<1>2. PICK t \in T : IsFiniteSet(t) /\ \A u \in T : u \subseteq t => u = t
  BY <1>0, <1>1, LeastSubset
<1>3. \A u \in SUBSET s :
        /\ g[u] = IF u = {} THEN 0 ELSE f[Chosen(u)] + g[u \ {Chosen(u)}]
        /\ h[u] = IF u = {} THEN 0 ELSE e[Chosen(u)] + h[u \ {Chosen(u)}]
  BY DEF Adds
<1>4. t \in SUBSET s /\ g[t] # h[t] /\ t # {}
  BY <1>3 DEF T
<1>5. Chosen(t) \in t
  BY <1>4 DEF Chosen
<1>6. t \ {Chosen(t)} \in SUBSET s /\ t \ {Chosen(t)} \subseteq t /\ t \ {Chosen(t)} # t
  BY <1>4, <1>5
<1>7. g[t \ {Chosen(t)}] = h[t \ {Chosen(t)}]
  BY <1>2, <1>6 DEF T
<1> QED
  BY <1>3, <1>4, <1>5, <1>7

\* Over a finite set there is such a sum.
LEMMA AdderAdds ==
  ASSUME NEW f, NEW S, IsFiniteSet(S)
  PROVE  Adds(Adder(f, S), f, S)
<1> DEFINE T == {s \in SUBSET S : ~Adds(Adder(f, s), f, s)}
<1>0. T \in SUBSET SUBSET S
  OBVIOUS
<1>1. SUFFICES ASSUME T # {} PROVE FALSE
  OBVIOUS
<1> HIDE DEF T
<1>2. PICK s \in T : IsFiniteSet(s) /\ \A u \in T : u \subseteq s => u = s
  BY <1>0, <1>1, LeastSubset
<1> DEFINE g == [t \in SUBSET s |->
                   IF t = {} THEN 0 ELSE f[Chosen(t)] + Adder(f, t \ {Chosen(t)})[t \ {Chosen(t)}]]
<1>3. ASSUME NEW u \in SUBSET s, u # s PROVE g[u] = Adder(f, u)[u]
  <2>1. u \in SUBSET S /\ u \notin T /\ IsFiniteSet(u)
    BY <1>2, <1>0, <1>3, FS_Subset
  <2>4. Adds(Adder(f, u), f, u)
    BY <2>1 DEF T
  <2>2. CASE u = {}
    BY <2>2, <2>4 DEF Adds
  <2>3. CASE u # {}
    <3> DEFINE v == u \ {Chosen(u)}
    <3>1. v \in SUBSET u /\ v \in SUBSET s /\ u \in SUBSET u
      OBVIOUS
    <3>5. v # s
      BY <1>3, <3>1
    <3>6. v \in SUBSET S /\ v \notin T /\ IsFiniteSet(v)
      BY <1>0, <1>2, <3>1, <3>5, FS_Subset
    <3>2. Adds(Adder(f, v), f, v)
      BY <3>6 DEF T
    <3>3. Adder(f, u)[v] = Adder(f, v)[v]
      <4> HIDE DEF v
      <4>1. v \in SUBSET (u \cap v)
        BY <3>1
      <4> QED
        BY <2>4, <3>2, <3>6, <4>1, AddersAgree
    <3>4. Adder(f, u)[u] = f[Chosen(u)] + Adder(f, u)[v]
      BY <2>3, <2>4, <3>1 DEF Adds
    <3> QED
      BY <2>3, <3>3, <3>4
  <2> QED
    BY <2>2, <2>3
<1>4. Adds(g, f, s)
  <2>1. ASSUME NEW t \in SUBSET s, t # {}
        PROVE  g[t] = f[Chosen(t)] + g[t \ {Chosen(t)}]
    <3>1. t \ {Chosen(t)} \in SUBSET s /\ t \ {Chosen(t)} # s
      BY <2>1 DEF Chosen
    <3> QED
      BY <1>3, <2>1, <3>1
  <2>2. g[{}] = 0
    OBVIOUS
  <2>3. g = [t \in SUBSET s |-> g[t]]
    OBVIOUS
  <2> HIDE DEF g
  <2>4. \A t \in SUBSET s : g[t] = IF t = {} THEN 0 ELSE f[Chosen(t)] + g[t \ {Chosen(t)}]
    BY <2>1, <2>2
  <2>5. g = [t \in SUBSET s |-> IF t = {} THEN 0 ELSE f[Chosen(t)] + g[t \ {Chosen(t)}]]
    BY <2>3, <2>4
  <2> QED
    BY <2>5, Zenon DEF Adds
<1> HIDE DEF g
<1>5. Adds(Adder(f, s), f, s)
  BY <1>4, Zenon DEF Adder
<1> QED
  BY <1>2, <1>5 DEF T

\* A sum over nothing; a sum over something, of the element that is chosen first and the rest.
LEMMA SumEmpty ==
  ASSUME NEW f
  PROVE  SumFunctionOnSet(f, {}) = 0
<1>1. Adds(Adder(f, {}), f, {})
  BY AdderAdds, FS_EmptySet
<1>2. Adder(f, {})[{}] = 0
  BY <1>1 DEF Adds
<1> QED
  BY <1>2, SumIsAdder

LEMMA SumChosen ==
  ASSUME NEW f, NEW S, IsFiniteSet(S), S # {}
  PROVE  Chosen(S) \in S /\ SumFunctionOnSet(f, S) = f[Chosen(S)] + SumFunctionOnSet(f, S \ {Chosen(S)})
<1> DEFINE R == S \ {Chosen(S)}
<1>1. Chosen(S) \in S
  BY DEF Chosen
<1>2. IsFiniteSet(R) /\ R \in SUBSET S
  BY FS_Subset
<1>3. Adds(Adder(f, S), f, S) /\ Adds(Adder(f, R), f, R)
  BY <1>2, AdderAdds
<1>4. Adder(f, S)[S] = f[Chosen(S)] + Adder(f, S)[R]
  BY <1>3 DEF Adds
<1>5. Adder(f, S)[R] = Adder(f, R)[R]
  <2> HIDE DEF R
  <2>1. R \in SUBSET (S \cap R)
    BY <1>2
  <2> QED
    BY <1>2, <1>3, <2>1, AddersAgree
<1> QED
  BY <1>1, <1>4, <1>5, SumIsAdder

\* Sums of the same terms are the same.
LEMMA SumSame ==
  ASSUME NEW f, NEW e, NEW S, IsFiniteSet(S), \A x \in S : f[x] = e[x]
  PROVE  SumFunctionOnSet(f, S) = SumFunctionOnSet(e, S)
<1>1. Adds(Adder(f, S), f, S) /\ Adds(Adder(e, S), e, S) /\ S \in SUBSET (S \cap S)
  BY AdderAdds
<1> QED
  BY <1>1, AddersAgree, SumIsAdder

LEMMA SumNat ==
  ASSUME NEW f, NEW S, IsFiniteSet(S), \A x \in S : f[x] \in Nat
  PROVE  SumFunctionOnSet(f, S) \in Nat
<1> DEFINE T == {s \in SUBSET S : SumFunctionOnSet(f, s) \notin Nat}
<1>0. T \in SUBSET SUBSET S
  OBVIOUS
<1>1. SUFFICES ASSUME T # {} PROVE FALSE
  OBVIOUS
<1> HIDE DEF T
<1>2. PICK s \in T : IsFiniteSet(s) /\ \A u \in T : u \subseteq s => u = s
  BY <1>0, <1>1, LeastSubset
<1>3. SumFunctionOnSet(f, s) \notin Nat /\ s \in SUBSET S /\ s # {}
  BY SumEmpty DEF T
<1>4. Chosen(s) \in s /\ SumFunctionOnSet(f, s) = f[Chosen(s)] + SumFunctionOnSet(f, s \ {Chosen(s)})
  BY <1>2, <1>3, SumChosen
<1>5. SumFunctionOnSet(f, s \ {Chosen(s)}) \in Nat
  BY <1>2, <1>3, <1>4 DEF T
<1> QED
  BY <1>3, <1>4, <1>5

\* Any element may come first.
LEMMA SumWithout ==
  ASSUME NEW f, NEW S, IsFiniteSet(S), \A x \in S : f[x] \in Nat, NEW x \in S
  PROVE  SumFunctionOnSet(f, S) = f[x] + SumFunctionOnSet(f, S \ {x})
<1> DEFINE T == {s \in SUBSET S : \E y \in s : SumFunctionOnSet(f, s) # f[y] + SumFunctionOnSet(f, s \ {y})}
<1>0. T \in SUBSET SUBSET S
  OBVIOUS
<1>1. SUFFICES ASSUME T # {} PROVE FALSE
  OBVIOUS
<1> HIDE DEF T
<1>2. PICK s \in T : IsFiniteSet(s) /\ \A u \in T : u \subseteq s => u = s
  BY <1>0, <1>1, LeastSubset
<1>3. PICK y \in s : SumFunctionOnSet(f, s) # f[y] + SumFunctionOnSet(f, s \ {y})
  BY DEF T
<1> DEFINE z == Chosen(s)
<1>4. s \in SUBSET S /\ IsFiniteSet(s) /\ s # {}
  BY <1>0, <1>2
<1>5. z \in s /\ SumFunctionOnSet(f, s) = f[z] + SumFunctionOnSet(f, s \ {z})
  BY <1>4, SumChosen
<1> HIDE DEF z
<1>6. z # y
  BY <1>3, <1>5
<1>7. SumFunctionOnSet(f, s \ {z}) = f[y] + SumFunctionOnSet(f, (s \ {z}) \ {y})
  <2>1. s \ {z} \notin T /\ s \ {z} \in SUBSET S /\ y \in s \ {z}
    BY <1>2, <1>4, <1>5, <1>6
  <2> QED
    BY <2>1 DEF T
<1>8. SumFunctionOnSet(f, s \ {y}) = f[z] + SumFunctionOnSet(f, (s \ {y}) \ {z})
  <2>1. s \ {y} \notin T /\ s \ {y} \in SUBSET S /\ z \in s \ {y}
    BY <1>2, <1>4, <1>5, <1>6
  <2> QED
    BY <2>1 DEF T
<1>9. (s \ {y}) \ {z} = (s \ {z}) \ {y}
  OBVIOUS
<1>10. f[y] \in Nat /\ f[z] \in Nat /\ SumFunctionOnSet(f, (s \ {z}) \ {y}) \in Nat
  <2>1. (s \ {z}) \ {y} \in SUBSET S
    BY <1>4
  <2>2. IsFiniteSet((s \ {z}) \ {y})
    BY <2>1, FS_Subset
  <2> QED
    BY <1>4, <1>5, <2>1, <2>2, SumNat
<1>11. SumFunctionOnSet(f, s) = f[z] + (f[y] + SumFunctionOnSet(f, (s \ {z}) \ {y}))
  BY <1>5, <1>7
<1>12. f[y] + SumFunctionOnSet(f, s \ {y}) = f[y] + (f[z] + SumFunctionOnSet(f, (s \ {z}) \ {y}))
  BY <1>8, <1>9
<1> HIDE DEF Chosen
<1>13. ASSUME NEW a \in Nat, NEW b \in Nat, NEW k \in Nat PROVE a + (b + k) = b + (a + k)
  OBVIOUS
<1> QED
  BY <1>3, <1>10, <1>11, <1>12, <1>13

\* A term more.
LEMMA SumWith ==
  ASSUME NEW f, NEW S, IsFiniteSet(S), NEW x, x \notin S, \A y \in S \cup {x} : f[y] \in Nat
  PROVE  SumFunctionOnSet(f, S \cup {x}) = f[x] + SumFunctionOnSet(f, S)
<1>1. IsFiniteSet(S \cup {x}) /\ (S \cup {x}) \ {x} = S
  BY FS_AddElement
<1> QED
  BY <1>1, SumWithout
=============================================================================
