---------------------------- MODULE CoverageProofs ----------------------------
(***************************************************************************)
(* Proofs about Coverage for any pipeline, registry, signals and rule      *)
(* sets that the schema accepts.                                           *)
(*                                                                         *)
(* The algorithms are recursive functions on the nodes of a condition and  *)
(* on the rules of a set.  FiniteRecursion shows that each of them exists, *)
(* and what they compute is then proved by looking at a counterexample     *)
(* none of whose dependencies is one.                                      *)
(***************************************************************************)
EXTENDS Coverage, FiniteSetTheorems, SequenceTheorems, TLAPS

-----------------------------------------------------------------------------
(*                  Recursion on finite sets, maxima                       *)

(* Dependencies within D without a cycle: every set of elements has one    *)
(* that depends on none of the set.                                        *)
Acyclic(D, deps) ==
  \A S \in SUBSET D : S # {} => \E x \in S : deps[x] \cap S = {}

(* A step that makes a value of an element from those of its dependencies. *)
IsStep(D, deps, V, step) ==
  \A x \in D : \A f \in [D -> V] :
    /\ step[<<x, f>>] \in V
    /\ \A g \in [D -> V] :
         (\A y \in deps[x] : f[y] = g[y]) => step[<<x, f>>] = step[<<x, g>>]

(* Such a step has a function that it maps to itself. *)
LEMMA FiniteRecursion ==
  ASSUME NEW D, IsFiniteSet(D), NEW deps \in [D -> SUBSET D], Acyclic(D, deps),
         NEW V, NEW v \in V, NEW step, IsStep(D, deps, V, step)
  PROVE  \E f \in [D -> V] : \A x \in D : f[x] = step[<<x, f>>]
<1> DEFINE Solves(S, f) == \A x \in S : deps[x] \subseteq S /\ f[x] = step[<<x, f>>]
           rest == {C \in SUBSET D : \E f \in [D -> V] : Solves(D \ C, f)}
<1>1. D \in rest
  <2>1. [x \in D |-> v] \in [D -> V] /\ D \ D = {}
    OBVIOUS
  <2> QED
    BY <2>1
<1>2. FiniteSubsetsOf(D) = SUBSET D
  BY FS_FiniteSubsetsOfFinite
<1>3. PICK C \in rest : \A B \in rest : ~ (<<B, C>> \in StrictSubsetOrdering(D))
  <2> HIDE DEF rest
  <2>1. IsWellFoundedOn(StrictSubsetOrdering(D), SUBSET D)
    BY <1>2, FS_StrictSubsetOrderingWellFounded
  <2>2. rest \subseteq SUBSET D /\ rest # {}
    BY <1>1 DEF rest
  <2> QED
    BY <2>1, <2>2, WFMin
<1>4. PICK f \in [D -> V] : Solves(D \ C, f)
  OBVIOUS
<1>5. C = {}
  <2> SUFFICES ASSUME C # {} PROVE FALSE
    OBVIOUS
  <2>1. PICK x \in C : deps[x] \cap C = {}
    BY DEF Acyclic
  <2> DEFINE g == [f EXCEPT ![x] = step[<<x, f>>]]
             B == C \ {x}
  <2>2. x \in D /\ deps[x] \subseteq D \ C /\ C \in SUBSET D
    BY <2>1
  <2>3. step[<<x, f>>] \in V
    BY <2>2 DEF IsStep
  <2>4. g \in [D -> V] /\ g[x] = step[<<x, f>>] /\ \A y \in D \ {x} : g[y] = f[y]
    BY <2>2, <2>3
  <2> HIDE DEF g
  <2>5. ASSUME NEW y \in D \ B PROVE deps[y] \subseteq D \ B /\ g[y] = step[<<y, g>>]
    <3>1. deps[y] \subseteq D \ C
      BY <1>4, <2>2, <2>5
    <3>2. \A z \in deps[y] : f[z] = g[z]
      BY <2>1, <2>4, <3>1
    <3>3. step[<<y, f>>] = step[<<y, g>>]
      <4>1. y \in D /\ f \in [D -> V]
        OBVIOUS
      <4>2. \A h \in [D -> V] :
              (\A z \in deps[y] : f[z] = h[z]) => step[<<y, f>>] = step[<<y, h>>]
        BY <4>1 DEF IsStep
      <4> QED
        BY <2>4, <3>2, <4>2
    <3>4. g[y] = step[<<y, f>>]
      BY <1>4, <2>4, <2>5
    <3> QED
      BY <3>1, <3>3, <3>4
  <2>6. B \in rest
    BY <2>2, <2>4, <2>5
  <2>7. <<B, C>> \in StrictSubsetOrdering(D)
    BY <2>1, <2>2 DEF StrictSubsetOrdering
  <2> QED
    BY <1>3, <2>6, <2>7
<1> QED
  BY <1>4, <1>5

(* The least of a set of naturals. *)
LEMMA LeastNat ==
  ASSUME NEW S \in SUBSET Nat, S # {}
  PROVE  \E x \in S : \A y \in S : x <= y
<1> DEFINE less == {ss \in Nat \X Nat : ss[1] < ss[2]}
<1>1. IsWellFoundedOn(less, Nat)
  BY NatLessThanWellFounded DEF OpToRel
<1>2. PICK x \in S : \A y \in S : ~ (<<y, x>> \in less)
  <2> HIDE DEF less
  <2> QED
    BY <1>1, WFMin
<1>3. ASSUME NEW y \in S PROVE x <= y
  <2>1. <<y, x>> \in Nat \X Nat /\ ~ (y < x) /\ x \in Int /\ y \in Int
    BY <1>2
  <2> QED
    BY <2>1
<1> QED
  BY <1>3

(* The maximum of a bounded set. *)
LEMMA MaxFacts ==
  ASSUME NEW S \in SUBSET Nat, S # {}, NEW n \in Nat, \A x \in S : x <= n
  PROVE  Max(S) \in S /\ \A x \in S : x <= Max(S)
<1> DEFINE bounds == {m \in Nat : \A x \in S : x <= m}
<1>1. PICK m \in bounds : \A k \in bounds : m <= k
  <2>1. bounds \in SUBSET Nat /\ n \in bounds
    OBVIOUS
  <2> HIDE DEF bounds
  <2> QED
    BY <2>1, LeastNat
<1>2. m \in S
  <2> SUFFICES ASSUME m \notin S PROVE FALSE
    OBVIOUS
  <2>1. \A x \in S : x < m
    <3> TAKE x \in S
    <3>1. x <= m /\ x # m /\ x \in Nat /\ m \in Nat
      OBVIOUS
    <3> QED
      BY <3>1
  <2>2. PICK x \in S : x < m
    BY <2>1
  <2>3. m - 1 \in bounds
    BY <2>1, <2>2
  <2> QED
    BY <1>1, <2>3
<1>3. \E x \in S : \A y \in S : x >= y
  BY <1>2
<1>4. Max(S) \in S /\ \A y \in S : Max(S) >= y
  BY <1>3 DEF Max
<1> QED
  BY <1>4
-----------------------------------------------------------------------------
(*                        Images of a finite set                           *)

(* The image of a finite set is finite. *)
LEMMA FiniteImage ==
  ASSUME NEW S, IsFiniteSet(S), NEW f
  PROVE  IsFiniteSet({f[x] : x \in S}) /\ Cardinality({f[x] : x \in S}) \in Nat
<1> DEFINE T == {f[x] : x \in S}
           h == [x \in S |-> f[x]]
<1>1. h \in Surjection(S, T)
  BY DEF Surjection
<1> HIDE DEF h, T
<1>2. IsFiniteSet(T)
  BY <1>1, FS_Surjection
<1>3. Cardinality(T) \in Nat
  BY <1>2, FS_CardinalityType
<1> QED
  BY <1>2, <1>3 DEF T

(* Of a set of sets of a finite set, one contains no other of them. *)
LEMMA SmallestSubset ==
  ASSUME NEW S, IsFiniteSet(S), NEW T \in SUBSET SUBSET S, T # {}
  PROVE  \E s \in T : \A x \in s : s \ {x} \notin T
<1>1. FiniteSubsetsOf(S) = SUBSET S
  BY FS_FiniteSubsetsOfFinite
<1>2. IsWellFoundedOn(StrictSubsetOrdering(S), SUBSET S)
  BY <1>1, FS_StrictSubsetOrderingWellFounded
<1>3. PICK s \in T : \A t \in T : ~ (<<t, s>> \in StrictSubsetOrdering(S))
  BY <1>2, WFMin
<1>4. ASSUME NEW x \in s, s \ {x} \in T PROVE FALSE
  <2>1. <<s \ {x}, s>> \in StrictSubsetOrdering(S)
    BY DEF StrictSubsetOrdering
  <2> QED
    BY <1>3, <1>4, <2>1
<1> QED
  BY <1>4

-----------------------------------------------------------------------------
(*                               Sums                                      *)

(* A sum is the size of a set: one unit for each of what f counts in S. *)
units(f, S) == {p \in S \X Nat : 1 <= p[2] /\ p[2] <= f[p[1]]}

(* The units of one more term are those of the others and its own. *)
LEMMA UnitsOfOneMore ==
  ASSUME NEW S, NEW f \in [S -> Nat], NEW s \in SUBSET S, NEW x \in s,
         IsFiniteSet(units(f, s \ {x}))
  PROVE  /\ IsFiniteSet(units(f, s))
         /\ Cardinality(units(f, s)) = f[x] + Cardinality(units(f, s \ {x}))
<1> DEFINE new == {x} \X (1..f[x])
           old == units(f, s \ {x})
<1>1. f[x] \in Nat
  OBVIOUS
<1>2. IsFiniteSet(1..f[x]) /\ Cardinality(1..f[x]) = f[x]
  BY <1>1, FS_Interval
<1>3. IsFiniteSet({x}) /\ Cardinality({x}) = 1
  BY FS_Singleton
<1>4. IsFiniteSet(new) /\ Cardinality(new) = f[x]
  <2>1. IsFiniteSet(new) /\ Cardinality(new) = 1 * f[x]
    BY <1>2, <1>3, FS_Product
  <2> QED
    BY <1>1, <2>1
<1>5. units(f, s) = new \cup old /\ new \cap old = {}
  BY <1>1 DEF units
<1>6. Cardinality(old) \in Nat
  BY FS_CardinalityType
<1> HIDE DEF new, old
<1>7. /\ IsFiniteSet(new \cup old)
      /\ Cardinality(new \cup old) = Cardinality(new) + Cardinality(old) - Cardinality(new \cap old)
  BY <1>4, FS_Union DEF old
<1>8. Cardinality(new \cap old) = 0
  BY <1>5, FS_EmptySet
<1>9. Cardinality(new \cup old) = f[x] + Cardinality(old)
  BY <1>1, <1>4, <1>6, <1>7, <1>8
<1> QED
  BY <1>5, <1>7, <1>9 DEF old

(* A finite sum has finitely many units. *)
LEMMA UnitsFinite ==
  ASSUME NEW S, IsFiniteSet(S), NEW f \in [S -> Nat], NEW s \in SUBSET S
  PROVE  IsFiniteSet(units(f, s)) /\ Cardinality(units(f, s)) \in Nat
<1> DEFINE bad == {t \in SUBSET S : ~ IsFiniteSet(units(f, t))}
<1>1. bad = {}
  <2> SUFFICES ASSUME bad # {} PROVE FALSE
    OBVIOUS
  <2>1. PICK t \in bad : \A x \in t : t \ {x} \notin bad
    <3>1. bad \in SUBSET SUBSET S
      OBVIOUS
    <3> HIDE DEF bad
    <3> QED
      BY <3>1, SmallestSubset
  <2>2. CASE t = {}
    <3>1. units(f, t) = {}
      BY <2>2 DEF units
    <3> QED
      BY <3>1, FS_EmptySet
  <2>3. CASE t # {}
    <3>1. PICK x \in t : TRUE
      BY <2>3
    <3>2. IsFiniteSet(units(f, t \ {x}))
      BY <2>1, <3>1
    <3> QED
      BY <3>1, <3>2, UnitsOfOneMore
  <2> QED
    BY <2>2, <2>3
<1>2. IsFiniteSet(units(f, s))
  BY <1>1
<1> QED
  BY <1>2, FS_CardinalityType

(* A sum counts its units. *)
LEMMA SumIsSize ==
  ASSUME NEW S, IsFiniteSet(S), NEW f \in [S -> Nat]
  PROVE  SumFunction(f) = Cardinality(units(f, S))
<1> DEFINE pick(s) == CHOOSE x \in s : TRUE
           body(g) == [s \in SUBSET S |-> IF s = {} THEN 0 ELSE f[pick(s)] + g[s \ {pick(s)}]]
           size == [s \in SUBSET S |-> Cardinality(units(f, s))]
           sum == CHOOSE g : g = body(g)
<1>1. ASSUME NEW s \in SUBSET S, s # {}
      PROVE  pick(s) \in s /\ size[s] = f[pick(s)] + size[s \ {pick(s)}]
  <2>1. pick(s) \in s
    BY <1>1
  <2>2. IsFiniteSet(units(f, s \ {pick(s)}))
    BY UnitsFinite
  <2> HIDE DEF pick
  <2> QED
    BY <2>1, <2>2, UnitsOfOneMore
<1>2. size[{}] = 0
  <2>1. units(f, {}) = {}
    BY DEF units
  <2> QED
    BY <2>1, FS_EmptySet
<1>3. size = body(size)
  <2> HIDE DEF pick
  <2>1. \A s \in SUBSET S :
          size[s] = IF s = {} THEN 0 ELSE f[pick(s)] + size[s \ {pick(s)}]
    BY <1>1, <1>2
  <2> QED
    BY <2>1
<1>4. sum = body(sum)
  BY <1>3
<1>5. SumFunction(f) = sum[S]
  <2>1. DOMAIN f = S
    OBVIOUS
  <2>2. SumFunction(f) =
          (CHOOSE g : g = [s \in SUBSET (DOMAIN f) |->
              IF s = {} THEN 0
              ELSE f[CHOOSE x \in s : TRUE] + g[s \ {CHOOSE x \in s : TRUE}]])[DOMAIN f]
    BY DEF SumFunction, SumFunctionOnSet, FoldFunctionOnSet, MapThenFoldSet
  <2> QED
    BY <2>1, <2>2
<1>6. \A s \in SUBSET S :
        sum[s] = IF s = {} THEN 0 ELSE f[pick(s)] + sum[s \ {pick(s)}]
  <2> HIDE DEF sum
  <2> QED
    BY <1>4
<1> DEFINE bad == {s \in SUBSET S : sum[s] # size[s]}
<1> HIDE DEF sum, size, pick
<1>7. bad = {}
  <2> SUFFICES ASSUME bad # {} PROVE FALSE
    OBVIOUS
  <2>1. PICK t \in bad : \A x \in t : t \ {x} \notin bad
    <3>1. bad \in SUBSET SUBSET S
      OBVIOUS
    <3> HIDE DEF bad
    <3> QED
      BY <3>1, SmallestSubset
  <2>2. t # {}
    BY <1>2, <1>6
  <2>3. sum[t \ {pick(t)}] = size[t \ {pick(t)}]
    BY <1>1, <2>1, <2>2
  <2> QED
    BY <1>1, <1>6, <2>2, <2>3
<1>8. sum[S] = size[S]
  BY <1>7
<1> QED
  BY <1>5, <1>8 DEF size

(* A sum is a natural number, and no greater than another that has, for    *)
(* each of its terms, a term of its own at least as great.                 *)
LEMMA SumMonotone ==
  ASSUME NEW A, IsFiniteSet(A), NEW f \in [A -> Nat],
         NEW B, IsFiniteSet(B), NEW g \in [B -> Nat],
         NEW h \in [A -> B], \A x, y \in A : h[x] = h[y] => x = y,
         \A x \in A : f[x] <= g[h[x]]
  PROVE  /\ SumFunction(f) \in Nat /\ SumFunction(g) \in Nat
         /\ SumFunction(f) <= SumFunction(g)
<1> DEFINE P == units(f, A)
           Q == units(g, B)
           move == [p \in P |-> <<h[p[1]], p[2]>>]
<1>1. IsFiniteSet(Q) /\ Cardinality(Q) \in Nat /\ IsFiniteSet(P) /\ Cardinality(P) \in Nat
  BY UnitsFinite
<1>2. ASSUME NEW p \in P PROVE move[p] \in Q
  <2>1. p[1] \in A /\ p[2] \in Nat /\ 1 <= p[2] /\ p[2] <= f[p[1]]
    BY DEF units
  <2>2. h[p[1]] \in B /\ f[p[1]] \in Nat /\ g[h[p[1]]] \in Nat /\ f[p[1]] <= g[h[p[1]]]
    BY <2>1
  <2>3. p[2] <= g[h[p[1]]]
    BY <2>1, <2>2
  <2> QED
    BY <2>1, <2>2, <2>3 DEF units
<1>3. ASSUME NEW p \in P, NEW q \in P, move[p] = move[q] PROVE p = q
  <2>1. /\ p[1] \in A /\ q[1] \in A
        /\ p = <<p[1], p[2]>> /\ q = <<q[1], q[2]>>
    BY DEF units
  <2>2. h[p[1]] = h[q[1]] /\ p[2] = q[2]
    BY <1>3
  <2> QED
    BY <2>1, <2>2
<1>4. move \in Injection(P, Q)
  <2>1. move = [p \in P |-> move[p]]
    OBVIOUS
  <2> HIDE DEF P, Q, move
  <2>2. move \in [P -> Q]
    BY <1>2, <2>1
  <2> QED
    BY <1>3, <2>2 DEF Injection, IsInjective
<1>5. Cardinality(P) <= Cardinality(Q)
  <2> HIDE DEF P, Q, move
  <2> QED
    BY <1>1, <1>4, FS_Injection
<1> QED
  BY <1>1, <1>5, SumIsSize

(* More of the same terms add up to no less. *)
LEMMA SumOfMore ==
  ASSUME NEW B, IsFiniteSet(B), NEW A \in SUBSET B,
         NEW f \in [A -> Nat], NEW g \in [B -> Nat], \A x \in A : f[x] = g[x]
  PROVE  /\ SumFunction(f) \in Nat /\ SumFunction(g) \in Nat
         /\ SumFunction(f) <= SumFunction(g)
<1> DEFINE h == [x \in A |-> x]
<1>1. h \in [A -> B] /\ \A x \in A : h[x] = x
  OBVIOUS
<1>2. \A x \in A : f[x] = g[x] /\ g[x] \in Nat
  OBVIOUS
<1>3. IsFiniteSet(A)
  BY FS_Subset
<1> HIDE DEF h
<1>4. \A x \in A : f[x] <= g[h[x]]
  BY <1>1, <1>2
<1> QED
  BY <1>1, <1>3, <1>4, SumMonotone

-----------------------------------------------------------------------------
(*                        Scores of groups                                 *)

Weighted(E) == \A e \in E : e.weight \in 1..100

(* The heaviest of a group is one of its members. *)
LEMMA HeaviestFacts ==
  ASSUME NEW E, Weighted(E), E # {}
  PROVE  /\ heaviest(E) \in 1..100
         /\ \E e \in E : e.weight = heaviest(E)
         /\ \A e \in E : e.weight <= heaviest(E)
<1> DEFINE S == {e.weight : e \in E}
<1>1. S \in SUBSET Nat /\ S # {} /\ (\A x \in S : x <= 100) /\ S \subseteq 1..100
  BY DEF Weighted
<1>2. Max(S) \in S /\ \A x \in S : x <= Max(S)
  <2> HIDE DEF S
  <2> QED
    BY <1>1, MaxFacts
<1>3. heaviest(E) = Max(S)
  BY DEF heaviest
<1> HIDE DEF heaviest
<1> QED
  BY <1>1, <1>2, <1>3

(* The score of E when k names the group of each element. *)
groupScore(E, k) ==
  SumFunction([g \in {k[e] : e \in E} |-> heaviest({e \in E : k[e] = g})])

groupCount(E, k) == Cardinality({k[e] : e \in E})

(* More evidence in finer groups scores no less and has no fewer groups. *)
LEMMA GroupScoreMonotone ==
  ASSUME NEW F, IsFiniteSet(F), Weighted(F), NEW E \in SUBSET F, NEW k, NEW l,
         \A x, y \in E : l[x] = l[y] => k[x] = k[y]
  PROVE  /\ groupScore(E, k) \in Nat /\ groupScore(F, l) \in Nat
         /\ groupScore(E, k) <= groupScore(F, l)
         /\ groupCount(E, k) \in Nat /\ groupCount(F, l) \in Nat
         /\ groupCount(E, k) <= groupCount(F, l)
<1> DEFINE A == {k[e] : e \in E}
           B == {l[e] : e \in F}
           inE(g) == {e \in E : k[e] = g}
           inF(g) == {e \in F : l[e] = g}
           f == [g \in A |-> heaviest(inE(g))]
           h == [g \in B |-> heaviest(inF(g))]
           top(g) == CHOOSE e \in inE(g) : e.weight = heaviest(inE(g))
           to == [g \in A |-> l[top(g)]]
<1>1. IsFiniteSet(A) /\ IsFiniteSet(B) /\ Cardinality(A) \in Nat /\ Cardinality(B) \in Nat
  <2>1. IsFiniteSet(E)
    BY FS_Subset
  <2> QED
    BY <2>1, FiniteImage
<1>2. ASSUME NEW g \in A
      PROVE  /\ heaviest(inE(g)) \in 1..100
             /\ top(g) \in E /\ k[top(g)] = g /\ top(g).weight = heaviest(inE(g))
  <2>1. inE(g) # {} /\ Weighted(inE(g))
    BY DEF Weighted
  <2> HIDE DEF inE
  <2>2. heaviest(inE(g)) \in 1..100 /\ \E e \in inE(g) : e.weight = heaviest(inE(g))
    BY <2>1, HeaviestFacts
  <2>3. top(g) \in inE(g) /\ top(g).weight = heaviest(inE(g))
    BY <2>2
  <2> HIDE DEF top
  <2> QED
    BY <2>2, <2>3 DEF inE
<1>3. ASSUME NEW g \in B
      PROVE  heaviest(inF(g)) \in 1..100 /\ \A e \in inF(g) : e.weight <= heaviest(inF(g))
  <2>1. inF(g) # {} /\ Weighted(inF(g))
    BY DEF Weighted
  <2> HIDE DEF inF
  <2> QED
    BY <2>1, HeaviestFacts
<1>4. f \in [A -> Nat] /\ h \in [B -> Nat]
  <2> HIDE DEF inE, inF, A, B
  <2>1. \A g \in A : heaviest(inE(g)) \in Nat
    BY <1>2
  <2>2. \A g \in B : heaviest(inF(g)) \in Nat
    BY <1>3
  <2> QED
    BY <2>1, <2>2
<1>5. ASSUME NEW g \in A PROVE to[g] \in B /\ f[g] <= h[to[g]]
  <2>1. top(g) \in E /\ top(g).weight = f[g]
    BY <1>2, <1>5
  <2>2. to[g] = l[top(g)]
    BY <1>5
  <2>3. to[g] \in B /\ top(g) \in inF(to[g])
    <3> HIDE DEF top, to
    <3> QED
      BY <2>1, <2>2
  <2>4. top(g).weight <= heaviest(inF(to[g])) /\ h[to[g]] = heaviest(inF(to[g]))
    <3> HIDE DEF top, to, inF, B
    <3>1. h[to[g]] = heaviest(inF(to[g]))
      BY <2>3
    <3> HIDE DEF h
    <3> QED
      BY <1>3, <2>3, <3>1
  <2> HIDE DEF top, to, inF, f, h, B, A
  <2> QED
    BY <2>1, <2>3, <2>4
<1>6. ASSUME NEW g1 \in A, NEW g2 \in A, to[g1] = to[g2] PROVE g1 = g2
  <2>1. l[top(g1)] = l[top(g2)]
    BY <1>6
  <2>2. top(g1) \in E /\ top(g2) \in E /\ k[top(g1)] = g1 /\ k[top(g2)] = g2
    BY <1>2, <1>6
  <2> HIDE DEF top
  <2> QED
    BY <2>1, <2>2
<1>7. to \in [A -> B]
  <2>1. to = [g \in A |-> to[g]]
    OBVIOUS
  <2> HIDE DEF to, A, B
  <2> QED
    BY <1>5, <2>1
<1>8. SumFunction(f) \in Nat /\ SumFunction(h) \in Nat /\ SumFunction(f) <= SumFunction(h)
  <2> HIDE DEF f, h, to, A, B
  <2> QED
    BY <1>1, <1>4, <1>5, <1>6, <1>7, SumMonotone
<1>9. Cardinality(A) <= Cardinality(B)
  <2> HIDE DEF to, A, B
  <2>1. to \in Injection(A, B)
    BY <1>6, <1>7 DEF Injection, IsInjective
  <2> QED
    BY <1>1, <2>1, FS_Injection
<1> QED
  BY <1>1, <1>8, <1>9 DEF groupScore, groupCount

(* The two scores of the code: groups for matching, keys for coverage. *)
LEMMA ScoresAreGroupScores ==
  ASSUME NEW F, NEW E \in SUBSET F,
         NEW k, k = [e \in F |-> evidenceGroup(e)], NEW l, l = [e \in F |-> groupKey(e)]
  PROVE  /\ scorePositive(E) = groupScore(E, k)
         /\ countEvidenceGroups(E) = groupCount(E, k)
         /\ upperBoundScore(E) = groupScore(E, l)
         /\ upperBoundGroups(E) = groupCount(E, l)
<1>1. \A e \in E : k[e] = evidenceGroup(e) /\ l[e] = groupKey(e)
  OBVIOUS
<1>2. /\ {k[e] : e \in E} = {evidenceGroup(e) : e \in E}
      /\ {l[e] : e \in E} = {groupKey(e) : e \in E}
  BY <1>1
<1>3. \A g : /\ {e \in E : k[e] = g} = {e \in E : evidenceGroup(e) = g}
             /\ {e \in E : l[e] = g} = {e \in E : groupKey(e) = g}
  BY <1>1
<1>4. scorePositive(E) = groupScore(E, k)
  <2>1. [g \in {evidenceGroup(e) : e \in E} |-> heaviest({e \in E : evidenceGroup(e) = g})]
          = [g \in {k[e] : e \in E} |-> heaviest({e \in E : k[e] = g})]
    BY <1>2, <1>3
  <2> QED
    BY <2>1 DEF scorePositive, groupScore
<1>5. upperBoundScore(E) = groupScore(E, l)
  <2>1. [g \in {groupKey(e) : e \in E} |-> heaviest({e \in E : groupKey(e) = g})]
          = [g \in {l[e] : e \in E} |-> heaviest({e \in E : l[e] = g})]
    BY <1>2, <1>3
  <2> QED
    BY <2>1 DEF upperBoundScore, groupScore
<1> QED
  BY <1>2, <1>4, <1>5 DEF countEvidenceGroups, upperBoundGroups, groupCount

(* More evidence scores no less, in no fewer groups. *)
LEMMA PositiveMonotone ==
  ASSUME NEW F, IsFiniteSet(F), Weighted(F), NEW E \in SUBSET F
  PROVE  /\ scorePositive(E) \in Nat /\ scorePositive(F) \in Nat
         /\ scorePositive(E) <= scorePositive(F)
         /\ countEvidenceGroups(E) \in Nat /\ countEvidenceGroups(F) \in Nat
         /\ countEvidenceGroups(E) <= countEvidenceGroups(F)
<1> DEFINE k == [e \in F |-> evidenceGroup(e)]
           l == [e \in F |-> groupKey(e)]
<1>1. /\ scorePositive(E) = groupScore(E, k) /\ scorePositive(F) = groupScore(F, k)
      /\ countEvidenceGroups(E) = groupCount(E, k)
      /\ countEvidenceGroups(F) = groupCount(F, k)
  BY ScoresAreGroupScores
<1> HIDE DEF k, l
<1> QED
  BY <1>1, GroupScoreMonotone

(* The bound of coverage is a bound: evidence among the possible scores no *)
(* more than it, in no more groups.                                        *)
LEMMA BoundIsAbove ==
  ASSUME NEW F, IsFiniteSet(F), Weighted(F), NEW E \in SUBSET F
  PROVE  /\ upperBoundScore(F) \in Nat /\ scorePositive(E) \in Nat
         /\ scorePositive(E) <= upperBoundScore(F)
         /\ countEvidenceGroups(E) \in Nat /\ upperBoundGroups(F) \in Nat
         /\ countEvidenceGroups(E) <= upperBoundGroups(F)
<1> DEFINE k == [e \in F |-> evidenceGroup(e)]
           l == [e \in F |-> groupKey(e)]
<1>1. /\ scorePositive(E) = groupScore(E, k) /\ upperBoundScore(F) = groupScore(F, l)
      /\ countEvidenceGroups(E) = groupCount(E, k)
      /\ upperBoundGroups(F) = groupCount(F, l)
  BY ScoresAreGroupScores
<1>2. ASSUME NEW x \in E, NEW y \in E, l[x] = l[y] PROVE k[x] = k[y]
  <2>1. groupKey(x) = groupKey(y)
    BY <1>2
  <2>2. evidenceGroup(x) = evidenceGroup(y)
    BY <2>1 DEF groupKey, evidenceGroup
  <2> QED
    BY <2>2
<1> HIDE DEF k, l
<1> QED
  BY <1>1, <1>2, GroupScoreMonotone

(* Where no group has the id of evidence without one, the bound is reached *)
(* by whoever has all of the possible evidence.                            *)
LEMMA BoundIsReached ==
  ASSUME NEW F, IsFiniteSet(F), Weighted(F), NEW E \in SUBSET F,
         \A x, y \in E : x.group = NoGroup => y.group # x.id
  PROVE  /\ upperBoundScore(E) \in Nat /\ scorePositive(F) \in Nat
         /\ upperBoundScore(E) <= scorePositive(F)
         /\ countEvidenceGroups(F) \in Nat /\ upperBoundGroups(E) \in Nat
         /\ upperBoundGroups(E) <= countEvidenceGroups(F)
<1> DEFINE k == [e \in F |-> evidenceGroup(e)]
           l == [e \in F |-> groupKey(e)]
<1>1. /\ scorePositive(F) = groupScore(F, k) /\ upperBoundScore(E) = groupScore(E, l)
      /\ countEvidenceGroups(F) = groupCount(F, k)
      /\ upperBoundGroups(E) = groupCount(E, l)
  BY ScoresAreGroupScores
<1>2. ASSUME NEW x \in E, NEW y \in E, k[x] = k[y] PROVE l[x] = l[y]
  <2>1. evidenceGroup(x) = evidenceGroup(y)
    BY <1>2
  <2>2. groupKey(x) = groupKey(y)
    BY <2>1 DEF groupKey, evidenceGroup
  <2> QED
    BY <2>2
<1> HIDE DEF k, l
<1> QED
  BY <1>1, <1>2, GroupScoreMonotone

(* Penalties of weights, and of conflicts: more of them are no less. *)
LEMMA PenaltiesMonotone ==
  ASSUME NEW F, IsFiniteSet(F), Weighted(F), NEW E \in SUBSET F
  PROVE  /\ totalWeight(E) \in Nat /\ totalWeight(F) \in Nat
         /\ totalWeight(E) <= totalWeight(F)
<1> DEFINE f == [e \in E |-> e.weight]
           g == [e \in F |-> e.weight]
<1>1. f \in [E -> Nat] /\ g \in [F -> Nat] /\ \A e \in E : f[e] = g[e]
  BY DEF Weighted
<1> HIDE DEF f, g
<1>2. SumFunction(f) \in Nat /\ SumFunction(g) \in Nat /\ SumFunction(f) <= SumFunction(g)
  BY <1>1, SumOfMore
<1> QED
  BY <1>2 DEF totalWeight, f, g

(* More conflicts take away no less. *)
LEMMA ConflictsMonotone ==
  ASSUME NEW F, IsFiniteSet(F), \A c \in F : c.penalty \in 1..100, NEW E \in SUBSET F
  PROVE  /\ totalPenalty(E) \in Nat /\ totalPenalty(F) \in Nat
         /\ totalPenalty(E) <= totalPenalty(F)
<1> DEFINE f == [c \in E |-> c.penalty]
           g == [c \in F |-> c.penalty]
<1>1. f \in [E -> Nat] /\ g \in [F -> Nat] /\ \A c \in E : f[c] = g[c]
  OBVIOUS
<1> HIDE DEF f, g
<1>2. SumFunction(f) \in Nat /\ SumFunction(g) \in Nat /\ SumFunction(f) <= SumFunction(g)
  BY <1>1, SumOfMore
<1> QED
  BY <1>2 DEF totalPenalty, f, g

(* Clamping keeps the order. *)
LEMMA ClampMonotone ==
  ASSUME NEW n \in Int, NEW m \in Int, n <= m
  PROVE  clamp(n) <= clamp(m) /\ clamp(n) \in 0..100 /\ clamp(m) \in 0..100
BY DEF clamp

-----------------------------------------------------------------------------
(*                       The nodes of a condition                          *)

childrenOf(c) == [i \in DOMAIN c |-> c[i].children]

(* Children come after their parents: no node is below itself. *)
LEMMA NodesAcyclic ==
  ASSUME NEW c, IsCondition(c)
  PROVE  /\ 1 \in DOMAIN c /\ IsFiniteSet(DOMAIN c)
         /\ childrenOf(c) \in [DOMAIN c -> SUBSET DOMAIN c]
         /\ Acyclic(DOMAIN c, childrenOf(c))
<1> DEFINE n == Len(c)
<1>1. n \in Nat /\ n > 0 /\ DOMAIN c = 1..n
  BY LenProperties DEF IsCondition
<1>2. \A i \in 1..n : c[i].children \subseteq (i + 1)..n
  BY <1>1 DEF IsCondition
<1> HIDE DEF n
<1>3. IsFiniteSet(1..n)
  BY <1>1, FS_Interval
<1>4. \A i \in 1..n : (i + 1)..n \subseteq 1..n
  BY <1>1
<1>5. childrenOf(c) \in [1..n -> SUBSET (1..n)]
  BY <1>1, <1>2, <1>4 DEF childrenOf
<1>6. ASSUME NEW S \in SUBSET (1..n), S # {}
      PROVE  \E i \in S : childrenOf(c)[i] \cap S = {}
  <2>1. S \in SUBSET Nat /\ \A i \in S : i <= n
    BY <1>1
  <2>2. Max(S) \in S /\ \A i \in S : i <= Max(S)
    BY <1>1, <1>6, <2>1, MaxFacts
  <2>3. PICK m \in S : \A i \in S : i <= m
    BY <2>2
  <2>4. childrenOf(c)[m] \subseteq (m + 1)..n
    BY <1>1, <1>2 DEF childrenOf
  <2>5. ((m + 1)..n) \cap S = {}
    BY <1>1, <2>3
  <2> QED
    BY <2>4, <2>5
<1> QED
  BY <1>1, <1>3, <1>5, <1>6 DEF Acyclic

(* Some node of a set has no child in the set. *)
LEMMA MinimalNode ==
  ASSUME NEW c, IsCondition(c), NEW S \in SUBSET DOMAIN c, S # {}
  PROVE  \E i \in S : c[i].children \cap S = {}
<1>1. PICK i \in S : childrenOf(c)[i] \cap S = {}
  BY NodesAcyclic DEF Acyclic
<1> QED
  BY <1>1 DEF childrenOf

(* Predicates are finitely many, with weights between 1 and 100. *)
LEMMA PredicatesFinite ==
  ASSUME NEW c, validateCondition(c)
  PROVE  IsFiniteSet(predicates(c)) /\ Weighted(predicates(c))
<1> DEFINE f == [i \in leaves(c) |-> c[i].evidence]
<1>1. IsFiniteSet(DOMAIN c)
  BY NodesAcyclic DEF validateCondition
<1>2. IsFiniteSet(leaves(c))
  BY <1>1, FS_Subset DEF leaves
<1>3. {f[i] : i \in leaves(c)} = predicates(c)
  BY DEF predicates
<1>4. Weighted(predicates(c))
  BY DEF Weighted, predicates, validateCondition
<1> HIDE DEF f
<1>5. IsFiniteSet({f[i] : i \in leaves(c)})
  BY <1>2, FiniteImage
<1> QED
  BY <1>3, <1>4, <1>5

Outcomes(c) == [matched : BOOLEAN, evidence : SUBSET predicates(c)]

(* Each kind of node answers with a subset of the predicates. *)
LEMMA OutcomeType ==
  ASSUME NEW c, IsCondition(c), NEW sigs, NEW i \in DOMAIN c,
         NEW outcomes \in [c[i].children -> Outcomes(c)]
  PROVE  evaluateNode(c[i], sigs, outcomes) \in Outcomes(c)
<1>1. c[i].op \in {"signal", "all", "any"}
  BY DEF IsCondition
<1>2. \A I \in SUBSET DOMAIN outcomes : pool(outcomes, I) \subseteq predicates(c)
  BY DEF pool, Outcomes
<1>3. CASE c[i].op = "signal"
  <2> DEFINE e == c[i].evidence
             found == matchEvidenceList({e}, sigs)
  <2>1. found \subseteq predicates(c)
    <3>1. e \in predicates(c)
      BY <1>3 DEF predicates, leaves
    <3> HIDE DEF e
    <3> QED
      BY <3>1 DEF matchEvidenceList
  <2>2. evaluateNode(c[i], sigs, outcomes) = evaluateSignal(e, sigs)
    BY <1>3 DEF evaluateNode
  <2> HIDE DEF e
  <2>3. evaluateSignal(e, sigs) \in {[matched |-> FALSE, evidence |-> found],
                                     [matched |-> TRUE, evidence |-> found]}
    BY DEF evaluateSignal, strongestMatch
  <2> HIDE DEF found
  <2>4. [matched |-> FALSE, evidence |-> found] \in Outcomes(c)
    BY <2>1 DEF Outcomes
  <2>5. [matched |-> TRUE, evidence |-> found] \in Outcomes(c)
    BY <2>1 DEF Outcomes
  <2> QED
    BY <2>2, <2>3, <2>4, <2>5
<1>4. CASE c[i].op = "all"
  <2>1. evaluateNode(c[i], sigs, outcomes) = evaluateAll(outcomes)
    BY <1>4 DEF evaluateNode
  <2>2. (\A j \in DOMAIN outcomes : outcomes[j].matched) \in BOOLEAN
    OBVIOUS
  <2> QED
    BY <1>2, <2>1, <2>2 DEF evaluateAll, Outcomes
<1>5. CASE c[i].op = "any"
  <2>1. evaluateNode(c[i], sigs, outcomes) = evaluateAny(outcomes)
    BY <1>5 DEF evaluateNode
  <2> DEFINE matching == {j \in DOMAIN outcomes : outcomes[j].matched}
             J == IF matching # {} THEN matching ELSE DOMAIN outcomes
  <2>2. evaluateAny(outcomes) = [matched |-> matching # {}, evidence |-> pool(outcomes, J)]
    BY DEF evaluateAny
  <2>3. J \subseteq DOMAIN outcomes /\ (matching # {}) \in BOOLEAN
    OBVIOUS
  <2> HIDE DEF J
  <2>4. pool(outcomes, J) \subseteq predicates(c)
    BY <1>2, <2>3
  <2>5. CASE matching = {}
    <3>1. evaluateAny(outcomes) = [matched |-> FALSE, evidence |-> pool(outcomes, J)]
      BY <2>2, <2>5
    <3> QED
      BY <2>1, <2>4, <3>1 DEF Outcomes
  <2>6. CASE matching # {}
    <3>1. evaluateAny(outcomes) = [matched |-> TRUE, evidence |-> pool(outcomes, J)]
      BY <2>2, <2>6
    <3> QED
      BY <2>1, <2>4, <3>1 DEF Outcomes
  <2> QED
    BY <2>5, <2>6
<1> QED
  BY <1>1, <1>3, <1>4, <1>5

(* The nodes' outcomes exist: each is what its children's make of it. *)
LEMMA NodeOutcomes ==
  ASSUME NEW c, IsCondition(c), NEW sigs, NEW o, o = evaluateNodes(c, sigs)
  PROVE  /\ o \in [DOMAIN c -> Outcomes(c)]
         /\ \A i \in DOMAIN c : o[i] = evaluateNode(c[i], sigs, [j \in c[i].children |-> o[j]])
<1> DEFINE D == DOMAIN c
           V == Outcomes(c)
           step == [xf \in D \X [D -> V] |->
                      evaluateNode(c[xf[1]], sigs, [j \in c[xf[1]].children |-> xf[2][j]])]
           deps == childrenOf(c)
<1>1. /\ IsFiniteSet(D) /\ deps \in [D -> SUBSET D] /\ Acyclic(D, deps)
      /\ \A i \in D : deps[i] = c[i].children
  BY NodesAcyclic DEF childrenOf
<1>2. [matched |-> FALSE, evidence |-> {}] \in V
  BY DEF Outcomes
<1>3. ASSUME NEW i \in D, NEW f \in [D -> V]
      PROVE  /\ step[<<i, f>>] = evaluateNode(c[i], sigs, [j \in c[i].children |-> f[j]])
             /\ step[<<i, f>>] \in V
  <2>1. step[<<i, f>>] = evaluateNode(c[i], sigs, [j \in c[i].children |-> f[j]])
    OBVIOUS
  <2>2. [j \in c[i].children |-> f[j]] \in [c[i].children -> V]
    BY <1>1
  <2>3. evaluateNode(c[i], sigs, [j \in c[i].children |-> f[j]]) \in V
    BY <2>2, OutcomeType
  <2> HIDE DEF step, V
  <2> QED
    BY <2>1, <2>3
<1>5. ASSUME NEW i \in D, NEW f \in [D -> V], NEW g \in [D -> V],
             \A j \in deps[i] : f[j] = g[j]
      PROVE  step[<<i, f>>] = step[<<i, g>>]
  <2> DEFINE given(h) == [j \in c[i].children |-> h[j]]
  <2>1. given(f) = given(g)
    BY <1>1, <1>5
  <2>2. /\ step[<<i, f>>] = evaluateNode(c[i], sigs, given(f))
        /\ step[<<i, g>>] = evaluateNode(c[i], sigs, given(g))
    BY <1>3
  <2> HIDE DEF step, V, given
  <2> QED
    BY <2>1, <2>2
<1>6. PICK f \in [D -> V] : \A i \in D : f[i] = step[<<i, f>>]
  <2>1. IsStep(D, deps, V, step)
    BY <1>3, <1>5 DEF IsStep
  <2>2. PICK v \in V : TRUE
    BY <1>2
  <2> HIDE DEF D, V, step, deps
  <2> QED
    BY <1>1, <2>1, <2>2, FiniteRecursion
<1>7. f = [i \in DOMAIN c |-> evaluateNode(c[i], sigs, [j \in c[i].children |-> f[j]])]
  <2>1. \A i \in D : f[i] = evaluateNode(c[i], sigs, [j \in c[i].children |-> f[j]])
    <3> HIDE DEF step, V
    <3> QED
      BY <1>3, <1>6
  <2> HIDE DEF step, V
  <2> QED
    BY <2>1
<1>8. o = [i \in DOMAIN c |-> evaluateNode(c[i], sigs, [j \in c[i].children |-> o[j]])]
  BY <1>7 DEF evaluateNodes
<1>9. \A i \in DOMAIN c : o[i] = evaluateNode(c[i], sigs, [j \in c[i].children |-> o[j]])
  BY <1>8
<1>10. o \in [D -> V]
  <2> DEFINE bad == {i \in D : o[i] \notin V}
  <2>1. bad = {}
    <3> SUFFICES ASSUME bad # {} PROVE FALSE
      OBVIOUS
    <3>1. PICK i \in bad : deps[i] \cap bad = {}
      <4> HIDE DEF deps, V
      <4> QED
        BY <1>1 DEF Acyclic
    <3>2. [j \in c[i].children |-> o[j]] \in [c[i].children -> V]
      <4> HIDE DEF deps, V
      <4> QED
        BY <1>1, <3>1
    <3>3. o[i] \in V
      <4>1. evaluateNode(c[i], sigs, [j \in c[i].children |-> o[j]]) \in V
        BY <3>1, <3>2, OutcomeType
      <4> HIDE DEF V
      <4> QED
        BY <1>9, <3>1, <4>1
    <3> QED
      BY <3>1, <3>3
  <2>2. \A i \in D : o[i] \in V
    BY <2>1
  <2>3. DOMAIN o = D /\ o = [i \in D |-> o[i]]
    BY <1>8
  <2> HIDE DEF V
  <2> QED
    BY <2>2, <2>3
<1> QED
  BY <1>9, <1>10

(* The same, field by field. *)
LEMMA OutcomeFields ==
  ASSUME NEW c, IsCondition(c), NEW sigs, NEW o, o = evaluateNodes(c, sigs),
         NEW i \in DOMAIN c
  PROVE  /\ c[i].children \subseteq DOMAIN c
         /\ c[i].op = "signal" =>
              /\ o[i].matched <=> strongestMatch(c[i].evidence, sigs)
              /\ o[i].matched => o[i].evidence = {c[i].evidence}
         /\ c[i].op = "all" =>
              /\ o[i].matched <=> \A j \in c[i].children : o[j].matched
              /\ \A e : e \in o[i].evidence <=> \E j \in c[i].children : e \in o[j].evidence
         /\ c[i].op = "any" =>
              /\ o[i].matched <=> \E j \in c[i].children : o[j].matched
              /\ o[i].matched => \A e :
                   e \in o[i].evidence <=> \E j \in c[i].children : o[j].matched /\ e \in o[j].evidence
<1> DEFINE given == [j \in c[i].children |-> o[j]]
<1>1. /\ o \in [DOMAIN c -> Outcomes(c)]
      /\ o[i] = evaluateNode(c[i], sigs, given)
  BY NodeOutcomes
<1>2. c[i].children \subseteq DOMAIN c
  BY NodesAcyclic DEF childrenOf
<1>3. \A j \in c[i].children : given[j] = o[j] /\ o[j].matched \in BOOLEAN
  BY <1>1, <1>2 DEF Outcomes
<1>4. DOMAIN given = c[i].children
  OBVIOUS
<1>5. o[i].matched \in BOOLEAN
  BY <1>1 DEF Outcomes
<1> HIDE DEF given
<1>6. ASSUME c[i].op = "signal"
      PROVE  /\ o[i].matched <=> strongestMatch(c[i].evidence, sigs)
             /\ o[i].matched => o[i].evidence = {c[i].evidence}
  <2>1. o[i] = evaluateSignal(c[i].evidence, sigs)
    BY <1>1, <1>6 DEF evaluateNode
  <2>2. o[i].matched = strongestMatch(c[i].evidence, sigs)
    BY <2>1 DEF evaluateSignal
  <2>3. o[i].evidence = matchEvidenceList({c[i].evidence}, sigs)
    BY <2>1 DEF evaluateSignal
  <2>4. strongestMatch(c[i].evidence, sigs) => o[i].evidence = {c[i].evidence}
    BY <2>3 DEF matchEvidenceList
  <2> QED
    BY <2>2, <2>4
<1>7. ASSUME c[i].op = "all"
      PROVE  /\ o[i].matched <=> \A j \in c[i].children : o[j].matched
             /\ \A e : e \in o[i].evidence <=> \E j \in c[i].children : e \in o[j].evidence
  <2>1. o[i] = evaluateAll(given)
    BY <1>1, <1>7 DEF evaluateNode
  <2>2. o[i].matched = (\A j \in DOMAIN given : given[j].matched)
    BY <2>1 DEF evaluateAll
  <2>3. o[i].evidence = pool(given, DOMAIN given)
    BY <2>1 DEF evaluateAll
  <2>4. \A e : e \in o[i].evidence <=> \E j \in c[i].children : e \in o[j].evidence
    BY <1>3, <1>4, <2>3 DEF pool
  <2>5. (\A j \in DOMAIN given : given[j].matched) <=> \A j \in c[i].children : o[j].matched
    BY <1>3, <1>4
  <2> QED
    BY <2>2, <2>4, <2>5
<1>8. ASSUME c[i].op = "any"
      PROVE  /\ o[i].matched <=> \E j \in c[i].children : o[j].matched
             /\ o[i].matched => \A e :
                  e \in o[i].evidence <=> \E j \in c[i].children : o[j].matched /\ e \in o[j].evidence
  <2> DEFINE matching == {j \in DOMAIN given : given[j].matched}
  <2>1. o[i] = evaluateAny(given)
    BY <1>1, <1>8 DEF evaluateNode
  <2>2. o[i].matched = (matching # {})
    BY <2>1 DEF evaluateAny
  <2>3. o[i].evidence = pool(given, IF matching # {} THEN matching ELSE DOMAIN given)
    BY <2>1 DEF evaluateAny
  <2>4. \A j : j \in matching <=> j \in c[i].children /\ o[j].matched
    BY <1>3, <1>4
  <2> HIDE DEF matching
  <2>5. o[i].matched <=> \E j \in c[i].children : o[j].matched
    BY <2>2, <2>4
  <2>6. ASSUME o[i].matched
        PROVE  \A e : e \in o[i].evidence
                        <=> \E j \in c[i].children : o[j].matched /\ e \in o[j].evidence
    <3>1. matching # {}
      BY <2>4, <2>5, <2>6
    <3>2. o[i].evidence = pool(given, matching)
      BY <2>3, <3>1
    <3>3. \A j \in matching : given[j] = o[j]
      BY <1>3, <2>4
    <3>4. \A e : e \in o[i].evidence <=> \E j \in matching : e \in o[j].evidence
      BY <3>2, <3>3 DEF pool
    <3> QED
      BY <2>4, <3>4
  <2> QED
    BY <2>5, <2>6
<1> QED
  BY <1>2, <1>6, <1>7, <1>8

(* What matches fewer signals matches more of them, by no less evidence. *)
LEMMA MatchMonotone ==
  ASSUME NEW c, IsCondition(c), NEW few, NEW many, few \subseteq many,
         NEW o, o = evaluateNodes(c, few), NEW w, w = evaluateNodes(c, many),
         NEW n \in DOMAIN c, o[n].matched
  PROVE  w[n].matched /\ o[n].evidence \subseteq w[n].evidence
<1> DEFINE holds(i) == o[i].matched => w[i].matched /\ o[i].evidence \subseteq w[i].evidence
           bad == {i \in DOMAIN c : ~ holds(i)}
<1>1. bad = {}
  <2> SUFFICES ASSUME bad # {} PROVE FALSE
    OBVIOUS
  <2>1. PICK i \in bad : c[i].children \cap bad = {}
    <3>1. bad \in SUBSET DOMAIN c
      OBVIOUS
    <3> HIDE DEF bad
    <3> QED
      BY <3>1, MinimalNode
  <2>2. i \in DOMAIN c /\ o[i].matched /\ ~ (w[i].matched /\ o[i].evidence \subseteq w[i].evidence)
    OBVIOUS
  <2>3. c[i].children \subseteq DOMAIN c
    BY <2>2, OutcomeFields
  <2>4. \A j \in c[i].children :
          o[j].matched => w[j].matched /\ o[j].evidence \subseteq w[j].evidence
    BY <2>1, <2>3
  <2>5. c[i].op \in {"signal", "all", "any"}
    BY <2>2 DEF IsCondition
  <2> HIDE DEF bad
  <2>6. CASE c[i].op = "signal"
    <3>1. o[i].evidence = {c[i].evidence} /\ strongestMatch(c[i].evidence, few)
      BY <2>2, <2>6, OutcomeFields
    <3>2. strongestMatch(c[i].evidence, many)
      BY <3>1 DEF strongestMatch
    <3>3. w[i].matched /\ w[i].evidence = {c[i].evidence}
      BY <2>2, <2>6, <3>2, OutcomeFields
    <3> QED
      BY <2>2, <3>1, <3>3
  <2>7. CASE c[i].op = "all"
    <3>1. /\ \A j \in c[i].children : o[j].matched
          /\ \A e : e \in o[i].evidence <=> \E j \in c[i].children : e \in o[j].evidence
      BY <2>2, <2>7, OutcomeFields
    <3>2. /\ w[i].matched <=> \A j \in c[i].children : w[j].matched
          /\ \A e : e \in w[i].evidence <=> \E j \in c[i].children : e \in w[j].evidence
      BY <2>2, <2>7, OutcomeFields
    <3> QED
      BY <2>2, <2>4, <3>1, <3>2
  <2>8. CASE c[i].op = "any"
    <3>1. /\ \E j \in c[i].children : o[j].matched
          /\ \A e : e \in o[i].evidence
               <=> \E j \in c[i].children : o[j].matched /\ e \in o[j].evidence
      BY <2>2, <2>8, OutcomeFields
    <3>2. /\ w[i].matched <=> \E j \in c[i].children : w[j].matched
          /\ w[i].matched => \A e : e \in w[i].evidence
               <=> \E j \in c[i].children : w[j].matched /\ e \in w[j].evidence
      BY <2>2, <2>8, OutcomeFields
    <3>3. w[i].matched
      BY <2>4, <3>1, <3>2
    <3> QED
      BY <2>2, <2>4, <3>1, <3>2, <3>3
  <2> QED
    BY <2>5, <2>6, <2>7, <2>8
<1>2. holds(n)
  BY <1>1
<1> QED
  BY <1>2

-----------------------------------------------------------------------------
(*                    The coverage of a condition                          *)

Sources == Range(Pipeline)

Potentials(c) == [evidence : predicates(c), incomplete : SUBSET Sources]

Coverages(c) ==
  [state : {"matched", "not_matched", "unknown"}, potential : SUBSET Potentials(c),
   incomplete : SUBSET Sources, required : SUBSET Sources]

missingSources(e, complete) == {s \in CapableSources(e) : <<s, e.type>> \notin complete}

(* What is gathered from the children has the type of what they have. *)
LEMMA GatherType ==
  ASSUME NEW c, NEW I, NEW results \in [I -> Coverages(c)], NEW J \in SUBSET I
  PROVE  /\ gather(results, J, "potential") \subseteq Potentials(c)
         /\ gather(results, J, "incomplete") \subseteq Sources
         /\ gather(results, J, "required") \subseteq Sources
<1>1. \A j \in J : /\ results[j].potential \subseteq Potentials(c)
                   /\ results[j].incomplete \subseteq Sources
                   /\ results[j].required \subseteq Sources
  BY DEF Coverages
<1>2. /\ gather(results, J, "potential") = UNION {results[j].potential : j \in J}
      /\ gather(results, J, "incomplete") = UNION {results[j].incomplete : j \in J}
      /\ gather(results, J, "required") = UNION {results[j].required : j \in J}
  BY DEF gather
<1> QED
  BY <1>1, <1>2

(* Coverage of a node is made of coverage of its children. *)
LEMMA CoverageType ==
  ASSUME NEW c, IsCondition(c), NEW sigs, NEW complete, NEW i \in DOMAIN c,
         NEW results \in [c[i].children -> Coverages(c)]
  PROVE  coverNode(c[i], sigs, complete, results) \in Coverages(c)
<1> DEFINE I == c[i].children
           unknown == inState(results, "unknown")
           failed == inState(results, "not_matched")
           r == coverNode(c[i], sigs, complete, results)
<1>1. c[i].op \in {"signal", "all", "any"}
  BY DEF IsCondition
<1>2. \A state, potential, incomplete, required :
        /\ state \in {"matched", "not_matched", "unknown"}
        /\ potential \subseteq Potentials(c)
        /\ incomplete \subseteq Sources /\ required \subseteq Sources
        => conditionResult(state, potential, incomplete, required) \in Coverages(c)
  BY DEF conditionResult, Coverages
<1>3. DOMAIN results = I /\ unknown \subseteq I /\ failed \subseteq I
  BY DEF inState
<1>4. \A J \in SUBSET I : /\ gather(results, J, "potential") \subseteq Potentials(c)
                          /\ gather(results, J, "incomplete") \subseteq Sources
                          /\ gather(results, J, "required") \subseteq Sources
  BY GatherType
<1>5. CASE c[i].op = "signal"
  <2> DEFINE e == c[i].evidence
             missing == missingSources(e, complete)
             one(S) == [evidence |-> e, incomplete |-> S]
  <2>1. e \in predicates(c)
    BY <1>5 DEF predicates, leaves
  <2>2. CapableSources(e) \subseteq Sources /\ missing \subseteq Sources
    BY DEF CapableSources, missingSources, Sources
  <2>3. one({}) \in Potentials(c) /\ one(missing) \in Potentials(c)
    <3> HIDE DEF e, missing
    <3> QED
      BY <2>1, <2>2 DEF Potentials
  <2>4. r = signalCoverage(e, sigs, complete)
    BY <1>5 DEF coverNode
  <2>5. r \in {conditionResult("matched", {one({})}, {}, CapableSources(e)),
               conditionResult("not_matched", {}, {}, CapableSources(e)),
               conditionResult("unknown", {one(missing)}, missing, CapableSources(e))}
    BY <2>4 DEF signalCoverage, missingSources
  <2> HIDE DEF one, e, missing, r
  <2> QED
    BY <1>2, <2>2, <2>3, <2>5 DEF r
<1>6. CASE c[i].op = "all"
  <2> DEFINE upTo == {j \in DOMAIN results : j <= Min(failed)}
             state == IF unknown # {} THEN "unknown" ELSE "matched"
  <2>1. r = allCoverage(results)
    BY <1>6 DEF coverNode
  <2>2. \/ r = conditionResult("not_matched", {}, {}, gather(results, upTo, "required"))
        \/ r = conditionResult(state, gather(results, I, "potential"),
                               gather(results, unknown, "incomplete"),
                               gather(results, I, "required"))
    BY <1>3, <2>1 DEF allCoverage
  <2>3. upTo \subseteq I /\ I \subseteq I /\ state \in {"matched", "not_matched", "unknown"}
    BY <1>3
  <2> HIDE DEF I, upTo, state, unknown, failed, r
  <2> QED
    BY <1>2, <1>3, <1>4, <2>2, <2>3 DEF r
<1>7. CASE c[i].op = "any"
  <2> DEFINE kept == DOMAIN results \ failed
             state == IF unknown # {} THEN "unknown" ELSE "matched"
  <2>1. r = anyCoverage(results)
    BY <1>7 DEF coverNode
  <2>2. \/ r = conditionResult("not_matched", {}, {}, gather(results, I, "required"))
        \/ r = conditionResult(state, gather(results, kept, "potential"),
                               gather(results, kept, "incomplete"),
                               gather(results, I, "required"))
    BY <1>3, <2>1 DEF anyCoverage
  <2>3. kept \subseteq I /\ I \subseteq I /\ state \in {"matched", "not_matched", "unknown"}
    BY <1>3
  <2> HIDE DEF I, kept, state, unknown, failed, r
  <2> QED
    BY <1>2, <1>3, <1>4, <2>2, <2>3 DEF r
<1> QED
  BY <1>1, <1>5, <1>6, <1>7

(* The nodes' coverage exists: each is what its children's make of it. *)
LEMMA NodeCoverages ==
  ASSUME NEW c, IsCondition(c), NEW sigs, NEW complete, NEW o, o = coverNodes(c, sigs, complete)
  PROVE  /\ o \in [DOMAIN c -> Coverages(c)]
         /\ \A i \in DOMAIN c : o[i] = coverNode(c[i], sigs, complete, [j \in c[i].children |-> o[j]])
<1> DEFINE D == DOMAIN c
           V == Coverages(c)
           step == [xf \in D \X [D -> V] |->
                      coverNode(c[xf[1]], sigs, complete, [j \in c[xf[1]].children |-> xf[2][j]])]
           deps == childrenOf(c)
<1>1. /\ IsFiniteSet(D) /\ deps \in [D -> SUBSET D] /\ Acyclic(D, deps)
      /\ \A i \in D : deps[i] = c[i].children
  BY NodesAcyclic DEF childrenOf
<1>2. [state |-> "matched", potential |-> {}, incomplete |-> {}, required |-> {}] \in V
  BY DEF Coverages
<1>3. ASSUME NEW i \in D, NEW f \in [D -> V]
      PROVE  /\ step[<<i, f>>] = coverNode(c[i], sigs, complete, [j \in c[i].children |-> f[j]])
             /\ step[<<i, f>>] \in V
  <2>1. step[<<i, f>>] = coverNode(c[i], sigs, complete, [j \in c[i].children |-> f[j]])
    OBVIOUS
  <2>2. [j \in c[i].children |-> f[j]] \in [c[i].children -> V]
    BY <1>1
  <2>3. coverNode(c[i], sigs, complete, [j \in c[i].children |-> f[j]]) \in V
    BY <2>2, CoverageType
  <2> HIDE DEF step, V
  <2> QED
    BY <2>1, <2>3
<1>5. ASSUME NEW i \in D, NEW f \in [D -> V], NEW g \in [D -> V],
             \A j \in deps[i] : f[j] = g[j]
      PROVE  step[<<i, f>>] = step[<<i, g>>]
  <2> DEFINE given(h) == [j \in c[i].children |-> h[j]]
  <2>1. given(f) = given(g)
    BY <1>1, <1>5
  <2>2. /\ step[<<i, f>>] = coverNode(c[i], sigs, complete, given(f))
        /\ step[<<i, g>>] = coverNode(c[i], sigs, complete, given(g))
    BY <1>3
  <2> HIDE DEF step, V, given
  <2> QED
    BY <2>1, <2>2
<1>6. PICK f \in [D -> V] : \A i \in D : f[i] = step[<<i, f>>]
  <2>1. IsStep(D, deps, V, step)
    BY <1>3, <1>5 DEF IsStep
  <2>2. PICK v \in V : TRUE
    BY <1>2
  <2> HIDE DEF D, V, step, deps
  <2> QED
    BY <1>1, <2>1, <2>2, FiniteRecursion
<1>7. f = [i \in DOMAIN c |-> coverNode(c[i], sigs, complete, [j \in c[i].children |-> f[j]])]
  <2>1. \A i \in D : f[i] = coverNode(c[i], sigs, complete, [j \in c[i].children |-> f[j]])
    <3> HIDE DEF step, V
    <3> QED
      BY <1>3, <1>6
  <2> HIDE DEF step, V
  <2> QED
    BY <2>1
<1>8. o = [i \in DOMAIN c |-> coverNode(c[i], sigs, complete, [j \in c[i].children |-> o[j]])]
  BY <1>7 DEF coverNodes
<1>9. \A i \in DOMAIN c : o[i] = coverNode(c[i], sigs, complete, [j \in c[i].children |-> o[j]])
  BY <1>8
<1>10. o \in [D -> V]
  <2> DEFINE bad == {i \in D : o[i] \notin V}
  <2>1. bad = {}
    <3> SUFFICES ASSUME bad # {} PROVE FALSE
      OBVIOUS
    <3>1. PICK i \in bad : deps[i] \cap bad = {}
      <4> HIDE DEF deps, V
      <4> QED
        BY <1>1 DEF Acyclic
    <3>2. [j \in c[i].children |-> o[j]] \in [c[i].children -> V]
      <4> HIDE DEF deps, V
      <4> QED
        BY <1>1, <3>1
    <3>3. o[i] \in V
      <4>1. coverNode(c[i], sigs, complete, [j \in c[i].children |-> o[j]]) \in V
        BY <3>1, <3>2, CoverageType
      <4> HIDE DEF V
      <4> QED
        BY <1>9, <3>1, <4>1
    <3> QED
      BY <3>1, <3>3
  <2>2. \A i \in D : o[i] \in V
    BY <2>1
  <2>3. DOMAIN o = D /\ o = [i \in D |-> o[i]]
    BY <1>8
  <2> HIDE DEF V
  <2> QED
    BY <2>2, <2>3
<1> QED
  BY <1>9, <1>10

(* The same, field by field. *)
LEMMA CoverageFields ==
  ASSUME NEW c, IsCondition(c), NEW sigs, NEW complete,
         NEW r, r = coverNodes(c, sigs, complete), NEW i \in DOMAIN c,
         NEW e, e = c[i].evidence, NEW missing, missing = missingSources(e, complete)
  PROVE  /\ c[i].children \subseteq DOMAIN c
         /\ c[i].op = "signal" =>
              /\ r[i].required = CapableSources(e)
              /\ r[i].state = "not_matched" =>
                   /\ ~ strongestMatch(e, sigs) /\ missing = {}
                   /\ r[i].potential = {}
              /\ r[i].state # "not_matched" =>
                   /\ r[i].potential # {}
                   /\ \A p \in r[i].potential :
                        /\ p.evidence = e /\ p.incomplete \subseteq missing
                        /\ p.incomplete = {} => strongestMatch(e, sigs)
         /\ c[i].op = "all" =>
              /\ r[i].state = "not_matched" <=> \E j \in c[i].children : r[j].state = "not_matched"
              /\ r[i].state = "not_matched" => r[i].potential = {}
              /\ r[i].state # "not_matched" =>
                   /\ \A p : p \in r[i].potential <=> \E j \in c[i].children : p \in r[j].potential
                   /\ \A s : s \in r[i].required <=> \E j \in c[i].children : s \in r[j].required
         /\ c[i].op = "any" =>
              /\ r[i].state = "not_matched" <=> \A j \in c[i].children : r[j].state = "not_matched"
              /\ r[i].state = "not_matched" => r[i].potential = {}
              /\ r[i].state # "not_matched" => \A p :
                   p \in r[i].potential
                     <=> \E j \in c[i].children : r[j].state # "not_matched" /\ p \in r[j].potential
              /\ \A s : s \in r[i].required <=> \E j \in c[i].children : s \in r[j].required
<1> DEFINE given == [j \in c[i].children |-> r[j]]
           failed == inState(given, "not_matched")
           unknown == inState(given, "unknown")
<1>1. /\ r \in [DOMAIN c -> Coverages(c)]
      /\ r[i] = coverNode(c[i], sigs, complete, given)
  BY NodeCoverages
<1>2. c[i].children \subseteq DOMAIN c
  BY NodesAcyclic DEF childrenOf
<1>3. \A j \in c[i].children : given[j] = r[j]
  OBVIOUS
<1>4. DOMAIN given = c[i].children
  OBVIOUS
<1> HIDE DEF given
<1>5. \A j : j \in failed <=> j \in c[i].children /\ r[j].state = "not_matched"
  BY <1>3, <1>4 DEF inState
<1>6. \A J \in SUBSET c[i].children :
        /\ \A p : p \in gather(given, J, "potential") <=> \E j \in J : p \in r[j].potential
        /\ \A s : s \in gather(given, J, "required") <=> \E j \in J : s \in r[j].required
  <2> TAKE J \in SUBSET c[i].children
  <2>1. \A j \in J : given[j] = r[j]
    BY <1>3
  <2>2. /\ gather(given, J, "potential") = UNION {given[j].potential : j \in J}
        /\ gather(given, J, "required") = UNION {given[j].required : j \in J}
    BY DEF gather
  <2> QED
    BY <2>1, <2>2
<1>7. ASSUME c[i].op = "signal"
      PROVE  /\ r[i].required = CapableSources(e)
             /\ r[i].state = "not_matched" =>
                  /\ ~ strongestMatch(e, sigs) /\ missing = {}
                  /\ r[i].potential = {}
             /\ r[i].state # "not_matched" =>
                  /\ r[i].potential # {}
                  /\ \A p \in r[i].potential :
                       /\ p.evidence = e /\ p.incomplete \subseteq missing
                       /\ p.incomplete = {} => strongestMatch(e, sigs)
  <2>1. r[i] = signalCoverage(e, sigs, complete)
    BY <1>1, <1>7 DEF coverNode
  <2>2. \/ /\ strongestMatch(e, sigs)
           /\ r[i] = conditionResult("matched", {[evidence |-> e, incomplete |-> {}]}, {},
                                     CapableSources(e))
        \/ /\ ~ strongestMatch(e, sigs) /\ missing = {}
           /\ r[i] = conditionResult("not_matched", {}, {}, CapableSources(e))
        \/ /\ ~ strongestMatch(e, sigs) /\ missing # {}
           /\ r[i] = conditionResult("unknown", {[evidence |-> e, incomplete |-> missing]}, missing,
                                     CapableSources(e))
    BY <2>1 DEF signalCoverage, missingSources
  <2> DEFINE one(S) == [evidence |-> e, incomplete |-> S]
  <2>3. \A S : one(S).evidence = e /\ one(S).incomplete = S
    OBVIOUS
  <2>4. \/ /\ ~ strongestMatch(e, sigs) /\ missing = {}
           /\ r[i].state = "not_matched" /\ r[i].potential = {}
        \/ /\ strongestMatch(e, sigs)
           /\ r[i].state = "matched" /\ r[i].potential = {one({})}
        \/ /\ missing # {}
           /\ r[i].state = "unknown" /\ r[i].potential = {one(missing)}
    BY <2>2 DEF conditionResult
  <2>5. r[i].required = CapableSources(e)
    BY <2>2 DEF conditionResult
  <2> HIDE DEF one
  <2> QED
    BY <2>3, <2>4, <2>5
<1>8. ASSUME c[i].op = "all"
      PROVE  /\ r[i].state = "not_matched" <=> \E j \in c[i].children : r[j].state = "not_matched"
             /\ r[i].state = "not_matched" => r[i].potential = {}
             /\ r[i].state # "not_matched" =>
                  /\ \A p : p \in r[i].potential <=> \E j \in c[i].children : p \in r[j].potential
                  /\ \A s : s \in r[i].required <=> \E j \in c[i].children : s \in r[j].required
  <2>1. r[i] = allCoverage(given)
    BY <1>1, <1>8 DEF coverNode
  <2> DEFINE first == gather(given, {j \in DOMAIN given : j <= Min(failed)}, "required")
             state == IF unknown # {} THEN "unknown" ELSE "matched"
             potential == gather(given, c[i].children, "potential")
             incomplete == gather(given, unknown, "incomplete")
             required == gather(given, c[i].children, "required")
  <2>2. \/ failed # {} /\ r[i] = conditionResult("not_matched", {}, {}, first)
        \/ failed = {} /\ r[i] = conditionResult(state, potential, incomplete, required)
    BY <1>4, <2>1 DEF allCoverage
  <2>3. state # "not_matched"
    OBVIOUS
  <2>4. /\ \A p : p \in potential <=> \E j \in c[i].children : p \in r[j].potential
        /\ \A s : s \in required <=> \E j \in c[i].children : s \in r[j].required
    BY <1>6
  <2> HIDE DEF first, state, potential, incomplete, required, failed
  <2>5. CASE failed # {}
    <3>1. r[i].state = "not_matched" /\ r[i].potential = {}
      BY <2>2, <2>5 DEF conditionResult
    <3> QED
      BY <1>5, <2>5, <3>1
  <2>6. CASE failed = {}
    <3>1. r[i].state # "not_matched" /\ r[i].potential = potential /\ r[i].required = required
      BY <2>2, <2>3, <2>6 DEF conditionResult
    <3> QED
      BY <1>5, <2>4, <2>6, <3>1
  <2> QED
    BY <2>5, <2>6
<1>9. ASSUME c[i].op = "any"
      PROVE  /\ r[i].state = "not_matched" <=> \A j \in c[i].children : r[j].state = "not_matched"
             /\ r[i].state = "not_matched" => r[i].potential = {}
             /\ r[i].state # "not_matched" => \A p :
                  p \in r[i].potential
                    <=> \E j \in c[i].children : r[j].state # "not_matched" /\ p \in r[j].potential
             /\ \A s : s \in r[i].required <=> \E j \in c[i].children : s \in r[j].required
  <2>1. r[i] = anyCoverage(given)
    BY <1>1, <1>9 DEF coverNode
  <2> DEFINE kept == DOMAIN given \ failed
             state == IF unknown # {} THEN "unknown" ELSE "matched"
             potential == gather(given, kept, "potential")
             incomplete == gather(given, kept, "incomplete")
             required == gather(given, c[i].children, "required")
  <2>2. \/ kept = {} /\ r[i] = conditionResult("not_matched", {}, {}, required)
        \/ kept # {} /\ r[i] = conditionResult(state, potential, incomplete, required)
    BY <1>4, <2>1 DEF anyCoverage
  <2>3. state # "not_matched"
    OBVIOUS
  <2>4. \A j : j \in kept <=> j \in c[i].children /\ r[j].state # "not_matched"
    BY <1>4, <1>5
  <2>5. /\ \A p : p \in potential <=> \E j \in kept : p \in r[j].potential
        /\ \A s : s \in required <=> \E j \in c[i].children : s \in r[j].required
    <3>1. kept \subseteq c[i].children
      BY <2>4
    <3> HIDE DEF kept
    <3> QED
      BY <1>6, <3>1
  <2> HIDE DEF kept, state, potential, incomplete, required, failed
  <2>6. CASE kept = {}
    <3>1. r[i].state = "not_matched" /\ r[i].potential = {} /\ r[i].required = required
      BY <2>2, <2>6 DEF conditionResult
    <3> QED
      BY <2>4, <2>5, <2>6, <3>1
  <2>7. CASE kept # {}
    <3>1. r[i].state # "not_matched" /\ r[i].potential = potential /\ r[i].required = required
      BY <2>2, <2>3, <2>7 DEF conditionResult
    <3> QED
      BY <2>4, <2>5, <2>7, <3>1
  <2> QED
    BY <2>6, <2>7
<1> QED
  BY <1>2, <1>7, <1>8, <1>9

(* The same of a leaf, by name. *)
LEMMA LeafCoverage ==
  ASSUME NEW c, IsCondition(c), NEW sigs, NEW complete,
         NEW r, r = coverNodes(c, sigs, complete), NEW i \in DOMAIN c, c[i].op = "signal"
  PROVE  /\ r[i].state = "not_matched" =>
              /\ ~ strongestMatch(c[i].evidence, sigs)
              /\ missingSources(c[i].evidence, complete) = {}
         /\ r[i].state # "not_matched" =>
              r[i].potential # {} /\ \A p \in r[i].potential : p.evidence = c[i].evidence
BY CoverageFields

(* A leaf that cannot be satisfied was not seen by complete channels. *)
LEMMA UnsatisfiableLeaf ==
  ASSUME NEW c, IsCondition(c), NEW sigs, NEW complete,
         NEW r, r = coverNodes(c, sigs, complete), NEW i \in DOMAIN c, c[i].op = "signal",
         r[i].state = "not_matched", NEW s \in CapableSources(c[i].evidence)
  PROVE  <<s, c[i].evidence.type>> \in complete
<1>1. missingSources(c[i].evidence, complete) = {}
  BY LeafCoverage
<1> QED
  BY <1>1 DEF missingSources

(* A signal that matches comes from a channel that is capable of it. *)
LEMMA MatchIsCapable ==
  ASSUME NEW e, NEW x \in Signals, matchEvidence(e, x)
  PROVE  x.source \in CapableSources(e) /\ x.type = e.type
<1>1. x.type = e.type /\ e.source \in {AnySource, x.source}
  BY DEF matchEvidence
<1>2. <<x.source, x.type>> \in Capabilities
  BY CoverageAssumption
<1>3. x.source \in Range(Pipeline)
  BY <1>2, CoverageAssumption
<1> QED
  BY <1>1, <1>2, <1>3 DEF CapableSources

(* What complete channels show is among the few signals that were seen. *)
MissesNothing(complete, few, many) ==
  \A x \in many : <<x.source, x.type>> \in complete => x \in few

(* A node that matches all there is to see is satisfiable for coverage, and *)
(* its evidence is among the potential: complete channels missed nothing.   *)
LEMMA CoverageIsSound ==
  ASSUME NEW c, IsCondition(c), NEW few, NEW many \in SUBSET Signals, NEW complete,
         MissesNothing(complete, few, many),
         NEW r, r = coverNodes(c, few, complete), NEW w, w = evaluateNodes(c, many),
         NEW n \in DOMAIN c, w[n].matched
  PROVE  /\ r[n].state # "not_matched"
         /\ \A e \in w[n].evidence : \E p \in r[n].potential : p.evidence = e
<1> DEFINE covered(i) == /\ r[i].state # "not_matched"
                         /\ \A e \in w[i].evidence : \E p \in r[i].potential : p.evidence = e
           bad == {i \in DOMAIN c : w[i].matched /\ ~ covered(i)}
<1>1. bad = {}
  <2> SUFFICES ASSUME bad # {} PROVE FALSE
    OBVIOUS
  <2>1. PICK i \in bad : c[i].children \cap bad = {}
    <3>1. bad \in SUBSET DOMAIN c
      OBVIOUS
    <3> HIDE DEF bad
    <3> QED
      BY <3>1, MinimalNode
  <2>2. i \in DOMAIN c /\ w[i].matched /\ ~ covered(i)
    OBVIOUS
  <2>3. c[i].children \subseteq DOMAIN c
    BY <2>2, OutcomeFields
  <2>4. \A j \in c[i].children : w[j].matched => covered(j)
    BY <2>1, <2>3
  <2>5. c[i].op \in {"signal", "all", "any"}
    BY <2>2 DEF IsCondition
  <2> HIDE DEF bad
  <2>6. CASE c[i].op = "signal"
    <3> DEFINE e == c[i].evidence
               missing == missingSources(e, complete)
    <3>1. strongestMatch(e, many) /\ w[i].evidence = {e}
      BY <2>2, <2>6, OutcomeFields
    <3>2. PICK x \in many : matchEvidence(e, x)
      BY <3>1 DEF strongestMatch
    <3> HIDE DEF covered
    <3>3. i \in DOMAIN c /\ x.source \in CapableSources(e) /\ x.type = e.type
      BY <2>2, <3>2, MatchIsCapable
    <3>4. ASSUME r[i].state = "not_matched" PROVE FALSE
      <4>1. ~ strongestMatch(e, few)
        BY <2>6, <3>3, <3>4, LeafCoverage
      <4>2. <<x.source, e.type>> \in complete
        BY <2>6, <3>3, <3>4, UnsatisfiableLeaf
      <4>3. x \in few
        BY <3>3, <4>2 DEF MissesNothing
      <4> QED
        BY <3>2, <4>1, <4>3 DEF strongestMatch
    <3>5. r[i].potential # {} /\ \A p \in r[i].potential : p.evidence = c[i].evidence
      BY <2>6, <3>3, <3>4, LeafCoverage
    <3>6. \E p \in r[i].potential : p.evidence = e
      BY <3>5
    <3> QED
      BY <2>2, <3>1, <3>4, <3>6 DEF covered
  <2>7. CASE c[i].op = "all"
    <3>1. /\ \A j \in c[i].children : w[j].matched
          /\ \A e : e \in w[i].evidence <=> \E j \in c[i].children : e \in w[j].evidence
      BY <2>2, <2>7, OutcomeFields
    <3>2. /\ r[i].state = "not_matched" <=> \E j \in c[i].children : r[j].state = "not_matched"
          /\ r[i].state # "not_matched" =>
               \A p : p \in r[i].potential <=> \E j \in c[i].children : p \in r[j].potential
      BY <2>2, <2>7, CoverageFields
    <3>3. \A j \in c[i].children : covered(j)
      BY <2>4, <3>1
    <3>4. r[i].state # "not_matched"
      BY <3>2, <3>3
    <3> QED
      BY <2>2, <3>1, <3>2, <3>3, <3>4
  <2>8. CASE c[i].op = "any"
    <3>1. /\ \E j \in c[i].children : w[j].matched
          /\ \A e : e \in w[i].evidence
               <=> \E j \in c[i].children : w[j].matched /\ e \in w[j].evidence
      BY <2>2, <2>8, OutcomeFields
    <3>2. /\ r[i].state = "not_matched" <=> \A j \in c[i].children : r[j].state = "not_matched"
          /\ r[i].state # "not_matched" => \A p : p \in r[i].potential
               <=> \E j \in c[i].children : r[j].state # "not_matched" /\ p \in r[j].potential
      BY <2>2, <2>8, CoverageFields
    <3>3. r[i].state # "not_matched"
      BY <2>4, <3>1, <3>2
    <3> QED
      BY <2>2, <2>4, <3>1, <3>2, <3>3
  <2> QED
    BY <2>5, <2>6, <2>7, <2>8
<1>2. w[n].matched => covered(n)
  BY <1>1
<1> QED
  BY <1>2

(* The same of the root. *)
LEMMA RootIsSound ==
  ASSUME NEW c, IsCondition(c), NEW few, NEW many \in SUBSET Signals, NEW complete,
         MissesNothing(complete, few, many), evaluateNodes(c, many)[1].matched
  PROVE  /\ coverNodes(c, few, complete)[1].state # "not_matched"
         /\ \A e \in evaluateNodes(c, many)[1].evidence :
              \E p \in coverNodes(c, few, complete)[1].potential : p.evidence = e
<1>1. 1 \in DOMAIN c
  BY NodesAcyclic
<1> QED
  BY <1>1, CoverageIsSound

(* What potential evidence waits for: capable sources that are not         *)
(* complete, among those the node requires.                                *)
LEMMA PotentialFacts ==
  ASSUME NEW c, IsCondition(c), NEW sigs, NEW complete,
         NEW r, r = coverNodes(c, sigs, complete), NEW n \in DOMAIN c,
         NEW p \in r[n].potential
  PROVE  /\ p.evidence \in predicates(c)
         /\ p.incomplete \subseteq missingSources(p.evidence, complete)
         /\ p.incomplete \subseteq r[n].required
<1> DEFINE waits(q, i) == /\ q.incomplete \subseteq missingSources(q.evidence, complete)
                          /\ q.incomplete \subseteq r[i].required
           bad == {i \in DOMAIN c : \E q \in r[i].potential : ~ waits(q, i)}
<1>1. bad = {}
  <2> SUFFICES ASSUME bad # {} PROVE FALSE
    OBVIOUS
  <2>1. PICK i \in bad : c[i].children \cap bad = {}
    <3>1. bad \in SUBSET DOMAIN c
      OBVIOUS
    <3> HIDE DEF bad
    <3> QED
      BY <3>1, MinimalNode
  <2>2. i \in DOMAIN c
    OBVIOUS
  <2>3. PICK q \in r[i].potential : ~ waits(q, i)
    OBVIOUS
  <2>4. c[i].children \subseteq DOMAIN c
    BY <2>2, CoverageFields
  <2>5. \A j \in c[i].children : \A o \in r[j].potential : waits(o, j)
    BY <2>1, <2>4
  <2>6. c[i].op \in {"signal", "all", "any"}
    BY <2>2 DEF IsCondition
  <2> HIDE DEF bad
  <2>7. CASE c[i].op = "signal"
    <3> DEFINE e == c[i].evidence
               missing == missingSources(e, complete)
    <3>1. /\ r[i].required = CapableSources(e)
          /\ r[i].potential # {} =>
               \A o \in r[i].potential : o.evidence = e /\ o.incomplete \subseteq missing
      BY <2>2, <2>7, CoverageFields
    <3>2. missing \subseteq CapableSources(e)
      BY DEF missingSources
    <3>3. q.evidence = e /\ q.incomplete \subseteq missing
      BY <2>3, <3>1
    <3> HIDE DEF e
    <3> QED
      BY <2>3, <3>1, <3>2, <3>3
  <2>8. CASE c[i].op = "all"
    <3>1. r[i].potential # {}
      BY <2>3
    <3>2. /\ \A o : o \in r[i].potential <=> \E j \in c[i].children : o \in r[j].potential
          /\ \A s : s \in r[i].required <=> \E j \in c[i].children : s \in r[j].required
      BY <2>2, <2>8, <3>1, CoverageFields
    <3> QED
      BY <2>3, <2>5, <3>2
  <2>9. CASE c[i].op = "any"
    <3>1. r[i].potential # {}
      BY <2>3
    <3>2. /\ \A o : o \in r[i].potential
               <=> \E j \in c[i].children : r[j].state # "not_matched" /\ o \in r[j].potential
          /\ \A s : s \in r[i].required <=> \E j \in c[i].children : s \in r[j].required
      BY <2>2, <2>9, <3>1, CoverageFields
    <3> QED
      BY <2>3, <2>5, <3>2
  <2> QED
    BY <2>6, <2>7, <2>8, <2>9
<1>2. waits(p, n)
  BY <1>1
<1>3. p.evidence \in predicates(c)
  <2>1. r \in [DOMAIN c -> Coverages(c)]
    BY NodeCoverages
  <2>2. r[n].potential \subseteq Potentials(c)
    BY <2>1 DEF Coverages
  <2> QED
    BY <2>2 DEF Potentials
<1> QED
  BY <1>2, <1>3

(* A satisfiable node matches once what it waits for is seen, and its      *)
(* evidence is then all that was possible.                                 *)
LEMMA CoverageIsAttained ==
  ASSUME NEW c, IsCondition(c), NEW few, NEW many, few \subseteq many, NEW complete,
         NEW r, r = coverNodes(c, few, complete), NEW w, w = evaluateNodes(c, many),
         NEW n \in DOMAIN c, r[n].state # "not_matched",
         \A p \in r[n].potential : p.incomplete # {} => strongestMatch(p.evidence, many)
  PROVE  w[n].matched /\ \A p \in r[n].potential : p.evidence \in w[n].evidence
<1> DEFINE shown(i) == \A p \in r[i].potential :
                         p.incomplete # {} => strongestMatch(p.evidence, many)
           attained(i) == w[i].matched /\ \A p \in r[i].potential : p.evidence \in w[i].evidence
           bad == {i \in DOMAIN c : r[i].state # "not_matched" /\ shown(i) /\ ~ attained(i)}
<1>1. bad = {}
  <2> SUFFICES ASSUME bad # {} PROVE FALSE
    OBVIOUS
  <2>1. PICK i \in bad : c[i].children \cap bad = {}
    <3>1. bad \in SUBSET DOMAIN c
      OBVIOUS
    <3> HIDE DEF bad
    <3> QED
      BY <3>1, MinimalNode
  <2>2. i \in DOMAIN c /\ r[i].state # "not_matched" /\ shown(i) /\ ~ attained(i)
    OBVIOUS
  <2>3. c[i].children \subseteq DOMAIN c
    BY <2>2, OutcomeFields
  <2>4. \A j \in c[i].children : r[j].state # "not_matched" /\ shown(j) => attained(j)
    BY <2>1, <2>3
  <2>5. c[i].op \in {"signal", "all", "any"}
    BY <2>2 DEF IsCondition
  <2> HIDE DEF bad
  <2>6. CASE c[i].op = "signal"
    <3> DEFINE e == c[i].evidence
               missing == missingSources(e, complete)
    <3>1. /\ r[i].potential # {}
          /\ \A p \in r[i].potential :
               p.evidence = e /\ (p.incomplete = {} => strongestMatch(e, few))
      BY <2>2, <2>6, CoverageFields
    <3>2. strongestMatch(e, many)
      <4> HIDE DEF e
      <4>1. strongestMatch(e, few) => strongestMatch(e, many)
        BY DEF strongestMatch
      <4> QED
        BY <2>2, <3>1, <4>1
    <3>3. w[i].matched /\ w[i].evidence = {e}
      BY <2>2, <2>6, <3>2, OutcomeFields
    <3> QED
      BY <2>2, <3>1, <3>3
  <2>7. CASE c[i].op = "all"
    <3>1. /\ w[i].matched <=> \A j \in c[i].children : w[j].matched
          /\ \A e : e \in w[i].evidence <=> \E j \in c[i].children : e \in w[j].evidence
      BY <2>2, <2>7, OutcomeFields
    <3>2. /\ ~ \E j \in c[i].children : r[j].state = "not_matched"
          /\ \A p : p \in r[i].potential <=> \E j \in c[i].children : p \in r[j].potential
      BY <2>2, <2>7, CoverageFields
    <3>3. \A j \in c[i].children : shown(j)
      BY <2>2, <3>2
    <3>4. \A j \in c[i].children : attained(j)
      BY <2>4, <3>2, <3>3
    <3> QED
      BY <2>2, <3>1, <3>2, <3>4
  <2>8. CASE c[i].op = "any"
    <3>1. /\ w[i].matched <=> \E j \in c[i].children : w[j].matched
          /\ w[i].matched => \A e : e \in w[i].evidence
               <=> \E j \in c[i].children : w[j].matched /\ e \in w[j].evidence
      BY <2>2, <2>8, OutcomeFields
    <3>2. /\ ~ \A j \in c[i].children : r[j].state = "not_matched"
          /\ \A p : p \in r[i].potential
               <=> \E j \in c[i].children : r[j].state # "not_matched" /\ p \in r[j].potential
      BY <2>2, <2>8, CoverageFields
    <3>3. \A j \in c[i].children : r[j].state # "not_matched" => shown(j)
      BY <2>2, <3>2
    <3>4. \A j \in c[i].children : r[j].state # "not_matched" => attained(j)
      BY <2>4, <3>3
    <3>5. w[i].matched
      BY <3>1, <3>2, <3>4
    <3> QED
      BY <2>2, <3>1, <3>2, <3>4, <3>5
  <2> QED
    BY <2>5, <2>6, <2>7, <2>8
<1>2. r[n].state # "not_matched" /\ shown(n) => attained(n)
  BY <1>1
<1> QED
  BY <1>2

-----------------------------------------------------------------------------
(*                     Matching the rules of a set                         *)

requiresOf(rs) == [r \in DOMAIN rs |-> rs[r].requires]

(* What the schema's validation says of each rule. *)
LEMMA RuleFacts ==
  ASSUME NEW rs, Validate(rs), NEW r \in DOMAIN rs
  PROVE  /\ validateCondition(rs[r].match) /\ IsCondition(rs[r].match) /\ 1 \in DOMAIN rs[r].match
         /\ IsFiniteSet(predicates(rs[r].match)) /\ Weighted(predicates(rs[r].match))
         /\ IsFiniteSet(rs[r].penalties) /\ Weighted(rs[r].penalties)
         /\ IsFiniteSet(rs[r].conflicts)
         /\ \A c \in rs[r].conflicts : c.penalty \in 1..100 /\ c.rule \in DOMAIN rs
         /\ rs[r].minimumScore \in 25..100 /\ rs[r].minimumEvidence \in Int
         /\ rs[r].requires \subseteq DOMAIN rs
<1>1. validateRule(rs[r])
  BY DEF Validate
<1>2. validateCondition(rs[r].match)
  BY <1>1 DEF validateRule
<1>3. IsCondition(rs[r].match)
  BY <1>2 DEF validateCondition
<1>4. 1 \in DOMAIN rs[r].match
  BY <1>3, NodesAcyclic
<1>5. IsFiniteSet(predicates(rs[r].match)) /\ Weighted(predicates(rs[r].match))
  BY <1>2, PredicatesFinite
<1>6. IsFiniteSet(rs[r].penalties) /\ Weighted(rs[r].penalties)
  BY <1>1 DEF validateRule, validatePenaltyEvidence, Weighted
<1>7. IsFiniteSet(rs[r].conflicts) /\ \A c \in rs[r].conflicts : c.penalty \in 1..100
  BY <1>1 DEF validateRule
<1>8. /\ \A c \in rs[r].conflicts : c.rule \in DOMAIN rs
      /\ rs[r].requires \subseteq DOMAIN rs
  BY DEF Validate
<1>9. rs[r].minimumScore \in 25..100 /\ rs[r].minimumEvidence \in Int
  BY <1>1 DEF validateRule
<1> QED
  BY <1>2, <1>3, <1>4, <1>5, <1>6, <1>7, <1>8, <1>9

(* The schema refuses a cycle of prerequisites. *)
LEMMA RequiresAcyclic ==
  ASSUME NEW rs, Validate(rs)
  PROVE  /\ IsFiniteSet(DOMAIN rs)
         /\ requiresOf(rs) \in [DOMAIN rs -> SUBSET DOMAIN rs]
         /\ Acyclic(DOMAIN rs, requiresOf(rs))
<1>1. IsFiniteSet(DOMAIN rs) /\ validateDependencyGraph(rs)
  BY DEF Validate
<1>2. \A r \in DOMAIN rs : rs[r].requires \subseteq DOMAIN rs
  BY DEF Validate
<1>3. requiresOf(rs) \in [DOMAIN rs -> SUBSET DOMAIN rs]
  BY <1>2 DEF requiresOf
<1>4. ASSUME NEW S \in SUBSET DOMAIN rs, S # {}
      PROVE  \E x \in S : requiresOf(rs)[x] \cap S = {}
  <2>1. PICK x \in S : rs[x].requires \cap S = {}
    BY <1>1, <1>4 DEF validateDependencyGraph
  <2> QED
    BY <2>1 DEF requiresOf
<1> QED
  BY <1>1, <1>3, <1>4 DEF Acyclic

(* Some rule of a set requires none of the set. *)
LEMMA MinimalRule ==
  ASSUME NEW rs, Validate(rs), NEW S \in SUBSET DOMAIN rs, S # {}
  PROVE  \E r \in S : rs[r].requires \cap S = {}
<1>1. PICK r \in S : requiresOf(rs)[r] \cap S = {}
  BY RequiresAcyclic DEF Acyclic
<1> QED
  BY <1>1 DEF requiresOf

(* The match result of a rule, field by field. *)
LEMMA MatchFacts ==
  ASSUME NEW rs, Validate(rs), NEW r \in DOMAIN rs, NEW sigs,
         NEW m, m = matchRules(rs, sigs), NEW o, o = evaluateNodes(rs[r].match, sigs)
  PROVE  /\ m[r].candidate <=> /\ o[1].matched
                               /\ countEvidenceGroups(o[1].evidence) >= rs[r].minimumEvidence
         /\ m[r].positive = o[1].evidence
         /\ m[r].positive \subseteq predicates(rs[r].match)
         /\ m[r].negative = matchEvidenceList(rs[r].penalties, sigs)
         /\ m[r].negative \subseteq rs[r].penalties
<1>1. m[r] = Match(rs[r], sigs)
  BY DEF matchRules
<1>2. o[1] = evaluateCondition(rs[r].match, sigs)
  BY DEF evaluateCondition
<1>3. o \in [DOMAIN rs[r].match -> Outcomes(rs[r].match)]
  BY RuleFacts, NodeOutcomes
<1>4. o[1].evidence \subseteq predicates(rs[r].match) /\ o[1].matched \in BOOLEAN
  BY <1>3, RuleFacts DEF Outcomes
<1>5. m[r].positive = o[1].evidence
  BY <1>1, <1>2 DEF Match
<1>6. m[r].negative = matchEvidenceList(rs[r].penalties, sigs)
  BY <1>1 DEF Match
<1>7. m[r].candidate = (/\ o[1].matched
                        /\ countEvidenceGroups(o[1].evidence) >= rs[r].minimumEvidence)
  BY <1>1, <1>2 DEF Match
<1>8. m[r].negative \subseteq rs[r].penalties
  BY <1>6 DEF matchEvidenceList
<1> QED
  BY <1>4, <1>5, <1>6, <1>7, <1>8

(* More signals: candidates stay candidates and score no less, and no      *)
(* penalty goes away.                                                      *)
LEMMA CandidatesMonotone ==
  ASSUME NEW rs, Validate(rs), NEW r \in DOMAIN rs, NEW few, NEW many, few \subseteq many,
         NEW m, m = matchRules(rs, few), NEW w, w = matchRules(rs, many)
  PROVE  /\ m[r].candidate =>
              /\ w[r].candidate
              /\ m[r].positive \subseteq w[r].positive
              /\ scorePositive(m[r].positive) \in Nat /\ scorePositive(w[r].positive) \in Nat
              /\ scorePositive(m[r].positive) <= scorePositive(w[r].positive)
         /\ m[r].negative \subseteq w[r].negative
<1> DEFINE c == rs[r].match
           o == evaluateNodes(c, few)
           v == evaluateNodes(c, many)
<1>1. /\ m[r].candidate <=> /\ o[1].matched
                            /\ countEvidenceGroups(o[1].evidence) >= rs[r].minimumEvidence
      /\ m[r].positive = o[1].evidence /\ o[1].evidence \subseteq predicates(c)
      /\ m[r].negative = matchEvidenceList(rs[r].penalties, few)
  BY MatchFacts
<1>2. /\ w[r].candidate <=> /\ v[1].matched
                            /\ countEvidenceGroups(v[1].evidence) >= rs[r].minimumEvidence
      /\ w[r].positive = v[1].evidence /\ v[1].evidence \subseteq predicates(c)
      /\ w[r].negative = matchEvidenceList(rs[r].penalties, many)
  BY MatchFacts
<1>3. /\ IsCondition(c) /\ 1 \in DOMAIN c
      /\ IsFiniteSet(predicates(c)) /\ Weighted(predicates(c)) /\ rs[r].minimumEvidence \in Int
  BY RuleFacts
<1>4. m[r].negative \subseteq w[r].negative
  BY <1>1, <1>2 DEF matchEvidenceList, strongestMatch
<1>5. ASSUME o[1].matched PROVE v[1].matched /\ o[1].evidence \subseteq v[1].evidence
  <2> HIDE DEF c
  <2> QED
    BY <1>3, <1>5, MatchMonotone
<1> DEFINE E == o[1].evidence
           F == v[1].evidence
<1>6. ASSUME E \subseteq F
      PROVE  /\ scorePositive(E) \in Nat /\ scorePositive(F) \in Nat
             /\ scorePositive(E) <= scorePositive(F)
             /\ countEvidenceGroups(E) \in Nat /\ countEvidenceGroups(F) \in Nat
             /\ countEvidenceGroups(E) <= countEvidenceGroups(F)
  <2>1. F \subseteq predicates(c)
    BY <1>2
  <2> HIDE DEF E, F, c
  <2>2. IsFiniteSet(F)
    BY <1>3, <2>1, FS_Subset
  <2>3. Weighted(F)
    BY <1>3, <2>1 DEF Weighted
  <2> QED
    BY <1>6, <2>2, <2>3, PositiveMonotone
<1>7. ASSUME m[r].candidate
      PROVE  /\ w[r].candidate
             /\ m[r].positive \subseteq w[r].positive
             /\ scorePositive(m[r].positive) \in Nat /\ scorePositive(w[r].positive) \in Nat
             /\ scorePositive(m[r].positive) <= scorePositive(w[r].positive)
  <2>1. v[1].matched /\ E \subseteq F /\ countEvidenceGroups(E) >= rs[r].minimumEvidence
    BY <1>1, <1>5, <1>7
  <2>2. m[r].positive = E /\ w[r].positive = F
    BY <1>1, <1>2
  <2>3. w[r].candidate <=> v[1].matched /\ countEvidenceGroups(F) >= rs[r].minimumEvidence
    BY <1>2
  <2> HIDE DEF E, F, v
  <2> QED
    BY <1>3, <1>6, <2>1, <2>2, <2>3
<1> QED
  BY <1>4, <1>7

(* Conflicts that apply stay applied. *)
LEMMA ConflictsStay ==
  ASSUME NEW rs, Validate(rs), NEW r \in DOMAIN rs, NEW few, NEW many, few \subseteq many,
         NEW m, m = matchRules(rs, few), NEW w, w = matchRules(rs, many)
  PROVE  appliedConflicts(m, rs, r) \subseteq appliedConflicts(w, rs, r)
<1> SUFFICES ASSUME NEW c \in appliedConflicts(m, rs, r)
             PROVE  c \in appliedConflicts(w, rs, r)
  OBVIOUS
<1>1. /\ c \in rs[r].conflicts /\ m[r].candidate /\ m[c.rule].candidate
      /\ scorePositive(m[c.rule].positive) > 0
  BY DEF appliedConflicts
<1>2. c.rule \in DOMAIN rs
  BY <1>1, RuleFacts
<1>3. w[r].candidate
  BY <1>1, CandidatesMonotone
<1>4. /\ w[c.rule].candidate
      /\ scorePositive(m[c.rule].positive) \in Nat /\ scorePositive(w[c.rule].positive) \in Nat
      /\ scorePositive(m[c.rule].positive) <= scorePositive(w[c.rule].positive)
  BY <1>1, <1>2, CandidatesMonotone
<1> QED
  BY <1>1, <1>3, <1>4 DEF appliedConflicts

(* Eligibility: own thresholds and those of all prerequisites. *)
LEMMA EligibleFacts ==
  ASSUME NEW rs, Validate(rs), NEW m, NEW ok, ok = eligible(m, rs)
  PROVE  /\ ok \in [DOMAIN rs -> BOOLEAN]
         /\ \A r \in DOMAIN rs :
              ok[r] <=> qualifies(m, rs, r) /\ \A d \in rs[r].requires : ok[d]
<1> DEFINE D == DOMAIN rs
           deps == requiresOf(rs)
           reached(r, f) == qualifies(m, rs, r) /\ \A d \in rs[r].requires : f[d]
           step == [xf \in D \X [D -> BOOLEAN] |-> IF reached(xf[1], xf[2]) THEN TRUE ELSE FALSE]
<1>1. /\ IsFiniteSet(D) /\ deps \in [D -> SUBSET D] /\ Acyclic(D, deps)
      /\ \A r \in D : deps[r] = rs[r].requires
  BY RequiresAcyclic DEF requiresOf
<1>2. ASSUME NEW r \in D, NEW f \in [D -> BOOLEAN]
      PROVE  step[<<r, f>>] = IF reached(r, f) THEN TRUE ELSE FALSE
  <2> HIDE DEF reached
  <2> QED
    OBVIOUS
<1>3. ASSUME NEW r \in D, NEW f \in [D -> BOOLEAN], NEW g \in [D -> BOOLEAN],
             \A d \in deps[r] : f[d] = g[d]
      PROVE  step[<<r, f>>] = step[<<r, g>>]
  <2>1. reached(r, f) <=> reached(r, g)
    BY <1>1, <1>3
  <2> HIDE DEF reached, step
  <2> QED
    BY <1>2, <2>1
<1>4. \A r \in D : \A f \in [D -> BOOLEAN] : step[<<r, f>>] \in BOOLEAN
  <2> HIDE DEF reached, step
  <2> QED
    BY <1>2
<1>5. PICK f \in [D -> BOOLEAN] : \A r \in D : f[r] = step[<<r, f>>]
  <2> DEFINE V == BOOLEAN
  <2>1. IsStep(D, deps, V, step)
    BY <1>3, <1>4 DEF IsStep
  <2>2. PICK v \in V : TRUE
    OBVIOUS
  <2>3. \E f \in [D -> V] : \A r \in D : f[r] = step[<<r, f>>]
    <3> HIDE DEF D, V, step, deps
    <3> QED
      BY <1>1, <2>1, <2>2, FiniteRecursion
  <2> QED
    BY <2>3
<1>6. f = [r \in DOMAIN rs |-> qualifies(m, rs, r) /\ \A d \in rs[r].requires : f[d]]
  <2>1. \A r \in D : f[r] = reached(r, f)
    <3> HIDE DEF reached, step
    <3>1. \A r \in D : f[r] \in BOOLEAN /\ f[r] = IF reached(r, f) THEN TRUE ELSE FALSE
      BY <1>2, <1>5
    <3> QED
      BY <3>1 DEF reached
  <2> QED
    BY <2>1
<1>7. ok = [r \in DOMAIN rs |-> qualifies(m, rs, r) /\ \A d \in rs[r].requires : ok[d]]
  BY <1>6 DEF eligible
<1> QED
  BY <1>7

-----------------------------------------------------------------------------
(*                       Coverage of the rules                             *)

(* What a status may say. *)
Statuses == [status : {"detected", "not_detected", "insufficient_coverage"},
             incomplete : SUBSET Sources, required : SUBSET Sources]

ownCoverage(rs, dets, conditions, r) ==
  EvaluateRuleCoverage(rs[r], conditions[r], observedPenalties(dets[r]))

(* Own coverage names no source unless it is unknown. *)
LEMMA OwnFacts ==
  ASSUME NEW rs, NEW dets, NEW conditions, NEW r, NEW own, own = ownCoverage(rs, dets, conditions, r)
  PROVE  /\ own.state \in {"unknown", "not_matched"}
         /\ own.state = "unknown" => own.incomplete = UNION {p.incomplete : p \in conditions[r].potential}
         /\ own.state = "not_matched" => own.incomplete = {}
BY DEF ownCoverage, EvaluateRuleCoverage

(* Conditions whose sources are sources of the pipeline. *)
Covered(rs, conditions) ==
  \A r \in DOMAIN rs : /\ conditions[r].required \subseteq Sources
                       /\ \A p \in conditions[r].potential : p.incomplete \subseteq Sources

(* The status of a rule, field by field, is made of its prerequisites'. *)
StatusOf(rs, dets, conditions, r, given, status) ==
  LET own == ownCoverage(rs, dets, conditions, r)
  IN /\ dets[r].detected => status.status = "detected" /\ status.incomplete = {}
     /\ ~ dets[r].detected =>
          /\ status.required = conditions[r].required
                                 \cup UNION {given[d].required : d \in rs[r].requires}
          /\ status.status = "not_detected" <=>
               \/ own.state = "not_matched"
               \/ \E d \in rs[r].requires : given[d].status = "not_detected"
          /\ status.status = "not_detected" => status.incomplete = {}
          /\ status.status # "not_detected" =>
               /\ status.status = "insufficient_coverage"
               /\ status.incomplete = own.incomplete
                                        \cup UNION {given[d].incomplete : d \in rs[r].requires}

(* evalRule makes a status of those of the prerequisites. *)
LEMMA StatusFacts ==
  ASSUME NEW rs, NEW dets, NEW conditions, NEW r \in DOMAIN rs, Covered(rs, conditions),
         NEW given, DOMAIN given = rs[r].requires,
         NEW status, status = evalRule(rs[r], dets[r], conditions[r], given)
  PROVE  /\ StatusOf(rs, dets, conditions, r, given, status)
         /\ (\A d \in rs[r].requires : given[d] \in Statuses) => status \in Statuses
<1> DEFINE own == ownCoverage(rs, dets, conditions, r)
           required == conditions[r].required \cup UNION {given[d].required : d \in rs[r].requires}
           incomplete == own.incomplete \cup UNION {given[d].incomplete : d \in rs[r].requires}
           hopeless == \/ own.state = "not_matched"
                       \/ \E d \in rs[r].requires : given[d].status = "not_detected"
<1>1. own = EvaluateRuleCoverage(rs[r], conditions[r], observedPenalties(dets[r]))
  BY DEF ownCoverage
<1>2. combinedIncomplete(own, given) = incomplete
  BY DEF combinedIncomplete
<1>3. \/ /\ dets[r].detected
         /\ status = [status |-> "detected", incomplete |-> {}, required |-> conditions[r].required]
      \/ /\ ~ dets[r].detected /\ hopeless
         /\ status = [status |-> "not_detected", incomplete |-> {}, required |-> required]
      \/ /\ ~ dets[r].detected /\ ~ hopeless
         /\ status = [status |-> "insufficient_coverage", required |-> required,
                      incomplete |-> incomplete]
  <2> HIDE DEF own, incomplete
  <2> QED
    BY <1>1, <1>2 DEF evalRule
<1>4. own.state \in {"unknown", "not_matched"} /\ own.incomplete \subseteq Sources
  <2>1. /\ own.state \in {"unknown", "not_matched"}
        /\ own.state = "unknown" => own.incomplete = UNION {p.incomplete : p \in conditions[r].potential}
        /\ own.state = "not_matched" => own.incomplete = {}
    BY OwnFacts
  <2>2. UNION {p.incomplete : p \in conditions[r].potential} \subseteq Sources
    BY DEF Covered
  <2> HIDE DEF own
  <2> QED
    BY <2>1, <2>2
<1>5. StatusOf(rs, dets, conditions, r, given, status)
  <2> HIDE DEF own, required, incomplete, hopeless
  <2>1. /\ dets[r].detected => status.status = "detected" /\ status.incomplete = {}
        /\ ~ dets[r].detected =>
             /\ status.required = required
             /\ status.status = "not_detected" <=> hopeless
             /\ status.status = "not_detected" => status.incomplete = {}
             /\ status.status # "not_detected" =>
                  status.status = "insufficient_coverage" /\ status.incomplete = incomplete
    BY <1>3
  <2> QED
    BY <2>1 DEF StatusOf, own, required, incomplete, hopeless
<1>6. ASSUME \A d \in rs[r].requires : given[d] \in Statuses
      PROVE  status \in Statuses
  <2>1. \A d \in rs[r].requires : given[d].required \subseteq Sources /\ given[d].incomplete \subseteq Sources
    BY <1>6 DEF Statuses
  <2>2. conditions[r].required \subseteq Sources
    BY DEF Covered
  <2>3. required \subseteq Sources /\ incomplete \subseteq Sources
    <3> HIDE DEF own
    <3> QED
      BY <1>4, <2>1, <2>2
  <2> HIDE DEF required, incomplete, hopeless
  <2>4. [status |-> "detected", incomplete |-> {}, required |-> conditions[r].required] \in Statuses
    BY <2>2 DEF Statuses
  <2>5. [status |-> "not_detected", incomplete |-> {}, required |-> required] \in Statuses
    BY <2>3 DEF Statuses
  <2>6. [status |-> "insufficient_coverage", required |-> required, incomplete |-> incomplete] \in Statuses
    BY <2>3 DEF Statuses
  <2> QED
    BY <1>3, <2>4, <2>5, <2>6
<1> QED
  BY <1>5, <1>6

(* evalRules gives each rule the status its prerequisites make. *)
LEMMA RuleStatuses ==
  ASSUME NEW rs, Validate(rs), NEW dets, NEW conditions, Covered(rs, conditions),
         NEW s, s = evalRules(rs, dets, conditions)
  PROVE  /\ s \in [DOMAIN rs -> Statuses]
         /\ \A r \in DOMAIN rs : StatusOf(rs, dets, conditions, r, s, s[r])
<1> DEFINE D == DOMAIN rs
           V == Statuses
           deps == requiresOf(rs)
           given(r, f) == [d \in rs[r].requires |-> f[d]]
           make(r, f) == evalRule(rs[r], dets[r], conditions[r], given(r, f))
           step == [xf \in D \X [D -> V] |-> make(xf[1], xf[2])]
<1>1. /\ IsFiniteSet(D) /\ deps \in [D -> SUBSET D] /\ Acyclic(D, deps)
      /\ \A r \in D : deps[r] = rs[r].requires
  BY RequiresAcyclic DEF requiresOf
<1>2. ASSUME NEW r \in D, NEW f, \A d \in rs[r].requires : f[d] \in V
      PROVE  make(r, f) \in V
  <2>1. /\ DOMAIN given(r, f) = rs[r].requires
        /\ \A d \in rs[r].requires : given(r, f)[d] \in V
    BY <1>2
  <2> HIDE DEF given, V
  <2> QED
    BY <2>1, StatusFacts DEF V
<1>3. ASSUME NEW r \in D, NEW f \in [D -> V]
      PROVE  step[<<r, f>>] = make(r, f) /\ step[<<r, f>>] \in V
  <2>1. step[<<r, f>>] = make(r, f)
    <3> HIDE DEF make, V
    <3> QED
      OBVIOUS
  <2>2. \A d \in rs[r].requires : f[d] \in V
    <3> HIDE DEF V, deps
    <3> QED
      BY <1>1
  <2> HIDE DEF make, V, step
  <2> QED
    BY <1>2, <2>1, <2>2
<1>4. ASSUME NEW r \in D, NEW f \in [D -> V], NEW g \in [D -> V],
             \A d \in deps[r] : f[d] = g[d]
      PROVE  step[<<r, f>>] = step[<<r, g>>]
  <2>1. given(r, f) = given(r, g)
    BY <1>1, <1>4
  <2>2. make(r, f) = make(r, g)
    BY <2>1
  <2> HIDE DEF make, V, step
  <2> QED
    BY <1>3, <2>2
<1>5. PICK f \in [D -> V] : \A r \in D : f[r] = step[<<r, f>>]
  <2>1. IsStep(D, deps, V, step)
    BY <1>3, <1>4 DEF IsStep
  <2>2. PICK v \in V : TRUE
    <3>1. {} \subseteq Sources
      OBVIOUS
    <3>2. [status |-> "detected", incomplete |-> {}, required |-> {}] \in Statuses
      BY <3>1 DEF Statuses
    <3> QED
      BY <3>2
  <2> HIDE DEF D, V, step, deps
  <2> QED
    BY <1>1, <2>1, <2>2, FiniteRecursion
<1>6. f = [r \in DOMAIN rs |-> make(r, f)]
  <2>1. \A r \in D : f[r] = make(r, f)
    <3> HIDE DEF step, V, make
    <3> QED
      BY <1>3, <1>5
  <2> HIDE DEF step, V, make
  <2> QED
    BY <2>1
<1>7. s = [r \in DOMAIN rs |-> make(r, s)]
  BY <1>6 DEF evalRules
<1>8. \A r \in D : s[r] = make(r, s)
  <2> HIDE DEF make
  <2> QED
    BY <1>7
<1>9. s \in [D -> V]
  <2> DEFINE bad == {r \in D : s[r] \notin V}
  <2>1. bad = {}
    <3> SUFFICES ASSUME bad # {} PROVE FALSE
      OBVIOUS
    <3>1. PICK r \in bad : deps[r] \cap bad = {}
      <4> HIDE DEF deps, V
      <4> QED
        BY <1>1 DEF Acyclic
    <3>2. \A d \in rs[r].requires : s[d] \in V
      <4> HIDE DEF deps, V
      <4> QED
        BY <1>1, <3>1
    <3> HIDE DEF V, make, deps
    <3> QED
      BY <1>2, <1>8, <3>1, <3>2
  <2>2. \A r \in D : s[r] \in V
    BY <2>1
  <2>3. DOMAIN s = D /\ s = [r \in D |-> s[r]]
    <3> HIDE DEF make
    <3> QED
      BY <1>7
  <2> HIDE DEF V
  <2> QED
    BY <2>2, <2>3
<1>10. ASSUME NEW r \in DOMAIN rs
       PROVE  StatusOf(rs, dets, conditions, r, s, s[r])
  <2> DEFINE now == given(r, s)
  <2>1. s[r] = evalRule(rs[r], dets[r], conditions[r], now)
    BY <1>8
  <2>2. DOMAIN now = rs[r].requires /\ \A d \in rs[r].requires : now[d] = s[d]
    OBVIOUS
  <2> HIDE DEF now
  <2>3. StatusOf(rs, dets, conditions, r, now, s[r])
    BY <2>1, <2>2, StatusFacts
  <2>4. /\ {now[d].required : d \in rs[r].requires} = {s[d].required : d \in rs[r].requires}
        /\ {now[d].incomplete : d \in rs[r].requires} = {s[d].incomplete : d \in rs[r].requires}
        /\ (\E d \in rs[r].requires : now[d].status = "not_detected")
             <=> \E d \in rs[r].requires : s[d].status = "not_detected"
    BY <2>2
  <2> QED
    BY <2>3, <2>4 DEF StatusOf
<1> QED
  BY <1>9, <1>10

(* The coverage of the conditions, and the detections, field by field. *)
LEMMA ConditionFacts ==
  ASSUME NEW rs, Validate(rs), NEW sigs, NEW complete,
         NEW conditions, conditions = coverConditions(rs, sigs, complete)
  PROVE  /\ Covered(rs, conditions)
         /\ \A r \in DOMAIN rs : conditions[r] = coverNodes(rs[r].match, sigs, complete)[1]
<1>1. \A r \in DOMAIN rs : conditions[r] = coverNodes(rs[r].match, sigs, complete)[1]
  BY DEF coverConditions, EvaluateConditionCoverage
<1>2. ASSUME NEW r \in DOMAIN rs
      PROVE  /\ conditions[r].required \subseteq Sources
             /\ \A p \in conditions[r].potential : p.incomplete \subseteq Sources
  <2> DEFINE c == rs[r].match
             o == coverNodes(c, sigs, complete)
  <2>1. IsCondition(c) /\ 1 \in DOMAIN c
    BY RuleFacts
  <2> HIDE DEF c
  <2>2. o \in [DOMAIN c -> Coverages(c)]
    BY <2>1, NodeCoverages
  <2>3. o[1] \in Coverages(c)
    BY <2>1, <2>2
  <2>4. conditions[r] = o[1]
    BY <1>1 DEF c
  <2> HIDE DEF o
  <2>5. o[1].required \subseteq Sources /\ o[1].potential \subseteq Potentials(c)
    BY <2>3 DEF Coverages
  <2> QED
    BY <2>4, <2>5 DEF Potentials
<1> QED
  BY <1>1, <1>2 DEF Covered

(* What a detection keeps of the match and its score. *)
LEMMA DetectionFacts ==
  ASSUME NEW rs, NEW r \in DOMAIN rs, NEW sigs, NEW dets, dets = scoreMatches(rs, sigs),
         NEW m, m = matchRules(rs, sigs)
  PROVE  /\ dets[r].detected = eligible(m, rs)[r]
         /\ dets[r].negative = m[r].negative
         /\ dets[r].conflicts = appliedConflicts(m, rs, r)
BY DEF scoreMatches

(* What a rule that qualifies scores. *)
LEMMA QualifiesFacts ==
  ASSUME NEW rs, NEW r, NEW m
  PROVE  qualifies(m, rs, r) <=>
           /\ m[r].candidate
           /\ clamp(scorePositive(m[r].positive) - totalWeight(m[r].negative)
                      - totalPenalty(appliedConflicts(m, rs, r))) >= rs[r].minimumScore
<1>1. m[r].candidate => evidenceScore(m, rs, r) =
        clamp(scorePositive(m[r].positive) - totalWeight(m[r].negative)
                - totalPenalty(appliedConflicts(m, rs, r)))
  BY DEF evidenceScore
<1> QED
  BY <1>1 DEF qualifies

(* A rule that qualifies on all there is to see is not hopeless. *)
LEMMA OwnIsSound ==
  ASSUME NEW rs, Validate(rs), NEW r \in DOMAIN rs, NEW few, NEW many \in SUBSET Signals,
         few \subseteq many, NEW complete,
         MissesNothing(complete, few, many),
         NEW dets, dets = scoreMatches(rs, few),
         NEW conditions, conditions = coverConditions(rs, few, complete),
         NEW w, w = matchRules(rs, many), qualifies(w, rs, r)
  PROVE  ownCoverage(rs, dets, conditions, r).state = "unknown"
<1> DEFINE c == rs[r].match
           cover == coverNodes(c, few, complete)
           v == evaluateNodes(c, many)
           m == matchRules(rs, few)
           possible == {p.evidence : p \in conditions[r].potential}
           positive == w[r].positive
           applied == appliedConflicts(w, rs, r)
           observed == appliedConflicts(m, rs, r)
<1>1. /\ IsCondition(c) /\ 1 \in DOMAIN c
      /\ IsFiniteSet(predicates(c)) /\ Weighted(predicates(c))
      /\ IsFiniteSet(rs[r].penalties) /\ Weighted(rs[r].penalties)
      /\ IsFiniteSet(rs[r].conflicts) /\ \A k \in rs[r].conflicts : k.penalty \in 1..100
      /\ rs[r].minimumScore \in Int /\ rs[r].minimumEvidence \in Int
  BY RuleFacts
<1>2. w[r].candidate /\ clamp(scorePositive(positive) - totalWeight(w[r].negative)
                                - totalPenalty(applied)) >= rs[r].minimumScore
  BY QualifiesFacts
<1>3. /\ v[1].matched /\ positive = v[1].evidence
      /\ countEvidenceGroups(positive) >= rs[r].minimumEvidence
      /\ w[r].negative \subseteq rs[r].penalties
  BY <1>2, MatchFacts
<1>4. conditions[r] = cover[1]
  BY ConditionFacts
<1>5. conditions[r].state # "not_matched" /\ positive \subseteq possible
  <2> HIDE DEF c
  <2>1. IsCondition(c) /\ evaluateNodes(c, many)[1].matched
    BY <1>1, <1>3
  <2>2. cover[1].state # "not_matched"
    BY <2>1, RootIsSound
  <2>3. ASSUME NEW e \in v[1].evidence PROVE \E p \in cover[1].potential : p.evidence = e
    BY <2>1, RootIsSound
  <2> HIDE DEF cover, v
  <2> QED
    BY <1>3, <1>4, <2>2, <2>3
<1>6. possible \subseteq predicates(c)
  <2> HIDE DEF c
  <2>1. \A p \in cover[1].potential : p.evidence \in predicates(c)
    BY <1>1, PotentialFacts
  <2> HIDE DEF cover
  <2> QED
    BY <1>4, <2>1
<1>7. /\ upperBoundScore(possible) \in Nat /\ scorePositive(positive) \in Nat
      /\ scorePositive(positive) <= upperBoundScore(possible)
      /\ countEvidenceGroups(positive) \in Nat /\ upperBoundGroups(possible) \in Nat
      /\ countEvidenceGroups(positive) <= upperBoundGroups(possible)
  <2> HIDE DEF possible, positive, c
  <2>1. IsFiniteSet(possible)
    BY <1>1, <1>6, FS_Subset
  <2>2. Weighted(possible)
    BY <1>1, <1>6 DEF Weighted
  <2> QED
    BY <1>5, <2>1, <2>2, BoundIsAbove
<1>8. /\ totalWeight(m[r].negative) \in Nat /\ totalWeight(w[r].negative) \in Nat
      /\ totalWeight(m[r].negative) <= totalWeight(w[r].negative)
  <2>1. m[r].negative \subseteq w[r].negative
    BY CandidatesMonotone
  <2> HIDE DEF m
  <2>2. IsFiniteSet(w[r].negative)
    BY <1>1, <1>3, FS_Subset
  <2>3. Weighted(w[r].negative)
    BY <1>1, <1>3 DEF Weighted
  <2> QED
    BY <2>1, <2>2, <2>3, PenaltiesMonotone
<1>9. /\ totalPenalty(observed) \in Nat /\ totalPenalty(applied) \in Nat
      /\ totalPenalty(observed) <= totalPenalty(applied)
  <2>1. observed \subseteq applied
    BY ConflictsStay
  <2>2. applied \subseteq rs[r].conflicts
    BY DEF appliedConflicts
  <2> HIDE DEF observed, applied
  <2>3. IsFiniteSet(applied)
    BY <1>1, <2>2, FS_Subset
  <2>4. \A k \in applied : k.penalty \in 1..100
    BY <1>1, <2>2
  <2> QED
    BY <2>1, <2>3, <2>4, ConflictsMonotone
<1>10. observedPenalties(dets[r]) = totalWeight(m[r].negative) + totalPenalty(observed)
  <2>1. dets[r].negative = m[r].negative /\ dets[r].conflicts = observed
    BY DetectionFacts
  <2> HIDE DEF observed, m
  <2> QED
    BY <2>1 DEF observedPenalties
<1>11. clamp(upperBoundScore(possible) - observedPenalties(dets[r])) >= rs[r].minimumScore
  <2> HIDE DEF possible, positive, applied, observed, m
  <2> DEFINE p == scorePositive(positive)
             q == upperBoundScore(possible)
             n == totalWeight(w[r].negative)
             k == totalWeight(m[r].negative)
             t == totalPenalty(applied)
             u == totalPenalty(observed)
             least == rs[r].minimumScore
  <2>1. clamp(q - k - u) >= least
    <3>1. p \in Nat /\ q \in Nat /\ p <= q /\ n \in Nat /\ k \in Nat /\ k <= n
      BY <1>7, <1>8
    <3>2. t \in Nat /\ u \in Nat /\ u <= t /\ least \in Int /\ clamp(p - n - t) >= least
      BY <1>1, <1>2, <1>9
    <3> HIDE DEF p, q, n, k, t, u, least
    <3> DEFINE low == p - n - t
               high == q - k - u
    <3>3. low \in Int /\ high \in Int /\ low <= high
      BY <3>1, <3>2
    <3>4. clamp(low) >= least
      BY <3>2
    <3> HIDE DEF low, high
    <3>5. clamp(low) <= clamp(high) /\ clamp(low) \in Int /\ clamp(high) \in Int
      BY <3>3, ClampMonotone
    <3>6. clamp(high) >= least
      BY <3>2, <3>4, <3>5
    <3> QED
      BY <3>6 DEF high
  <2>2. upperBoundScore(possible) - observedPenalties(dets[r])
          = upperBoundScore(possible) - totalWeight(m[r].negative) - totalPenalty(observed)
    BY <1>7, <1>8, <1>9, <1>10
  <2> QED
    BY <2>1, <2>2
<1>12. upperBoundGroups(possible) >= rs[r].minimumEvidence
  <2> HIDE DEF possible, positive
  <2> QED
    BY <1>1, <1>3, <1>7
<1> QED
  BY <1>5, <1>11, <1>12 DEF ownCoverage, EvaluateRuleCoverage

(* A rule reported not_detected is not detected on all there is to see. *)
LEMMA NotDetectedIsSound ==
  ASSUME NEW rs, Validate(rs), NEW few, NEW many \in SUBSET Signals, few \subseteq many,
         NEW complete, MissesNothing(complete, few, many),
         NEW dets, dets = scoreMatches(rs, few),
         NEW conditions, conditions = coverConditions(rs, few, complete),
         NEW s, s = evalRules(rs, dets, conditions),
         NEW n \in DOMAIN rs, s[n].status = "not_detected"
  PROVE  ~ scoreMatches(rs, many)[n].detected
<1> DEFINE w == matchRules(rs, many)
           ok == eligible(w, rs)
           bad == {r \in DOMAIN rs : s[r].status = "not_detected" /\ ok[r]}
<1>1. \A r \in DOMAIN rs : ok[r] <=> qualifies(w, rs, r) /\ \A d \in rs[r].requires : ok[d]
  BY EligibleFacts
<1>2. \A r \in DOMAIN rs : StatusOf(rs, dets, conditions, r, s, s[r])
  BY ConditionFacts, RuleStatuses
<1>3. bad = {}
  <2> SUFFICES ASSUME bad # {} PROVE FALSE
    OBVIOUS
  <2>1. PICK r \in bad : rs[r].requires \cap bad = {}
    <3>1. bad \in SUBSET DOMAIN rs
      OBVIOUS
    <3> HIDE DEF bad
    <3> QED
      BY <3>1, MinimalRule
  <2>2. r \in DOMAIN rs /\ s[r].status = "not_detected" /\ ok[r]
    OBVIOUS
  <2> HIDE DEF ok, w
  <2>3. qualifies(w, rs, r) /\ \A d \in rs[r].requires : ok[d]
    BY <1>1, <2>2
  <2>4. rs[r].requires \subseteq DOMAIN rs
    BY <2>2, RuleFacts
  <2>5. ownCoverage(rs, dets, conditions, r).state = "unknown"
    BY <2>2, <2>3, OwnIsSound DEF w
  <2>6. StatusOf(rs, dets, conditions, r, s, s[r])
    BY <1>2, <2>2
  <2>7. \E d \in rs[r].requires : s[d].status = "not_detected"
    BY <2>2, <2>5, <2>6 DEF StatusOf
  <2> QED
    BY <2>1, <2>3, <2>4, <2>7
<1>4. ~ ok[n]
  BY <1>3
<1>5. scoreMatches(rs, many)[n].detected = ok[n]
  BY DetectionFacts
<1> QED
  BY <1>4, <1>5

-----------------------------------------------------------------------------
(*                Rules set without its conflicts, more signals            *)

(* The rule set without conflicts differs in them alone. *)
LEMMA UnopposedFields ==
  ASSUME NEW rs, NEW u, u = Unopposed(rs)
  PROVE  /\ DOMAIN u = DOMAIN rs
         /\ \A r \in DOMAIN rs :
              /\ u[r].match = rs[r].match /\ u[r].minimumScore = rs[r].minimumScore
              /\ u[r].minimumEvidence = rs[r].minimumEvidence
              /\ u[r].penalties = rs[r].penalties
              /\ u[r].requires = rs[r].requires /\ u[r].conflicts = {}
BY DEF Unopposed

(* A rule stays valid without its conflicts. *)
LEMMA SameRuleValid ==
  ASSUME NEW a, NEW b, validateRule(a), b.match = a.match, b.minimumScore = a.minimumScore,
         b.minimumEvidence = a.minimumEvidence, b.penalties = a.penalties, b.conflicts = {}
  PROVE  validateRule(b)
<1>1. /\ a.minimumScore \in 25..100 /\ validateCondition(a.match)
      /\ a.minimumEvidence \in 1..Cardinality({evidenceGroup(e) : e \in predicates(a.match)})
      /\ IsFiniteSet(a.penalties)
  BY DEF validateRule
<1>2. /\ \A e \in a.penalties : /\ validatePenaltyEvidence(e)
                               /\ \A f \in predicates(a.match) : e.id # f.id
      /\ \A e, f \in a.penalties : e.id = f.id => e = f
  BY DEF validateRule
<1>3. IsFiniteSet(b.conflicts) /\ \A c \in b.conflicts : c.penalty \in 1..100
  BY FS_EmptySet
<1>4. /\ b.minimumScore \in 25..100 /\ validateCondition(b.match)
      /\ b.minimumEvidence \in 1..Cardinality({evidenceGroup(e) : e \in predicates(b.match)})
      /\ IsFiniteSet(b.penalties)
  BY <1>1
<1>5. /\ \A e \in b.penalties : /\ validatePenaltyEvidence(e)
                               /\ \A f \in predicates(b.match) : e.id # f.id
      /\ \A e, f \in b.penalties : e.id = f.id => e = f
  BY <1>2
<1> QED
  BY <1>3, <1>4, <1>5 DEF validateRule

(* So does the set. *)
LEMMA UnopposedValid ==
  ASSUME NEW rs, Validate(rs), NEW u, u = Unopposed(rs)
  PROVE  Validate(u)
<1>1. /\ DOMAIN u = DOMAIN rs
      /\ \A r \in DOMAIN rs :
           /\ u[r].match = rs[r].match /\ u[r].minimumScore = rs[r].minimumScore
           /\ u[r].minimumEvidence = rs[r].minimumEvidence
           /\ u[r].penalties = rs[r].penalties
           /\ u[r].requires = rs[r].requires /\ u[r].conflicts = {}
  BY UnopposedFields
<1>2. DOMAIN u # {} /\ IsFiniteSet(DOMAIN u)
  BY <1>1 DEF Validate
<1>3. ASSUME NEW r \in DOMAIN u
      PROVE  /\ validateRule(u[r]) /\ u[r].requires \subseteq DOMAIN u \ {r}
             /\ \A c \in u[r].conflicts : c.rule \in DOMAIN u \ ({r} \cup u[r].requires)
             /\ \A c, d \in u[r].conflicts : c.rule = d.rule => c = d
  <2>1. validateRule(rs[r]) /\ rs[r].requires \subseteq DOMAIN rs \ {r}
    BY <1>1 DEF Validate
  <2>3. validateRule(u[r])
    <3> DEFINE a == rs[r]
               b == u[r]
    <3>1. /\ validateRule(a) /\ b.match = a.match /\ b.minimumScore = a.minimumScore
          /\ b.minimumEvidence = a.minimumEvidence /\ b.penalties = a.penalties
          /\ b.conflicts = {}
      BY <1>1, <2>1
    <3> HIDE DEF a, b
    <3>2. validateRule(b)
      BY <3>1, SameRuleValid
    <3> QED
      BY <3>2 DEF b
  <2> QED
    BY <1>1, <2>1, <2>3
<1>4. validateDependencyGraph(u)
  <2>1. validateDependencyGraph(rs)
    BY DEF Validate
  <2> QED
    BY <1>1, <2>1 DEF validateDependencyGraph
<1> QED
  BY <1>2, <1>3, <1>4 DEF Validate

(* Leaving conflicts out changes no match. *)
LEMMA UnopposedMatches ==
  ASSUME NEW rs, NEW r \in DOMAIN rs, NEW sigs
  PROVE  matchRules(Unopposed(rs), sigs)[r] = matchRules(rs, sigs)[r]
<1> DEFINE u == Unopposed(rs)
<1>1. /\ DOMAIN u = DOMAIN rs /\ u[r].match = rs[r].match
      /\ u[r].minimumEvidence = rs[r].minimumEvidence /\ u[r].penalties = rs[r].penalties
  BY UnopposedFields
<1> HIDE DEF u
<1>2. matchRules(u, sigs)[r] = Match(u[r], sigs) /\ matchRules(rs, sigs)[r] = Match(rs[r], sigs)
  BY <1>1 DEF matchRules
<1>3. Match(u[r], sigs) = Match(rs[r], sigs)
  BY <1>1 DEF Match
<1> QED
  BY <1>2, <1>3 DEF u

(* The signals more match no penalty of a rule that few do not. *)
NoNewPenalty(rs, few, more) ==
  \A r \in DOMAIN rs : \A e \in rs[r].penalties :
    strongestMatch(e, few \cup more) => strongestMatch(e, few)

(* Without conflicts, a candidate with no less positive evidence qualifies *)
(* where the score without more evidence would.                            *)
LEMMA UnopposedQualifies ==
  ASSUME NEW rs, Validate(rs), NEW r \in DOMAIN rs, NEW few, NEW more,
         NoNewPenalty(rs, few, more),
         NEW m, m = matchRules(rs, few), NEW w, w = matchRules(Unopposed(rs), few \cup more),
         w[r].candidate, NEW p \in Nat, p <= scorePositive(w[r].positive),
         scorePositive(w[r].positive) \in Nat,
         clamp(p - totalWeight(m[r].negative) - totalPenalty(appliedConflicts(m, rs, r)))
           >= rs[r].minimumScore
  PROVE  qualifies(w, Unopposed(rs), r)
<1> DEFINE u == Unopposed(rs)
           v == matchRules(rs, few \cup more)
           q == scorePositive(w[r].positive)
           n == totalWeight(m[r].negative)
           t == totalPenalty(appliedConflicts(m, rs, r))
           none == totalPenalty(appliedConflicts(w, u, r))
           least == rs[r].minimumScore
<1>1. u[r].conflicts = {} /\ u[r].minimumScore = least /\ w[r] = v[r]
  BY UnopposedFields, UnopposedMatches
<1>2. w[r].negative = m[r].negative /\ m[r].negative \subseteq rs[r].penalties
  <2>1. /\ v[r].negative = matchEvidenceList(rs[r].penalties, few \cup more)
        /\ m[r].negative = matchEvidenceList(rs[r].penalties, few)
    BY MatchFacts
  <2>2. \A e \in rs[r].penalties : strongestMatch(e, few \cup more) <=> strongestMatch(e, few)
    BY DEF NoNewPenalty, strongestMatch
  <2> HIDE DEF v
  <2> QED
    BY <1>1, <2>1, <2>2 DEF matchEvidenceList
<1>3. n \in Nat
  <2>1. IsFiniteSet(rs[r].penalties) /\ Weighted(rs[r].penalties)
    BY RuleFacts
  <2> QED
    BY <1>2, <2>1, PenaltiesMonotone
<1>4. none \in Nat /\ t \in Nat /\ none <= t
  <2> DEFINE E == appliedConflicts(w, u, r)
             F == appliedConflicts(m, rs, r)
  <2>1. E = {}
    BY <1>1 DEF appliedConflicts
  <2>2. F \subseteq rs[r].conflicts
    BY DEF appliedConflicts
  <2>3. IsFiniteSet(rs[r].conflicts) /\ \A c \in rs[r].conflicts : c.penalty \in 1..100
    BY RuleFacts
  <2> HIDE DEF E, F
  <2>4. IsFiniteSet(F) /\ (\A c \in F : c.penalty \in 1..100) /\ E \subseteq F
    BY <2>1, <2>2, <2>3, FS_Subset
  <2>5. totalPenalty(E) \in Nat /\ totalPenalty(F) \in Nat /\ totalPenalty(E) <= totalPenalty(F)
    BY <2>4, ConflictsMonotone
  <2> QED
    BY <2>5 DEF E, F
<1>5. least \in Int
  BY RuleFacts
<1>6. p <= q /\ q \in Nat /\ clamp(p - n - t) >= least
  OBVIOUS
<1>7. clamp(q - n - none) >= least
  <2> HIDE DEF q, n, t, none, least
  <2> DEFINE low == p - n - t
             high == q - n - none
  <2>1. low \in Int /\ high \in Int /\ low <= high
    BY <1>3, <1>4, <1>6
  <2>2. clamp(low) >= least
    BY <1>6
  <2> HIDE DEF low, high
  <2>3. clamp(low) <= clamp(high) /\ clamp(low) \in Int /\ clamp(high) \in Int
    BY <2>1, ClampMonotone
  <2>4. clamp(high) >= least
    BY <1>5, <2>2, <2>3
  <2> QED
    BY <2>4 DEF high
<1>8. clamp(scorePositive(w[r].positive) - totalWeight(w[r].negative)
              - totalPenalty(appliedConflicts(w, u, r))) >= u[r].minimumScore
  BY <1>1, <1>2, <1>7
<1> QED
  BY <1>8, QualifiesFacts

(* What qualifies still does without conflicts and with more signals. *)
LEMMA UnopposedKeeps ==
  ASSUME NEW rs, Validate(rs), NEW r \in DOMAIN rs, NEW few, NEW more,
         NoNewPenalty(rs, few, more),
         NEW m, m = matchRules(rs, few), qualifies(m, rs, r),
         NEW w, w = matchRules(Unopposed(rs), few \cup more)
  PROVE  qualifies(w, Unopposed(rs), r)
<1> DEFINE v == matchRules(rs, few \cup more)
           p == scorePositive(m[r].positive)
<1>1. m[r].candidate /\ clamp(p - totalWeight(m[r].negative)
                                - totalPenalty(appliedConflicts(m, rs, r))) >= rs[r].minimumScore
  BY QualifiesFacts
<1>2. w[r] = v[r]
  BY UnopposedMatches
<1>3. few \subseteq few \cup more
  OBVIOUS
<1>4. /\ v[r].candidate /\ p \in Nat /\ scorePositive(v[r].positive) \in Nat
      /\ p <= scorePositive(v[r].positive)
  BY <1>1, <1>3, CandidatesMonotone
<1> HIDE DEF v, p
<1> QED
  BY <1>1, <1>2, <1>4, UnopposedQualifies

(* The predicates of a rule set's conditions, and the signals that the     *)
(* incomplete channels of some sources could have shown for them.          *)
Wanted(rs) == UNION {predicates(rs[q].match) : q \in DOMAIN rs}

helpful(rs, complete, sources) ==
  {x \in Signals : /\ x.source \in sources /\ <<x.source, x.type>> \notin complete
                   /\ \E e \in Wanted(rs) : matchEvidence(e, x)}

(* Signals that predicates look for match no penalty. *)
LEMMA WantedIsNoPenalty ==
  ASSUME NEW rs, Attainable(rs), NEW few, NEW more,
         \A x \in more : \E e \in Wanted(rs) : matchEvidence(e, x)
  PROVE  NoNewPenalty(rs, few, more)
<1> SUFFICES ASSUME NEW q \in DOMAIN rs, NEW p \in rs[q].penalties,
                    strongestMatch(p, few \cup more), ~ strongestMatch(p, few)
             PROVE  FALSE
  BY DEF NoNewPenalty
<1>1. PICK x \in more : matchEvidence(p, x)
  BY DEF strongestMatch
<1>2. PICK e \in Wanted(rs) : matchEvidence(e, x)
  OBVIOUS
<1>3. PICK r \in DOMAIN rs : e \in predicates(rs[r].match)
  BY DEF Wanted
<1>4. p.type # e.type \/ p.key # e.key
  BY <1>3 DEF Attainable
<1> QED
  BY <1>1, <1>2, <1>4 DEF matchEvidence

(* Some signal of a source that potential evidence waits for matches it. *)
LEMMA WaitIsHelped ==
  ASSUME NEW rs, Attainable(rs), NEW r \in DOMAIN rs, NEW e \in predicates(rs[r].match),
         NEW complete, NEW waits \in SUBSET missingSources(e, complete), waits # {},
         NEW sources, waits \subseteq sources,
         NEW few, NEW more, helpful(rs, complete, sources) \subseteq more
  PROVE  strongestMatch(e, few \cup more)
<1>1. PICK s \in waits : s \in CapableSources(e) /\ <<s, e.type>> \notin complete
  BY DEF missingSources
<1>2. PICK x \in Signals : x.source = s /\ matchEvidence(e, x)
  BY <1>1 DEF Attainable
<1>3. <<x.source, x.type>> \notin complete
  BY <1>1, <1>2 DEF matchEvidence
<1>4. e \in Wanted(rs)
  BY DEF Wanted
<1>5. x \in helpful(rs, complete, sources)
  BY <1>1, <1>2, <1>3, <1>4 DEF helpful
<1>6. x \in few \cup more
  BY <1>5
<1> QED
  BY <1>2, <1>6 DEF strongestMatch

(* CoverageIsAttained for the root of a condition. *)
LEMMA RootIsAttained ==
  ASSUME NEW c, IsCondition(c), NEW few, NEW more, NEW complete,
         NEW cover, cover = coverNodes(c, few, complete)[1], cover.state # "not_matched",
         \A p \in cover.potential : p.incomplete # {} => strongestMatch(p.evidence, few \cup more)
  PROVE  /\ evaluateNodes(c, few \cup more)[1].matched
         /\ \A p \in cover.potential : p.evidence \in evaluateNodes(c, few \cup more)[1].evidence
<1>1. 1 \in DOMAIN c
  BY NodesAcyclic
<1>2. few \subseteq few \cup more
  OBVIOUS
<1>3. \A p \in coverNodes(c, few, complete)[1].potential :
        p.incomplete # {} => strongestMatch(p.evidence, few \cup more)
  OBVIOUS
<1>4. coverNodes(c, few, complete)[1].state # "not_matched"
  OBVIOUS
<1>5. /\ evaluateNodes(c, few \cup more)[1].matched
      /\ \A p \in coverNodes(c, few, complete)[1].potential :
           p.evidence \in evaluateNodes(c, few \cup more)[1].evidence
  BY <1>1, <1>2, <1>3, <1>4, CoverageIsAttained
<1> QED
  BY <1>5

(* A rule with an unknown own coverage qualifies, without conflicts, on    *)
(* what the sources it waits for would have shown.                         *)
LEMMA OwnIsAttained ==
  ASSUME NEW rs, Validate(rs), Attainable(rs), NEW r \in DOMAIN rs, NEW few, NEW more,
         NoNewPenalty(rs, few, more), NEW complete,
         NEW dets, dets = scoreMatches(rs, few),
         NEW conditions, conditions = coverConditions(rs, few, complete),
         NEW own, own = ownCoverage(rs, dets, conditions, r), own.state = "unknown",
         helpful(rs, complete, own.incomplete) \subseteq more,
         NEW w, w = matchRules(Unopposed(rs), few \cup more)
  PROVE  qualifies(w, Unopposed(rs), r)
<1> DEFINE c == rs[r].match
           cover == coverNodes(c, few, complete)[1]
           v == evaluateNodes(c, few \cup more)
           m == matchRules(rs, few)
           possible == {p.evidence : p \in conditions[r].potential}
           positive == w[r].positive
           observed == appliedConflicts(m, rs, r)
           n == totalWeight(m[r].negative)
           t == totalPenalty(observed)
<1>1. /\ IsCondition(c) /\ 1 \in DOMAIN c
      /\ IsFiniteSet(predicates(c)) /\ Weighted(predicates(c))
      /\ IsFiniteSet(rs[r].penalties) /\ Weighted(rs[r].penalties)
      /\ IsFiniteSet(rs[r].conflicts) /\ \A k \in rs[r].conflicts : k.penalty \in 1..100
      /\ rs[r].minimumScore \in Int /\ rs[r].minimumEvidence \in Int
  BY RuleFacts
<1>2. /\ conditions[r].state # "not_matched"
      /\ clamp(upperBoundScore(possible) - observedPenalties(dets[r])) >= rs[r].minimumScore
      /\ upperBoundGroups(possible) >= rs[r].minimumEvidence
  BY DEF ownCoverage, EvaluateRuleCoverage
<1>3. own.incomplete = UNION {p.incomplete : p \in conditions[r].potential}
  BY OwnFacts
<1>4. conditions[r] = cover
  BY ConditionFacts
<1>5. \A p \in cover.potential : /\ p.evidence \in predicates(c)
                                 /\ p.incomplete \subseteq missingSources(p.evidence, complete)
  <2> HIDE DEF c
  <2> QED
    BY <1>1, PotentialFacts
<1>6. ASSUME NEW p \in cover.potential, p.incomplete # {}
      PROVE  strongestMatch(p.evidence, few \cup more)
  <2>1. p.incomplete \subseteq own.incomplete
    BY <1>3, <1>4
  <2>2. /\ p.evidence \in predicates(rs[r].match)
        /\ p.incomplete \in SUBSET missingSources(p.evidence, complete)
    BY <1>5
  <2> HIDE DEF cover, c
  <2> QED
    BY <1>6, <2>1, <2>2, WaitIsHelped
<1>7. v[1].matched /\ \A p \in cover.potential : p.evidence \in v[1].evidence
  <2>1. cover.state # "not_matched"
    BY <1>2, <1>4
  <2>2. IsCondition(c) /\ cover = coverNodes(c, few, complete)[1]
    BY <1>1
  <2> HIDE DEF c, cover
  <2>3. v[1].matched
    BY <1>6, <2>1, <2>2, RootIsAttained
  <2>4. \A p \in cover.potential : p.evidence \in v[1].evidence
    BY <1>6, <2>1, <2>2, RootIsAttained
  <2> QED
    BY <2>3, <2>4
<1>8. possible \subseteq v[1].evidence
  <2> HIDE DEF v, cover
  <2> QED
    BY <1>4, <1>7
<1>9. w[r] = matchRules(rs, few \cup more)[r]
  BY UnopposedMatches
<1>10. /\ w[r].candidate <=> /\ v[1].matched
                             /\ countEvidenceGroups(v[1].evidence) >= rs[r].minimumEvidence
       /\ positive = v[1].evidence /\ positive \subseteq predicates(c)
  <2> DEFINE k == matchRules(rs, few \cup more)
  <2>1. /\ k[r].candidate <=> /\ v[1].matched
                              /\ countEvidenceGroups(v[1].evidence) >= rs[r].minimumEvidence
        /\ k[r].positive = v[1].evidence
        /\ k[r].positive \subseteq predicates(rs[r].match)
    BY MatchFacts
  <2>2. w[r] = k[r]
    BY <1>9
  <2> HIDE DEF k, v, c
  <2>3. w[r].candidate <=> /\ v[1].matched
                           /\ countEvidenceGroups(v[1].evidence) >= rs[r].minimumEvidence
    BY <2>1, <2>2
  <2>4. positive = v[1].evidence
    BY <2>1, <2>2
  <2>5. positive \subseteq predicates(c)
    BY <2>1, <2>2 DEF c
  <2> QED
    BY <2>3, <2>4, <2>5
<1>11. /\ upperBoundScore(possible) \in Nat /\ scorePositive(positive) \in Nat
       /\ upperBoundScore(possible) <= scorePositive(positive)
       /\ countEvidenceGroups(positive) \in Nat /\ upperBoundGroups(possible) \in Nat
       /\ upperBoundGroups(possible) <= countEvidenceGroups(positive)
  <2>1. \A x, y \in predicates(c) : x.group = NoGroup => y.group # x.id
    BY DEF Attainable
  <2>2. possible \subseteq positive
    BY <1>8, <1>10
  <2> HIDE DEF possible, positive, c
  <2>3. IsFiniteSet(positive)
    BY <1>1, <1>10, FS_Subset
  <2>4. Weighted(positive)
    BY <1>1, <1>10 DEF Weighted
  <2>5. \A x, y \in possible : x.group = NoGroup => y.group # x.id
    BY <1>10, <2>1, <2>2
  <2> QED
    BY <2>2, <2>3, <2>4, <2>5, BoundIsReached
<1>12. w[r].candidate
  <2> HIDE DEF possible, v
  <2> QED
    BY <1>1, <1>2, <1>7, <1>10, <1>11
<1>13. n \in Nat /\ t \in Nat
  <2>1. m[r].negative \subseteq rs[r].penalties
    BY MatchFacts
  <2>2. observed \subseteq rs[r].conflicts
    BY DEF appliedConflicts
  <2> HIDE DEF m, observed
  <2>3. n \in Nat
    BY <1>1, <2>1, PenaltiesMonotone
  <2>4. IsFiniteSet(observed) /\ \A k \in observed : k.penalty \in 1..100
    BY <1>1, <2>2, FS_Subset
  <2>5. t \in Nat
    BY <2>4, ConflictsMonotone
  <2> QED
    BY <2>3, <2>5
<1>14. observedPenalties(dets[r]) = n + t
  <2>1. dets[r].negative = m[r].negative /\ dets[r].conflicts = observed
    BY DetectionFacts
  <2> HIDE DEF observed, m
  <2> QED
    BY <2>1 DEF observedPenalties
<1>15. clamp(upperBoundScore(possible) - n - t) >= rs[r].minimumScore
  <2> HIDE DEF possible, n, t
  <2>1. upperBoundScore(possible) - observedPenalties(dets[r]) = upperBoundScore(possible) - n - t
    BY <1>11, <1>13, <1>14
  <2> QED
    BY <1>2, <2>1
<1> HIDE DEF possible
<1> QED
  BY <1>11, <1>12, <1>15, UnopposedQualifies

(* More sources show no less. *)
LEMMA HelpfulMonotone ==
  ASSUME NEW rs, NEW complete, NEW all, NEW some \in SUBSET all
  PROVE  helpful(rs, complete, some) \subseteq helpful(rs, complete, all)
BY DEF helpful

(* A rule not reported not_detected is detected, without conflicts, on     *)
(* what the sources its status names would have shown.                     *)
LEMMA InsufficientIsSound ==
  ASSUME NEW rs, Validate(rs), Attainable(rs), NEW few, NEW more,
         NoNewPenalty(rs, few, more), NEW complete,
         NEW dets, dets = scoreMatches(rs, few),
         NEW conditions, conditions = coverConditions(rs, few, complete),
         NEW s, s = evalRules(rs, dets, conditions),
         NEW n \in DOMAIN rs, s[n].status # "not_detected",
         helpful(rs, complete, s[n].incomplete) \subseteq more
  PROVE  scoreMatches(Unopposed(rs), few \cup more)[n].detected
<1> DEFINE u == Unopposed(rs)
           m == matchRules(rs, few)
           had == eligible(m, rs)
           w == matchRules(u, few \cup more)
           ok == eligible(w, u)
           helped(r) == helpful(rs, complete, s[r].incomplete) \subseteq more
           bad == {r \in DOMAIN rs : s[r].status # "not_detected" /\ helped(r) /\ ~ ok[r]}
<1>1. Validate(u) /\ DOMAIN u = DOMAIN rs /\ \A r \in DOMAIN rs : u[r].requires = rs[r].requires
  <2>1. DOMAIN u = DOMAIN rs /\ \A r \in DOMAIN rs : u[r].requires = rs[r].requires
    BY UnopposedFields
  <2>2. Validate(u)
    BY UnopposedValid
  <2> QED
    BY <2>1, <2>2
<1>2. \A r \in DOMAIN rs : ok[r] <=> qualifies(w, u, r) /\ \A d \in rs[r].requires : ok[d]
  <2> HIDE DEF u, w
  <2>1. \A r \in DOMAIN u : ok[r] <=> qualifies(w, u, r) /\ \A d \in u[r].requires : ok[d]
    BY <1>1, EligibleFacts
  <2> HIDE DEF ok
  <2> QED
    BY <1>1, <2>1
<1>3. \A r \in DOMAIN rs : had[r] <=> qualifies(m, rs, r) /\ \A d \in rs[r].requires : had[d]
  BY EligibleFacts
<1>4. \A r \in DOMAIN rs : dets[r].detected = had[r]
  BY DetectionFacts
<1>5. \A r \in DOMAIN rs : StatusOf(rs, dets, conditions, r, s, s[r])
  BY ConditionFacts, RuleStatuses
<1>6. bad = {}
  <2> SUFFICES ASSUME bad # {} PROVE FALSE
    OBVIOUS
  <2>1. PICK r \in bad : rs[r].requires \cap bad = {}
    <3>1. bad \in SUBSET DOMAIN rs
      OBVIOUS
    <3> HIDE DEF bad
    <3> QED
      BY <3>1, MinimalRule
  <2>2. r \in DOMAIN rs /\ s[r].status # "not_detected" /\ helped(r) /\ ~ ok[r]
    OBVIOUS
  <2>3. rs[r].requires \subseteq DOMAIN rs
    BY <2>2, RuleFacts
  <2>4. \A d \in rs[r].requires : s[d].status # "not_detected" /\ helped(d) => ok[d]
    BY <2>1, <2>3
  <2>5. StatusOf(rs, dets, conditions, r, s, s[r])
    BY <1>5, <2>2
  <2> HIDE DEF bad, ok, had
  <2>6. CASE dets[r].detected
    <3>1. qualifies(m, rs, r) /\ \A d \in rs[r].requires : had[d]
      BY <1>3, <1>4, <2>2, <2>6
    <3>2. qualifies(w, u, r)
      BY <2>2, <3>1, UnopposedKeeps
    <3>3. ASSUME NEW d \in rs[r].requires PROVE ok[d]
      <4>1. dets[d].detected
        BY <1>4, <2>3, <3>1
      <4>2. s[d].status = "detected" /\ s[d].incomplete = {}
        BY <1>5, <2>3, <4>1 DEF StatusOf
      <4>3. helpful(rs, complete, s[d].incomplete) = {}
        BY <4>2 DEF helpful
      <4> QED
        BY <2>4, <4>2, <4>3
    <3> QED
      BY <1>2, <2>2, <3>2, <3>3
  <2>7. CASE ~ dets[r].detected
    <3> DEFINE own == ownCoverage(rs, dets, conditions, r)
    <3>1. /\ own.state # "not_matched"
          /\ \A d \in rs[r].requires : s[d].status # "not_detected"
          /\ s[r].incomplete = own.incomplete \cup UNION {s[d].incomplete : d \in rs[r].requires}
      BY <2>2, <2>5, <2>7 DEF StatusOf
    <3>2. own.state = "unknown"
      BY <3>1, OwnFacts
    <3> HIDE DEF own
    <3>3. ASSUME NEW S \in SUBSET s[r].incomplete
          PROVE  helpful(rs, complete, S) \subseteq more
      <4>1. helpful(rs, complete, S) \subseteq helpful(rs, complete, s[r].incomplete)
        BY HelpfulMonotone
      <4> QED
        BY <2>2, <4>1
    <3>4. qualifies(w, u, r)
      <4>1. helpful(rs, complete, own.incomplete) \subseteq more
        BY <3>1, <3>3
      <4> QED
        BY <2>2, <3>2, <4>1, OwnIsAttained DEF own
    <3>5. ASSUME NEW d \in rs[r].requires PROVE ok[d]
      <4>1. s[d].incomplete \subseteq s[r].incomplete
        BY <3>1
      <4>2. helped(d)
        BY <3>3, <4>1
      <4> QED
        BY <2>4, <3>1, <4>2
    <3> QED
      BY <1>2, <2>2, <3>4, <3>5
  <2> QED
    BY <2>6, <2>7
<1>7. ok[n]
  BY <1>6
<1>8. scoreMatches(u, few \cup more)[n].detected = ok[n]
  <2> HIDE DEF u
  <2> QED
    BY <1>1, DetectionFacts
<1> QED
  BY <1>7, <1>8

(* The sources a status names are among those it requires. *)
LEMMA BlameIsRequired ==
  ASSUME NEW rs, Validate(rs), NEW sigs, NEW complete, NEW dets,
         NEW conditions, conditions = coverConditions(rs, sigs, complete),
         NEW s, s = evalRules(rs, dets, conditions), NEW n \in DOMAIN rs
  PROVE  s[n].incomplete \subseteq s[n].required
<1> DEFINE bad == {r \in DOMAIN rs : ~ (s[r].incomplete \subseteq s[r].required)}
<1>1. \A r \in DOMAIN rs : StatusOf(rs, dets, conditions, r, s, s[r])
  BY ConditionFacts, RuleStatuses
<1>2. bad = {}
  <2> SUFFICES ASSUME bad # {} PROVE FALSE
    OBVIOUS
  <2>1. PICK r \in bad : rs[r].requires \cap bad = {}
    <3>1. bad \in SUBSET DOMAIN rs
      OBVIOUS
    <3> HIDE DEF bad
    <3> QED
      BY <3>1, MinimalRule
  <2>2. r \in DOMAIN rs /\ ~ (s[r].incomplete \subseteq s[r].required)
    OBVIOUS
  <2>3. rs[r].requires \subseteq DOMAIN rs
    BY <2>2, RuleFacts
  <2>4. \A d \in rs[r].requires : s[d].incomplete \subseteq s[d].required
    BY <2>1, <2>3
  <2> HIDE DEF bad
  <2>5. StatusOf(rs, dets, conditions, r, s, s[r])
    BY <1>1, <2>2
  <2> DEFINE own == ownCoverage(rs, dets, conditions, r)
             c == rs[r].match
  <2>6. /\ s[r].required = conditions[r].required \cup UNION {s[d].required : d \in rs[r].requires}
        /\ s[r].incomplete = own.incomplete \cup UNION {s[d].incomplete : d \in rs[r].requires}
    BY <2>2, <2>5 DEF StatusOf
  <2>7. own.incomplete \subseteq conditions[r].required
    <3>1. IsCondition(c) /\ 1 \in DOMAIN c
      BY <2>2, RuleFacts
    <3>2. conditions[r] = coverNodes(c, sigs, complete)[1]
      BY <2>2, ConditionFacts
    <3>3. \/ own.incomplete = UNION {p.incomplete : p \in conditions[r].potential}
          \/ own.incomplete = {}
      BY OwnFacts
    <3> HIDE DEF c, own
    <3>4. \A p \in coverNodes(c, sigs, complete)[1].potential :
            p.incomplete \subseteq coverNodes(c, sigs, complete)[1].required
      BY <3>1, PotentialFacts
    <3>5. \A p \in conditions[r].potential : p.incomplete \subseteq conditions[r].required
      BY <3>2, <3>4
    <3> QED
      BY <3>3, <3>5
  <2> HIDE DEF own
  <2> QED
    BY <2>2, <2>4, <2>6, <2>7
<1> QED
  BY <1>2

-----------------------------------------------------------------------------
(*                     The analysis and its invariant                      *)

Analyses == UNION {[source : {s}, declared : Declarations(s),
                    status : {"complete", "partial", "failed"}] : s \in Sources}

(* What an analyzer that returned calls complete was seen. *)
Sound ==
  \A i \in DOMAIN analyzers : \A x \in world :
    analyzers[i].source = x.source /\ claimsComplete(analyzers[i], x.type) => x \in signals

(* The detections and the coverage of the state are those of its signals.  *)
CoverageInv ==
  /\ world \subseteq Signals /\ ruleSet \in RuleSets /\ signals \subseteq world
  /\ pc \in {"observe", "cover", "done"}
  /\ analyzers \in Seq(Analyses) /\ Len(analyzers) <= Len(Pipeline)
  /\ Sound
  /\ pc # "observe" => detections = scoreMatches(ruleSet, signals)
  /\ pc = "done" => coverage = buildDetectionCoverage(ruleSet, detections, analyzers, signals)

(* No analyzer has returned. *)
LEMMA CoverageInit == Init => CoverageInv
<1> SUFFICES ASSUME Init PROVE CoverageInv
  OBVIOUS
<1>1. analyzers \in Seq(Analyses) /\ Len(analyzers) = 0 /\ DOMAIN analyzers = {}
  BY EmptySeq, LenProperties DEF Init
<1>2. Len(analyzers) <= Len(Pipeline)
  BY <1>1, CoverageAssumption, LenProperties
<1> QED
  BY <1>1, <1>2 DEF Init, CoverageInv, Sound

(* Every action keeps the invariant. *)
LEMMA CoverageStep == CoverageInv /\ [Next]_vars => CoverageInv'
<1> SUFFICES ASSUME CoverageInv, [Next]_vars PROVE CoverageInv'
  OBVIOUS
<1>1. /\ world \subseteq Signals /\ ruleSet \in RuleSets /\ signals \subseteq world
      /\ pc \in {"observe", "cover", "done"}
      /\ analyzers \in Seq(Analyses) /\ Len(analyzers) <= Len(Pipeline)
      /\ pc # "observe" => detections = scoreMatches(ruleSet, signals)
      /\ pc = "done" => coverage = buildDetectionCoverage(ruleSet, detections, analyzers, signals)
  BY DEF CoverageInv
<1>2. Sound
  BY DEF CoverageInv
<1>3. CASE Observe
  <2> DEFINE s == Pipeline[Len(analyzers) + 1]
  <2>1. PICK seen \in SUBSET {x \in world : x.source = s},
             a \in [source : {s}, declared : Declarations(s),
                    status : {"complete", "partial", "failed"}] :
          /\ Vouches(s, seen, a)
          /\ analyzers' = Append(analyzers, a) /\ signals' = signals \cup seen
    BY <1>3 DEF Observe
  <2>2. pc = "observe" /\ pc' = pc /\ world' = world /\ ruleSet' = ruleSet
        /\ Len(analyzers) < Len(Pipeline)
    BY <1>3 DEF Observe
  <2>3. s \in Sources
    <3>1. Pipeline \in Seq(Range(Pipeline)) /\ Len(analyzers) \in Nat /\ Len(Pipeline) \in Nat
          /\ DOMAIN Pipeline = 1..Len(Pipeline)
      BY <1>1, CoverageAssumption, LenProperties
    <3>2. Len(analyzers) + 1 \in DOMAIN Pipeline
      BY <2>2, <3>1
    <3> QED
      BY <3>2 DEF Sources, Range
  <2>4. a \in Analyses /\ a.source = s
    BY <2>3 DEF Analyses
  <2>5. /\ analyzers' \in Seq(Analyses) /\ Len(analyzers') = Len(analyzers) + 1
        /\ DOMAIN analyzers' = 1..(Len(analyzers) + 1)
        /\ \A i \in 1..Len(analyzers) : analyzers'[i] = analyzers[i]
        /\ analyzers'[Len(analyzers) + 1] = a
    <3> HIDE DEF Analyses
    <3> QED
      BY <1>1, <2>1, <2>4, AppendProperties, LenProperties
  <2>6. Len(analyzers') <= Len(Pipeline)
    BY <1>1, <2>2, <2>5, CoverageAssumption, LenProperties
  <2>7. signals' \subseteq world'
    BY <1>1, <2>1, <2>2
  <2>8. Sound'
    <3> SUFFICES ASSUME NEW i \in DOMAIN analyzers', NEW x \in world',
                        analyzers'[i].source = x.source, claimsComplete(analyzers'[i], x.type)
                 PROVE  x \in signals'
      BY DEF Sound
    <3>1. Len(analyzers) \in Nat /\ DOMAIN analyzers = 1..Len(analyzers)
      BY <1>1, LenProperties
    <3>2. CASE i \in 1..Len(analyzers)
      <4>1. i \in DOMAIN analyzers /\ analyzers'[i] = analyzers[i]
        BY <2>5, <3>1, <3>2
      <4>2. x \in signals
        BY <1>2, <2>2, <4>1 DEF Sound
      <4> QED
        BY <2>1, <4>2
    <3>3. CASE i = Len(analyzers) + 1
      <4>1. x.source = s /\ claimsComplete(a, x.type)
        BY <2>4, <2>5, <3>3
      <4>2. x \in seen
        BY <2>1, <2>2, <4>1 DEF Vouches, claimsComplete
      <4> QED
        BY <2>1, <4>2
    <3> QED
      BY <2>5, <3>1, <3>2, <3>3
  <2> QED
    BY <1>1, <2>2, <2>5, <2>6, <2>7, <2>8 DEF CoverageInv
<1>4. CASE Evaluate
  <2>1. /\ pc' = "cover" /\ detections' = scoreMatches(ruleSet, signals)
        /\ world' = world /\ ruleSet' = ruleSet /\ analyzers' = analyzers /\ signals' = signals
    BY <1>4 DEF Evaluate
  <2>2. Sound'
    BY <1>2, <2>1 DEF Sound
  <2>3. detections' = scoreMatches(ruleSet', signals')
    BY <2>1
  <2> QED
    BY <1>1, <2>1, <2>2, <2>3 DEF CoverageInv
<1>5. CASE BuildCoverage
  <2>1. /\ pc = "cover" /\ pc' = "done" /\ detections' = detections
        /\ coverage' = buildDetectionCoverage(ruleSet, detections, analyzers, signals)
        /\ world' = world /\ ruleSet' = ruleSet /\ analyzers' = analyzers /\ signals' = signals
    BY <1>5 DEF BuildCoverage
  <2>2. Sound'
    BY <1>2, <2>1 DEF Sound
  <2>3. detections' = scoreMatches(ruleSet', signals')
    BY <1>1, <2>1
  <2>4. coverage' = buildDetectionCoverage(ruleSet', detections', analyzers', signals')
    BY <2>1
  <2> QED
    BY <1>1, <2>1, <2>2, <2>3, <2>4 DEF CoverageInv
<1>6. CASE UNCHANGED vars
  <2>1. /\ world' = world /\ ruleSet' = ruleSet /\ pc' = pc /\ analyzers' = analyzers
        /\ signals' = signals /\ detections' = detections /\ coverage' = coverage
    BY <1>6 DEF vars
  <2>2. Sound'
    BY <1>2, <2>1 DEF Sound
  <2> QED
    BY <1>1, <2>1, <2>2 DEF CoverageInv
<1> QED
  BY <1>3, <1>4, <1>5, <1>6 DEF Next

(* In every state the detections and the coverage are those of the signals *)
(* seen so far, and a channel called complete has shown all it would show. *)
THEOREM CoverageInvariant == Spec => []CoverageInv
BY CoverageInit, CoverageStep, PTL DEF Spec

(* A channel that is complete for coverage has missed nothing. *)
LEMMA WorldIsDisclosed ==
  ASSUME CoverageInv
  PROVE  MissesNothing(completeCapability(analyzers), signals, world)
<1> SUFFICES ASSUME NEW x \in world, <<x.source, x.type>> \in completeCapability(analyzers)
             PROVE  x \in signals
  BY DEF MissesNothing
<1>1. PICK i \in DOMAIN analyzers :
        analyzers[i].source = x.source /\ claimsComplete(analyzers[i], x.type)
  BY DEF completeCapability
<1> QED
  BY <1>1 DEF CoverageInv, Sound

(* A rule reported not_detected is not detected by an analysis that misses *)
(* nothing, for every rule set the schema accepts and every run of the     *)
(* analyzers (scanner.go buildDetectionCoverage).                          *)
THEOREM NotDetectedConclusive == Spec => []NotDetectedIsConclusive
<1>1. CoverageInv => NotDetectedIsConclusive
  <2> SUFFICES ASSUME CoverageInv, pc = "done", NEW r \in DOMAIN ruleSet,
                      coverage[r].status = "not_detected"
               PROVE  ~ scoreMatches(ruleSet, world)[r].detected
    BY DEF NotDetectedIsConclusive
  <2> DEFINE complete == completeCapability(analyzers)
             conditions == coverConditions(ruleSet, signals, complete)
  <2>1. Validate(ruleSet)
    BY CoverageAssumption DEF CoverageInv
  <2>2. world \in SUBSET Signals /\ signals \subseteq world
    BY DEF CoverageInv
  <2>3. MissesNothing(complete, signals, world)
    BY WorldIsDisclosed
  <2>4. detections = scoreMatches(ruleSet, signals)
    BY DEF CoverageInv
  <2>5. coverage = evalRules(ruleSet, detections, conditions)
    BY DEF CoverageInv, buildDetectionCoverage
  <2> HIDE DEF complete
  <2> QED
    BY <2>1, <2>2, <2>3, <2>4, <2>5, NotDetectedIsSound
<1> QED
  BY <1>1, CoverageInvariant, PTL

(* The sources a status blames have a channel the rule or a prerequisite   *)
(* needs, for every rule set the schema accepts (scanner.go evalRule).     *)
THEOREM BlameRequired ==
  Spec => [](pc = "done" => \A r \in DOMAIN ruleSet :
                              coverage[r].incomplete \subseteq coverage[r].required)
<1>1. CoverageInv => (pc = "done" => \A r \in DOMAIN ruleSet :
                                       coverage[r].incomplete \subseteq coverage[r].required)
  <2> SUFFICES ASSUME CoverageInv, pc = "done", NEW r \in DOMAIN ruleSet
               PROVE  coverage[r].incomplete \subseteq coverage[r].required
    OBVIOUS
  <2> DEFINE complete == completeCapability(analyzers)
  <2>1. Validate(ruleSet)
    BY CoverageAssumption DEF CoverageInv
  <2>2. coverage = evalRules(ruleSet, detections, coverConditions(ruleSet, signals, complete))
    BY DEF CoverageInv, buildDetectionCoverage
  <2> HIDE DEF complete
  <2> QED
    BY <2>1, <2>2, BlameIsRequired
<1> QED
  BY <1>1, CoverageInvariant, PTL

(* A rule reported insufficient_coverage names sources that are to blame:  *)
(* what they alone would have shown satisfies its thresholds and its       *)
(* prerequisites, where predicates are attainable and no penalty looks at  *)
(* what a predicate looks for (condition_coverage.go EvaluateRuleCoverage, *)
(* scanner.go evalRule).                                                   *)
THEOREM InsufficientJustified == Spec => [](Attainable(ruleSet) => InsufficientIsJustified)
<1>1. CoverageInv => (Attainable(ruleSet) => InsufficientIsJustified)
  <2> SUFFICES ASSUME CoverageInv, Attainable(ruleSet), pc = "done", NEW r \in DOMAIN ruleSet,
                      coverage[r].status = "insufficient_coverage"
               PROVE  /\ coverage[r].incomplete \subseteq coverage[r].required
                      /\ \E more \in SUBSET Undisclosed(coverage[r].incomplete) :
                            scoreMatches(Unopposed(ruleSet), signals \cup more)[r].detected
    BY DEF InsufficientIsJustified
  <2> DEFINE complete == completeCapability(analyzers)
             conditions == coverConditions(ruleSet, signals, complete)
             more == helpful(ruleSet, complete, coverage[r].incomplete)
  <2>1. Validate(ruleSet)
    BY CoverageAssumption DEF CoverageInv
  <2>2. detections = scoreMatches(ruleSet, signals)
    BY DEF CoverageInv
  <2>3. coverage = evalRules(ruleSet, detections, conditions)
    BY DEF CoverageInv, buildDetectionCoverage
  <2>4. more \in SUBSET Undisclosed(coverage[r].incomplete)
    BY DEF helpful, Undisclosed
  <2>5. \A x \in more : \E e \in Wanted(ruleSet) : matchEvidence(e, x)
    BY DEF helpful
  <2>6. NoNewPenalty(ruleSet, signals, more)
    BY <2>5, WantedIsNoPenalty
  <2>7. coverage[r].status # "not_detected"
    OBVIOUS
  <2>8. helpful(ruleSet, complete, coverage[r].incomplete) \subseteq more
    OBVIOUS
  <2> HIDE DEF complete, more
  <2>9. scoreMatches(Unopposed(ruleSet), signals \cup more)[r].detected
    BY <2>1, <2>2, <2>3, <2>6, <2>7, <2>8, InsufficientIsSound
  <2>10. coverage[r].incomplete \subseteq coverage[r].required
    BY <2>1, <2>3, BlameIsRequired
  <2> QED
    BY <2>4, <2>9, <2>10
<1> QED
  BY <1>1, CoverageInvariant, PTL

(* Scores stay between 0 and 100. *)
LEMMA ScoreBounds ==
  ASSUME NEW rs, Validate(rs), NEW sigs, NEW dets, dets = scoreMatches(rs, sigs),
         NEW r \in DOMAIN rs
  PROVE  DOMAIN dets = DOMAIN rs /\ dets[r].score \in 0..100
<1> DEFINE m == matchRules(rs, sigs)
           applied == appliedConflicts(m, rs, r)
           p == scorePositive(m[r].positive)
           n == totalWeight(m[r].negative)
           t == totalPenalty(applied)
<1>1. DOMAIN dets = DOMAIN rs /\ dets[r].score \in {0, evidenceScore(m, rs, r)}
  BY DEF scoreMatches
<1>2. CASE ~ m[r].candidate
  <2>1. evidenceScore(m, rs, r) = 0
    BY <1>2 DEF evidenceScore
  <2> QED
    BY <1>1, <2>1
<1>3. CASE m[r].candidate
  <2>1. evidenceScore(m, rs, r) = clamp(p - n - t)
    BY <1>3 DEF evidenceScore
  <2>2. p \in Nat
    <3>1. sigs \subseteq sigs
      OBVIOUS
    <3> QED
      BY <1>3, <3>1, CandidatesMonotone
  <2>3. /\ IsFiniteSet(rs[r].penalties) /\ Weighted(rs[r].penalties)
        /\ IsFiniteSet(rs[r].conflicts) /\ \A c \in rs[r].conflicts : c.penalty \in 1..100
    BY RuleFacts
  <2>4. n \in Nat
    <3>1. m[r].negative \subseteq rs[r].penalties
      BY MatchFacts
    <3> HIDE DEF m
    <3> QED
      BY <2>3, <3>1, PenaltiesMonotone
  <2>5. t \in Nat
    <3>1. applied \subseteq rs[r].conflicts
      BY DEF appliedConflicts
    <3> HIDE DEF applied
    <3>2. IsFiniteSet(applied) /\ \A c \in applied : c.penalty \in 1..100
      BY <2>3, <3>1, FS_Subset
    <3> QED
      BY <3>2, ConflictsMonotone
  <2> HIDE DEF p, n, t
  <2>6. clamp(p - n - t) \in 0..100
    BY <2>2, <2>4, <2>5 DEF clamp
  <2> QED
    BY <1>1, <2>1, <2>6
<1> QED
  BY <1>2, <1>3

(* Every rule gets one status and one score, between 0 and 100, and a      *)
(* status names sources of the pipeline (scoring.go clamp, scanner.go      *)
(* evalRule).                                                              *)
THEOREM CoverageTypeOK == Spec => []TypeOK
<1>1. CoverageInv => TypeOK
  <2> SUFFICES ASSUME CoverageInv PROVE TypeOK
    OBVIOUS
  <2>1. Validate(ruleSet)
    BY CoverageAssumption DEF CoverageInv
  <2>2. Len(analyzers) \in 0..Len(Pipeline)
    <3>1. Len(analyzers) \in Nat /\ Len(Pipeline) \in Nat /\ Len(analyzers) <= Len(Pipeline)
      BY CoverageAssumption, LenProperties DEF CoverageInv
    <3> QED
      BY <3>1
  <2>3. ASSUME pc # "observe"
        PROVE  /\ DOMAIN detections = DOMAIN ruleSet
               /\ \A r \in DOMAIN detections : detections[r].score \in 0..100
    <3>1. detections = scoreMatches(ruleSet, signals)
      BY <2>3 DEF CoverageInv
    <3>2. DOMAIN detections = DOMAIN ruleSet
      BY <3>1 DEF scoreMatches
    <3> QED
      BY <2>1, <3>1, <3>2, ScoreBounds
  <2>4. ASSUME pc = "done"
        PROVE  /\ DOMAIN coverage = DOMAIN ruleSet
               /\ \A r \in DOMAIN coverage : coverage[r].incomplete \subseteq Range(Pipeline)
    <3> DEFINE conditions == coverConditions(ruleSet, signals, completeCapability(analyzers))
    <3>1. coverage = evalRules(ruleSet, detections, conditions)
      BY <2>4 DEF CoverageInv, buildDetectionCoverage
    <3>2. Covered(ruleSet, conditions)
      BY <2>1, ConditionFacts
    <3> HIDE DEF conditions
    <3>3. coverage \in [DOMAIN ruleSet -> Statuses]
      BY <2>1, <3>1, <3>2, RuleStatuses
    <3> QED
      BY <3>3 DEF Statuses, Sources
  <2> QED
    BY <2>2, <2>3, <2>4 DEF CoverageInv, TypeOK
<1> QED
  BY <1>1, CoverageInvariant, PTL
=============================================================================
