------------------------- MODULE PaperTrading_proofs -------------------------
(***************************************************************************)
(* What the paper account promises for every set of symbols, book, price,  *)
(* depth, schedule and friction: every cent of it belongs to a leg, its    *)
(* money is that of a bank and an inventory, a committed book is followed, *)
(* every funding boundary is charged once and no basket straddles one,     *)
(* however often the venue changes its intervals.                          *)
(***************************************************************************)
EXTENDS PaperTrading, FiniteSetTheorems, WellFoundedInduction, TLAPS

-----------------------------------------------------------------------------
(* Sums over finite sets, and the folds they are made of.  The induction   *)
(* theorems of the library take a predicate, which no prover here can be   *)
(* given; induction over a set of subsets is enough.                       *)

\* Every set of natural numbers that is not empty has a least one.
LEMMA LeastNumber ==
  ASSUME NEW T, T \subseteq Nat, T # {}
  PROVE  \E x \in T : \A y \in T : x <= y
<1> DEFINE R == {ss \in Nat \X Nat : ss[1] < ss[2]}
<1>1. IsWellFoundedOn(OpToRel(<,Nat), Nat)
  BY NatLessThanWellFounded
<1>2. OpToRel(<,Nat) = R
  BY Zenon DEF OpToRel
<1>3. IsWellFoundedOn(R, Nat)
  BY <1>1, <1>2
<1>4. PICK x \in T : \A y \in T : <<y, x>> \notin R
  <2> HIDE DEF R
  <2> QED BY <1>3, WFMin
<1>5. ASSUME NEW y \in T PROVE x <= y
  <2>1. <<y, x>> \in Nat \X Nat /\ <<y, x>> \notin R
    <3> HIDE DEF R
    <3> QED BY <1>4
  <2>2. ~(y < x)
    BY <2>1
  <2> QED BY <2>2
<1> QED BY <1>5

\* Induction over the subsets of a finite set, for a set of subsets.
LEMMA SubsetInduction ==
  ASSUME NEW S, IsFiniteSet(S), NEW Good, {} \in Good,
         \A T \in SUBSET S : T # {} /\ (\A U \in SUBSET T : U # T => U \in Good) => T \in Good
  PROVE  \A T \in SUBSET S : T \in Good
<1> DEFINE Bad == {n \in Nat : \E T \in SUBSET S : Cardinality(T) = n /\ T \notin Good}
<1>1. \A T \in SUBSET S : IsFiniteSet(T) /\ Cardinality(T) \in Nat
  BY FS_Subset, FS_CardinalityType
<1>2. CASE Bad # {}
  <2>1. PICK n \in Bad : \A m \in Bad : n <= m
    <3>1. Bad \subseteq Nat
      OBVIOUS
    <3> HIDE DEF Bad
    <3> QED BY <1>2, <3>1, LeastNumber
  <2>2. PICK T \in SUBSET S : Cardinality(T) = n /\ T \notin Good
    BY <2>1
  <2>3. ASSUME NEW U \in SUBSET T, U # T PROVE U \in Good
    <3>1. Cardinality(U) < Cardinality(T)
      BY <1>1, <2>3, FS_Subset
    <3>2. U \in SUBSET S /\ Cardinality(U) \in Nat /\ n \in Nat
      BY <1>1, <2>1, <2>2
    <3>3. Cardinality(U) \notin Bad
      <4> HIDE DEF Bad
      <4> QED BY <2>1, <2>2, <3>1, <3>2
    <3> QED BY <3>2, <3>3
  <2> QED BY <2>2, <2>3
<1>3. CASE Bad = {}
  BY <1>1, <1>3
<1> QED BY <1>2, <1>3

\* The recursion of the folds of sets: take out the chosen element, fold the rest.
Pick(T) == CHOOSE x \in T : TRUE
Folds(f, base, step, S) ==
    \A T \in SUBSET S : f[T] = IF T = {} THEN base ELSE step[Pick(T)][f[T \ {Pick(T)}]]

LEMMA PickIn == ASSUME NEW T, T # {} PROVE Pick(T) \in T /\ T \ {Pick(T)} # T
<1>1. Pick(T) \in T
  BY DEF Pick
<1> QED BY <1>1

LEMMA FoldUnique ==
  ASSUME NEW S, IsFiniteSet(S), NEW base, NEW step, NEW f, NEW g,
         Folds(f, base, step, S), Folds(g, base, step, S)
  PROVE  \A T \in SUBSET S : f[T] = g[T]
<1> DEFINE Good == {T \in SUBSET S : f[T] = g[T]}
<1>1. {} \in Good
  BY DEF Folds
<1>2. ASSUME NEW T \in SUBSET S, T # {}, \A U \in SUBSET T : U # T => U \in Good
      PROVE  T \in Good
  <2>1. T \ {Pick(T)} \in Good
    BY <1>2, PickIn
  <2> QED BY <1>2, <2>1 DEF Folds
<1>3. \A T \in SUBSET S : T \in Good
  <2> HIDE DEF Good
  <2> QED BY <1>1, <1>2, SubsetInduction
<1> QED BY <1>3

LEMMA FoldExists ==
  ASSUME NEW S, IsFiniteSet(S), NEW base, NEW step
  PROVE  \E f : Folds(f, base, step, S)
<1> DEFINE Good == {T \in SUBSET S : \E f : Folds(f, base, step, T)}
<1>1. {} \in Good
  <2> DEFINE f == [T \in {{}} |-> base]
  <2>1. Folds(f, base, step, {})
    BY DEF Folds
  <2> QED BY <2>1
<1>2. ASSUME NEW T \in SUBSET S, T # {}, \A U \in SUBSET T : U # T => U \in Good
      PROVE  T \in Good
  <2> DEFINE F(U) == CHOOSE f : Folds(f, base, step, U)
             g == [U \in SUBSET T |-> IF U = {} THEN base
                     ELSE step[Pick(U)][F(U \ {Pick(U)})[U \ {Pick(U)}]]]
  <2>1. ASSUME NEW U \in SUBSET T, U # T PROVE Folds(F(U), base, step, U)
    BY <1>2, <2>1
  <2>2. ASSUME NEW U \in SUBSET T, U # T PROVE g[U] = F(U)[U]
    <3>1. CASE U = {}
      BY <2>1, <2>2, <3>1 DEF Folds
    <3>2. CASE U # {}
      <4> DEFINE V == U \ {Pick(U)}
      <4>1. V \in SUBSET T /\ V # T /\ V \in SUBSET U
        BY <2>2, <3>2, PickIn
      <4>2. Folds(F(V), base, step, V)
        BY <2>1, <4>1
      <4>3. Folds(F(U), base, step, V)
        <5>1. Folds(F(U), base, step, U)
          BY <2>1, <2>2
        <5> HIDE DEF F, V
        <5> QED BY <4>1, <5>1 DEF Folds
      <4>4. F(U)[V] = F(V)[V]
        <5>1. IsFiniteSet(V)
          BY <4>1, FS_Subset
        <5> HIDE DEF F, V
        <5> QED BY <4>2, <4>3, <5>1, FoldUnique
      <4>5. F(U)[U] = step[Pick(U)][F(U)[V]]
        <5>1. Folds(F(U), base, step, U)
          BY <2>1, <2>2
        <5> HIDE DEF F
        <5> QED BY <3>2, <5>1 DEF Folds
      <4>6. g[U] = step[Pick(U)][F(V)[V]]
        BY <3>2
      <4> HIDE DEF F, V, g
      <4> QED BY <4>4, <4>5, <4>6
    <3> QED BY <3>1, <3>2
  <2>3. ASSUME NEW U \in SUBSET T
        PROVE  g[U] = IF U = {} THEN base ELSE step[Pick(U)][g[U \ {Pick(U)}]]
    <3>1. CASE U = {}
      BY <3>1
    <3>2. CASE U # {}
      <4> DEFINE V == U \ {Pick(U)}
      <4>1. V \in SUBSET T /\ V # T
        BY <3>2, PickIn
      <4>2. g[V] = F(V)[V]
        BY <2>2, <4>1
      <4>3. g[U] = step[Pick(U)][F(V)[V]]
        BY <3>2
      <4> HIDE DEF F, V, g
      <4> QED BY <3>2, <4>2, <4>3 DEF V
    <3> QED BY <3>1, <3>2
  <2>4. Folds(g, base, step, T)
    <3> HIDE DEF g
    <3> QED BY <2>3 DEF Folds
  <2> QED BY <2>4
<1>3. \A T \in SUBSET S : T \in Good
  <2> HIDE DEF Good
  <2> QED BY <1>1, <1>2, SubsetInduction
<1> QED BY <1>3

-----------------------------------------------------------------------------
(* A sum, one element after the other.                                     *)

Valued(w, S) == \A x \in S : w[x] \in Int
Sums(f, w, S) == \A T \in SUBSET S :
    /\ f[T] \in Int
    /\ f[T] = IF T = {} THEN 0 ELSE w[Pick(T)] + f[T \ {Pick(T)}]

LEMMA TotalUnfolds ==
  ASSUME NEW S, IsFiniteSet(S), NEW w, Valued(w, S)
  PROVE  \E f : Total(w, S) = f[S] /\ Sums(f, w, S)
<1> DEFINE step == [x \in S |-> [v \in Int |-> w[x] + v]]
           Def(f) == [T \in SUBSET S |->
                        IF T = {} THEN 0 ELSE w[Pick(T)] + f[T \ {Pick(T)}]]
<1>1. PICK f : Folds(f, 0, step, S)
  <2> HIDE DEF step
  <2> QED BY FoldExists
<1>2. \A T \in SUBSET S :
        f[T] \in Int /\ (T # {} => f[T] = w[Pick(T)] + f[T \ {Pick(T)}])
  <2> DEFINE Good == {T \in SUBSET S :
                        f[T] \in Int /\ (T # {} => f[T] = w[Pick(T)] + f[T \ {Pick(T)}])}
  <2>0. f[{}] = 0
    <3> HIDE DEF step
    <3> QED BY <1>1 DEF Folds
  <2>1. {} \in Good
    BY <2>0
  <2>2. ASSUME NEW T \in SUBSET S, T # {}, \A U \in SUBSET T : U # T => U \in Good
        PROVE  T \in Good
    <3>1. T \ {Pick(T)} \in Good /\ Pick(T) \in S
      BY <2>2, PickIn
    <3>2. f[T] = step[Pick(T)][f[T \ {Pick(T)}]]
      BY <1>1, <2>2 DEF Folds
    <3>3. w[Pick(T)] \in Int
      BY <3>1 DEF Valued
    <3> QED BY <3>1, <3>2, <3>3
  <2>3. \A T \in SUBSET S : T \in Good
    <3> HIDE DEF Good
    <3> QED BY <2>1, <2>2, SubsetInduction
  <2> QED BY <2>3
<1> DEFINE g == [T \in SUBSET S |-> f[T]]
<1>3. g = Def(g)
  <2>1. f[{}] = 0
    BY <1>1 DEF Folds
  <2> QED BY <1>2, <2>1
<1> DEFINE h == CHOOSE k : k = Def(k)
<1>4. h = Def(h)
  <2> HIDE DEF g, Def
  <2> QED BY <1>3
<1>5. Total(w, S) = h[S]
  BY DEF Total, FoldSet, MapThenFoldSet, Pick
<1>6. \A T \in SUBSET S :
        h[T] = IF T = {} THEN 0 ELSE w[Pick(T)] + h[T \ {Pick(T)}]
  <2> HIDE DEF h
  <2> QED BY <1>4
<1>7. \A T \in SUBSET S : h[T] \in Int
  <2> DEFINE Good == {T \in SUBSET S : h[T] \in Int}
  <2> HIDE DEF h
  <2>1. h[{}] = 0
    BY <1>6
  <2>2. {} \in Good
    BY <2>1
  <2>3. ASSUME NEW T \in SUBSET S, T # {}, \A U \in SUBSET T : U # T => U \in Good
        PROVE  T \in Good
    <3>1. T \ {Pick(T)} \in Good /\ Pick(T) \in S
      BY <2>3, PickIn
    <3>2. h[T \ {Pick(T)}] \in Int /\ w[Pick(T)] \in Int
      BY <3>1 DEF Valued
    <3>3. h[T] = w[Pick(T)] + h[T \ {Pick(T)}]
      BY <1>6, <2>3
    <3>4. h[T] \in Int
      BY <3>2, <3>3
    <3> QED BY <3>4
  <2>4. \A T \in SUBSET S : T \in Good
    <3> HIDE DEF Good
    <3> QED BY <2>2, <2>3, SubsetInduction
  <2> QED BY <2>4
<1> HIDE DEF h
<1> QED BY <1>5, <1>6, <1>7 DEF Sums

\* A sum over a subset is the same sum.
LEMMA TotalWithin ==
  ASSUME NEW S, IsFiniteSet(S), NEW w, Valued(w, S), NEW f, Sums(f, w, S)
  PROVE  \A T \in SUBSET S : Total(w, T) = f[T]
<1> DEFINE Agree(g) == {T \in SUBSET S : g[T] = f[T]}
<1> SUFFICES ASSUME NEW R \in SUBSET S PROVE Total(w, R) = f[R]
  OBVIOUS
<1>0. IsFiniteSet(R) /\ Valued(w, R)
  BY FS_Subset DEF Valued
<1>1. PICK g : Total(w, R) = g[R] /\ Sums(g, w, R)
  BY <1>0, TotalUnfolds
<1> DEFINE Good == {T \in SUBSET R : g[T] = f[T]}
<1>2. {} \in Good
  <2>1. g[{}] = 0 /\ f[{}] = 0
    BY <1>1 DEF Sums
  <2> QED BY <2>1
<1>3. ASSUME NEW T \in SUBSET R, T # {}, \A U \in SUBSET T : U # T => U \in Good
      PROVE  T \in Good
  <2>1. T \ {Pick(T)} \in Good
    BY <1>3, PickIn
  <2>2. /\ f[T] = w[Pick(T)] + f[T \ {Pick(T)}]
        /\ g[T] = w[Pick(T)] + g[T \ {Pick(T)}]
    <3>1. T \in SUBSET S
      OBVIOUS
    <3> HIDE DEF Good
    <3> QED BY <1>1, <1>3, <3>1 DEF Sums
  <2> QED BY <2>1, <2>2
<1>4. \A T \in SUBSET R : T \in Good
  <2> HIDE DEF Good
  <2> QED BY <1>0, <1>2, <1>3, SubsetInduction
<1> QED BY <1>1, <1>4

\* The two facts that everything about sums follows from.
LEMMA TotalEmpty == ASSUME NEW w PROVE Total(w, {}) = 0
<1>1. IsFiniteSet({}) /\ Valued(w, {})
  BY FS_EmptySet DEF Valued
<1>2. PICK f : Total(w, {}) = f[{}] /\ Sums(f, w, {})
  BY <1>1, TotalUnfolds
<1> QED BY <1>2 DEF Sums

LEMMA TotalTakes ==
  ASSUME NEW S, IsFiniteSet(S), NEW w, Valued(w, S)
  PROVE  /\ Total(w, S) \in Int
         /\ \A x \in S : Total(w, S) = w[x] + Total(w, S \ {x})
<1>1. PICK f : Total(w, S) = f[S] /\ Sums(f, w, S)
  BY TotalUnfolds
<1> DEFINE Good == {T \in SUBSET S : \A x \in T : f[T] = w[x] + f[T \ {x}]}
<1>2. {} \in Good
  OBVIOUS
<1>3. ASSUME NEW T \in SUBSET S, T # {}, \A U \in SUBSET T : U # T => U \in Good
      PROVE  T \in Good
  <2> SUFFICES ASSUME NEW x \in T PROVE f[T] = w[x] + f[T \ {x}]
    OBVIOUS
  <2> DEFINE y == Pick(T)
  <2>1. y \in T /\ f[T] = w[y] + f[T \ {y}]
    BY <1>1, <1>3, PickIn DEF Sums
  <2>2. CASE x = y
    BY <2>1, <2>2
  <2>3. CASE x # y
    <3> HIDE DEF y
    <3>1. T \ {x} \in Good /\ T \ {y} \in Good
      BY <1>3, <2>1
    <3>2. f[T \ {x}] = w[y] + f[(T \ {x}) \ {y}] /\ f[T \ {y}] = w[x] + f[(T \ {y}) \ {x}]
      BY <2>1, <2>3, <3>1
    <3>3. (T \ {x}) \ {y} = (T \ {y}) \ {x}
      OBVIOUS
    <3>4. w[x] \in Int /\ w[y] \in Int /\ f[(T \ {y}) \ {x}] \in Int
      <4>1. x \in S /\ y \in S /\ (T \ {y}) \ {x} \in SUBSET S
        BY <2>1
      <4> QED BY <1>1, <4>1 DEF Sums, Valued
    <3>5. f[(T \ {x}) \ {y}] = f[(T \ {y}) \ {x}]
      BY <3>3
    <3> QED BY ONLY <2>1, <3>2, <3>4, <3>5
  <2> QED BY <2>2, <2>3
<1>4. \A T \in SUBSET S : T \in Good
  <2> HIDE DEF Good
  <2> QED BY <1>2, <1>3, SubsetInduction
<1>5. \A x \in S : Total(w, S \ {x}) = f[S \ {x}]
  BY <1>1, TotalWithin
<1> QED BY <1>1, <1>4, <1>5 DEF Sums

\* Sums of equal values are equal.
LEMMA TotalSame ==
  ASSUME NEW S, IsFiniteSet(S), NEW v, NEW w, Valued(w, S), \A x \in S : v[x] = w[x]
  PROVE  Total(v, S) = Total(w, S)
<1> DEFINE Good == {T \in SUBSET S : Total(v, T) = Total(w, T)}
<1>0. ASSUME NEW T \in SUBSET S PROVE IsFiniteSet(T) /\ Valued(v, T) /\ Valued(w, T)
  BY FS_Subset DEF Valued
<1>1. {} \in Good
  BY TotalEmpty
<1>2. ASSUME NEW T \in SUBSET S, T # {}, \A U \in SUBSET T : U # T => U \in Good
      PROVE  T \in Good
  <2>1. PICK x : x \in T
    BY <1>2
  <2>2. T \ {x} \in Good /\ v[x] = w[x]
    BY <1>2, <2>1
  <2>3. Total(v, T) = v[x] + Total(v, T \ {x}) /\ Total(w, T) = w[x] + Total(w, T \ {x})
    BY <1>0, <2>1, TotalTakes
  <2> QED BY <2>2, <2>3
<1>3. \A T \in SUBSET S : T \in Good
  <2> HIDE DEF Good
  <2> QED BY <1>1, <1>2, SubsetInduction
<1> QED BY <1>3

\* A sum of nothing but zeros.
LEMMA TotalZero ==
  ASSUME NEW S, IsFiniteSet(S), NEW w, \A x \in S : w[x] = 0
  PROVE  Total(w, S) = 0
<1> DEFINE Good == {T \in SUBSET S : Total(w, T) = 0}
<1>0. ASSUME NEW T \in SUBSET S PROVE IsFiniteSet(T) /\ Valued(w, T)
  BY FS_Subset DEF Valued
<1>1. {} \in Good
  BY TotalEmpty
<1>2. ASSUME NEW T \in SUBSET S, T # {}, \A U \in SUBSET T : U # T => U \in Good
      PROVE  T \in Good
  <2>1. PICK x : x \in T
    BY <1>2
  <2>2. T \ {x} \in Good /\ w[x] = 0
    BY <1>2, <2>1
  <2>3. Total(w, T) = w[x] + Total(w, T \ {x})
    BY <1>0, <2>1, TotalTakes
  <2> QED BY <2>2, <2>3
<1>3. \A T \in SUBSET S : T \in Good
  <2> HIDE DEF Good
  <2> QED BY <1>1, <1>2, SubsetInduction
<1> QED BY <1>3

\* One value changes.
LEMMA TotalMoves ==
  ASSUME NEW S, IsFiniteSet(S), NEW v, NEW w, Valued(v, S), Valued(w, S),
         NEW x \in S, \A y \in S \ {x} : v[y] = w[y]
  PROVE  Total(v, S) = Total(w, S) + v[x] - w[x]
<1>1. IsFiniteSet(S \ {x}) /\ Valued(v, S \ {x}) /\ Valued(w, S \ {x})
  BY FS_Subset DEF Valued
<1>2. Total(v, S \ {x}) = Total(w, S \ {x}) /\ Total(w, S \ {x}) \in Int
  BY <1>1, TotalSame, TotalTakes
<1>3. Total(v, S) = v[x] + Total(v, S \ {x}) /\ Total(w, S) = w[x] + Total(w, S \ {x})
  BY TotalTakes
<1>4. v[x] \in Int /\ w[x] \in Int
  BY DEF Valued
<1> QED BY <1>2, <1>3, <1>4

\* A sum in two parts.
LEMMA TotalSplits ==
  ASSUME NEW S, IsFiniteSet(S), NEW w, Valued(w, S), NEW R \in SUBSET S
  PROVE  Total(w, S) = Total(w, R) + Total(w, S \ R)
<1> DEFINE Good == {T \in SUBSET R : Total(w, T \cup (S \ R)) = Total(w, T) + Total(w, S \ R)}
<1>0. ASSUME NEW T \in SUBSET S
      PROVE  IsFiniteSet(T) /\ Valued(w, T) /\ Total(w, T) \in Int
  <2>1. IsFiniteSet(T) /\ Valued(w, T)
    BY FS_Subset DEF Valued
  <2> QED BY <2>1, TotalTakes
<1>1. {} \in Good
  <2>1. Total(w, S \ R) \in Int /\ {} \cup (S \ R) = S \ R
    BY <1>0
  <2> QED BY <2>1, TotalEmpty
<1>2. ASSUME NEW T \in SUBSET R, T # {}, \A U \in SUBSET T : U # T => U \in Good
      PROVE  T \in Good
  <2>1. PICK x : x \in T
    BY <1>2
  <2>2. T \ {x} \in Good /\ w[x] \in Int
    BY <1>2, <2>1 DEF Valued
  <2>3. (T \cup (S \ R)) \ {x} = (T \ {x}) \cup (S \ R) /\ T \cup (S \ R) \in SUBSET S
        /\ T \in SUBSET S /\ T \ {x} \in SUBSET S
    BY <2>1
  <2>4. Total(w, T) = w[x] + Total(w, T \ {x})
    BY <1>0, <2>1, <2>3, TotalTakes
  <2>5. Total(w, T \cup (S \ R)) = w[x] + Total(w, (T \ {x}) \cup (S \ R))
    BY <1>0, <2>1, <2>3, TotalTakes
  <2>6. Total(w, T \ {x}) \in Int /\ Total(w, S \ R) \in Int
    BY <1>0, <2>3
  <2> QED BY <2>2, <2>4, <2>5, <2>6
<1>3. \A T \in SUBSET R : T \in Good
  <2> HIDE DEF Good
  <2> QED BY <1>0, <1>1, <1>2, SubsetInduction
<1>4. R \cup (S \ R) = S
  OBVIOUS
<1> QED BY <1>3, <1>4

\* A sum by groups: `group` puts every element of S into one of the groups G.
LEMMA TotalGroups ==
  ASSUME NEW S, IsFiniteSet(S), NEW w, Valued(w, S), NEW G, IsFiniteSet(G),
         NEW group, \A x \in S : group[x] \in G
  PROVE  Total([g \in G |-> Total(w, {x \in S : group[x] = g})], G) = Total(w, S)
<1> DEFINE Of(g) == {x \in S : group[x] = g}
           In(T) == {x \in S : group[x] \in T}
           sub == [g \in G |-> Total(w, Of(g))]
           Good == {T \in SUBSET G : Total(sub, T) = Total(w, In(T))}
<1>0. ASSUME NEW T \in SUBSET S
      PROVE  IsFiniteSet(T) /\ Valued(w, T) /\ Total(w, T) \in Int
  <2>1. IsFiniteSet(T) /\ Valued(w, T)
    BY FS_Subset DEF Valued
  <2> QED BY <2>1, TotalTakes
<1>1. {} \in Good
  <2>1. In({}) = {}
    OBVIOUS
  <2> QED BY <2>1, TotalEmpty
<1>2. ASSUME NEW T \in SUBSET G, T # {}, \A U \in SUBSET T : U # T => U \in Good
      PROVE  T \in Good
  <2>1. PICK g : g \in T
    BY <1>2
  <2>2. Total(sub, T \ {g}) = Total(w, In(T \ {g}))
    BY <1>2, <2>1
  <2>3. Total(sub, T) = sub[g] + Total(sub, T \ {g})
    <3>1. IsFiniteSet(T)
      BY FS_Subset
    <3>2. Valued(sub, T)
      <4>1. \A k \in G : Of(k) \in SUBSET S
        OBVIOUS
      <4>2. \A k \in G : sub[k] = Total(w, Of(k))
        OBVIOUS
      <4> HIDE DEF Of, sub
      <4> QED BY <1>0, <4>1, <4>2 DEF Valued
    <3> HIDE DEF sub
    <3> QED BY <2>1, <3>1, <3>2, TotalTakes
  <2>4. Total(w, In(T)) = Total(w, Of(g)) + Total(w, In(T \ {g}))
    <3>1. In(T) \ Of(g) = In(T \ {g}) /\ Of(g) \in SUBSET In(T) /\ In(T) \in SUBSET S
      BY <2>1
    <3>2. IsFiniteSet(In(T)) /\ Valued(w, In(T))
      BY <1>0, <3>1
    <3> HIDE DEF In, Of
    <3>3. Total(w, In(T)) = Total(w, Of(g)) + Total(w, In(T) \ Of(g))
      BY <3>1, <3>2, TotalSplits
    <3> QED BY <3>1, <3>3
  <2>5. sub[g] = Total(w, Of(g))
    BY <2>1
  <2> HIDE DEF In, Of, sub
  <2> QED BY <2>2, <2>3, <2>4, <2>5
<1>3. \A T \in SUBSET G : T \in Good
  <2> HIDE DEF Good
  <2> QED BY <1>1, <1>2, SubsetInduction
<1>4. In(G) = S
  OBVIOUS
<1> QED BY <1>3, <1>4

\* The same values under other names.
LEMMA TotalRenamed ==
  ASSUME NEW S, IsFiniteSet(S), NEW v, Valued(v, S), NEW R, NEW w, NEW name,
         \A x \in S : name[x] \in R /\ w[name[x]] = v[x],
         \A x, y \in S : name[x] = name[y] => x = y,
         \A r \in R : \E x \in S : name[x] = r
  PROVE  Total(w, R) = Total(v, S)
<1> DEFINE Of(T) == {name[x] : x \in T}
           Good == {T \in SUBSET S : Total(w, Of(T)) = Total(v, T)}
<1>0. ASSUME NEW T \in SUBSET S
      PROVE  IsFiniteSet(T) /\ Valued(v, T) /\ IsFiniteSet(Of(T)) /\ Valued(w, Of(T))
  <2>1. IsFiniteSet(T) /\ Valued(v, T)
    BY FS_Subset DEF Valued
  <2>2. Valued(w, Of(T))
    BY <2>1 DEF Valued
  <2>3. IsFiniteSet(Of(T))
    <3> DEFINE onto == [x \in T |-> name[x]]
    <3>1. onto \in Surjection(T, Of(T))
      BY DEF Surjection
    <3> HIDE DEF onto, Of
    <3> QED BY <2>1, <3>1, FS_Surjection
  <2> QED BY <2>1, <2>2, <2>3
<1>1. {} \in Good
  <2>1. Of({}) = {}
    OBVIOUS
  <2> QED BY <2>1, TotalEmpty
<1>2. ASSUME NEW T \in SUBSET S, T # {}, \A U \in SUBSET T : U # T => U \in Good
      PROVE  T \in Good
  <2>1. PICK x : x \in T
    BY <1>2
  <2>2. Total(w, Of(T \ {x})) = Total(v, T \ {x}) /\ w[name[x]] = v[x]
    BY <1>2, <2>1
  <2>3. Of(T) \ {name[x]} = Of(T \ {x}) /\ name[x] \in Of(T)
    BY <2>1
  <2>4. Total(v, T) = v[x] + Total(v, T \ {x})
    BY <1>0, <2>1, TotalTakes
  <2>5. Total(w, Of(T)) = w[name[x]] + Total(w, Of(T) \ {name[x]})
    <3>1. IsFiniteSet(Of(T)) /\ Valued(w, Of(T))
      BY <1>0
    <3> HIDE DEF Of
    <3> QED BY <2>3, <3>1, TotalTakes
  <2> QED BY <2>2, <2>3, <2>4, <2>5
<1>3. \A T \in SUBSET S : T \in Good
  <2> HIDE DEF Good
  <2> QED BY <1>1, <1>2, SubsetInduction
<1>4. Of(S) = R
  OBVIOUS
<1> QED BY <1>3, <1>4

\* Nowhere larger, no larger sum.
LEMMA TotalMonotone ==
  ASSUME NEW S, IsFiniteSet(S), NEW v, Valued(v, S), NEW w, Valued(w, S),
         \A x \in S : v[x] <= w[x]
  PROVE  Total(v, S) <= Total(w, S)
<1> DEFINE Good == {T \in SUBSET S : Total(v, T) <= Total(w, T)}
<1>0. ASSUME NEW T \in SUBSET S
      PROVE  /\ IsFiniteSet(T) /\ Valued(v, T) /\ Valued(w, T)
             /\ Total(v, T) \in Int /\ Total(w, T) \in Int
  <2>1. IsFiniteSet(T) /\ Valued(v, T) /\ Valued(w, T)
    BY FS_Subset DEF Valued
  <2> QED BY <2>1, TotalTakes
<1>1. {} \in Good
  BY TotalEmpty
<1>2. ASSUME NEW T \in SUBSET S, T # {}, \A U \in SUBSET T : U # T => U \in Good
      PROVE  T \in Good
  <2>1. PICK x : x \in T
    BY <1>2
  <2>2. Total(v, T \ {x}) <= Total(w, T \ {x}) /\ v[x] <= w[x] /\ v[x] \in Int /\ w[x] \in Int
    BY <1>2, <2>1 DEF Valued
  <2>3. Total(v, T) = v[x] + Total(v, T \ {x}) /\ Total(w, T) = w[x] + Total(w, T \ {x})
    BY <1>0, <2>1, TotalTakes
  <2>4. Total(v, T \ {x}) \in Int /\ Total(w, T \ {x}) \in Int
    BY <1>0
  <2> QED BY <2>2, <2>3, <2>4
<1>3. \A T \in SUBSET S : T \in Good
  <2> HIDE DEF Good
  <2> QED BY <1>1, <1>2, SubsetInduction
<1> QED BY <1>3

\* The sum of sums.
LEMMA TotalAdds ==
  ASSUME NEW S, IsFiniteSet(S), NEW u, NEW v, Valued(v, S), NEW w, Valued(w, S),
         \A x \in S : u[x] = v[x] + w[x]
  PROVE  Total(u, S) = Total(v, S) + Total(w, S)
<1> DEFINE Good == {T \in SUBSET S : Total(u, T) = Total(v, T) + Total(w, T)}
<1>0. ASSUME NEW T \in SUBSET S
      PROVE  /\ IsFiniteSet(T) /\ Valued(u, T) /\ Valued(v, T) /\ Valued(w, T)
             /\ Total(v, T) \in Int /\ Total(w, T) \in Int
  <2>1. IsFiniteSet(T) /\ Valued(u, T) /\ Valued(v, T) /\ Valued(w, T)
    BY FS_Subset DEF Valued
  <2> QED BY <2>1, TotalTakes
<1>1. {} \in Good
  BY TotalEmpty
<1>2. ASSUME NEW T \in SUBSET S, T # {}, \A U \in SUBSET T : U # T => U \in Good
      PROVE  T \in Good
  <2>1. PICK x : x \in T
    BY <1>2
  <2>2. /\ Total(u, T \ {x}) = Total(v, T \ {x}) + Total(w, T \ {x})
        /\ u[x] = v[x] + w[x] /\ v[x] \in Int /\ w[x] \in Int
    BY <1>2, <2>1 DEF Valued
  <2>3. /\ Total(u, T) = u[x] + Total(u, T \ {x}) /\ Total(v, T) = v[x] + Total(v, T \ {x})
        /\ Total(w, T) = w[x] + Total(w, T \ {x})
    BY <1>0, <2>1, TotalTakes
  <2>4. Total(v, T \ {x}) \in Int /\ Total(w, T \ {x}) \in Int
    BY <1>0
  <2> QED BY <2>2, <2>3, <2>4
<1>3. \A T \in SUBSET S : T \in Good
  <2> HIDE DEF Good
  <2> QED BY <1>1, <1>2, SubsetInduction
<1> QED BY <1>3

-----------------------------------------------------------------------------
(* The account as a value.                                                 *)

Fields == {"fees", "slippage", "funding", "realized"}
Leg == [symbol : Symbols, opened : Nat, role : Roles,
        fees : Int, slippage : Int, funding : Int, realized : Int]
IsPosition(p) ==
    /\ DOMAIN p = {"qty", "basis", "role", "opened"} \cup Fields
    /\ p.qty \in Int /\ p.basis \in Int /\ p.role \in Roles /\ p.opened \in Nat
    /\ p.fees \in Int /\ p.slippage \in Int /\ p.funding \in Int /\ p.realized \in Int
    /\ p.qty = 0 => p.basis = 0
IsAccount(a) ==
    /\ DOMAIN a = {"cash", "realized", "fees", "slippage", "received", "paid", "clock",
                   "observed", "positions", "closed"}
    /\ a.cash \in Int /\ a.realized \in Int /\ a.fees \in Int /\ a.slippage \in Int
    /\ a.received \in Int /\ a.paid \in Int /\ a.clock \in Int
    /\ a.observed \in [Symbols -> Nat]
    /\ DOMAIN a.positions = Symbols
    /\ \A s \in Symbols : IsPosition(a.positions[s])
    /\ a.closed \in Seq(Leg)

\* What neither the position of s nor a closed leg accounts for.
Loose(a, s) ==
    LET p == a.positions[s]
    IN  [fees     |-> a.fees - p.fees - OfLegs(a.closed, "fees"),
         slippage |-> a.slippage - p.slippage - OfLegs(a.closed, "slippage"),
         funding  |-> a.received - a.paid - p.funding - OfLegs(a.closed, "funding"),
         realized |-> a.realized - p.realized - OfLegs(a.closed, "realized")]

\* The money left when the position of s is paid for.
Rest(a, s) == a.cash - EntryValue(a.positions[s])

\* A trade in s leaves everything else alone, and loses no cent.
Beside(a, b, s) ==
    /\ IsAccount(b)
    /\ \A t \in Symbols \ {s} : b.positions[t] = a.positions[t]
    /\ b.observed = a.observed /\ b.clock = a.clock
    /\ b.received - b.paid = a.received - a.paid
    /\ Loose(b, s) = Loose(a, s)

\* The legs of a closed list, one more.
LEMMA LegAppended ==
  ASSUME NEW legs \in Seq(Leg), NEW leg \in Leg, NEW field \in Fields
  PROVE  /\ OfLegs(legs, field) \in Int
         /\ OfLegs(Append(legs, leg), field) = OfLegs(legs, field) + leg[field]
<1> DEFINE n == Len(legs)
           more == Append(legs, leg)
           v == [i \in DOMAIN legs |-> legs[i][field]]
           w == [i \in DOMAIN more |-> more[i][field]]
<1>1. /\ n \in Nat /\ DOMAIN legs = 1..n /\ DOMAIN more = 1..(n + 1)
      /\ more[n + 1] = leg /\ \A i \in 1..n : more[i] = legs[i] /\ legs[i] \in Leg
  OBVIOUS
<1>2. \A l \in Leg : l[field] \in Int
  BY DEF Leg, Fields
<1>3. Valued(v, 1..n) /\ Valued(w, 1..(n + 1)) /\ Valued(w, 1..n)
  BY <1>1, <1>2 DEF Valued
<1>4. IsFiniteSet(1..n) /\ IsFiniteSet(1..(n + 1))
  BY <1>1, FS_Interval
<1>5. Total(v, 1..n) \in Int /\ Total(v, 1..n) = Total(w, 1..n)
  <2>1. \A i \in 1..n : v[i] = w[i]
    BY <1>1
  <2> HIDE DEF v, w
  <2> QED BY <1>3, <1>4, <2>1, TotalSame, TotalTakes
<1>6. Total(w, 1..(n + 1)) = w[n + 1] + Total(w, 1..n)
  <2>1. (1..(n + 1)) \ {n + 1} = 1..n /\ n + 1 \in 1..(n + 1)
    BY <1>1
  <2> HIDE DEF v, w
  <2> QED BY <1>3, <1>4, <2>1, TotalTakes
<1>7. w[n + 1] = leg[field] /\ leg[field] \in Int
  BY <1>1, <1>2
<1> HIDE DEF n, more, v, w
<1>8. OfLegs(legs, field) = Total(v, 1..n) /\ OfLegs(more, field) = Total(w, 1..(n + 1))
  BY <1>1 DEF OfLegs, v, w
<1> QED BY <1>5, <1>6, <1>7, <1>8 DEF more

LEMMA LegSums ==
  ASSUME NEW legs \in Seq(Leg), NEW field \in Fields PROVE OfLegs(legs, field) \in Int
<1> DEFINE v == [i \in DOMAIN legs |-> legs[i][field]]
<1>1. Len(legs) \in Nat /\ DOMAIN legs = 1..Len(legs) /\ \A i \in DOMAIN legs : legs[i] \in Leg
  OBVIOUS
<1>2. Valued(v, DOMAIN legs)
  BY <1>1 DEF Valued, Leg, Fields
<1>3. IsFiniteSet(DOMAIN legs)
  BY <1>1, FS_Interval
<1> HIDE DEF v
<1> QED BY <1>2, <1>3, TotalTakes DEF OfLegs, v

LEMMA Entry ==
  ASSUME NEW p, p.qty \in Int, p.basis \in Int
  PROVE  /\ EntryValue(p) = IF p.qty < 0 THEN -p.basis ELSE p.basis
         /\ EntryValue(p) \in Int
<1>1. CASE p.qty < 0
  <2>1. EntryValue(p) = (-1) * p.basis
    BY <1>1 DEF EntryValue, Sign
  <2> QED BY <1>1, <2>1
<1>2. CASE ~(p.qty < 0)
  <2>1. EntryValue(p) = 1 * p.basis
    BY <1>2 DEF EntryValue, Sign
  <2> QED BY <1>2, <2>1
<1> QED BY <1>1, <1>2

\* Frictions.
LEMMA Charged ==
  ASSUME NEW a, IsAccount(a), NEW s \in Symbols, NEW units \in Nat
  PROVE  LET b == ChargeFrictions(a, s, units)
         IN  /\ Beside(a, b, s)
             /\ Rest(b, s) = Rest(a, s) - (FeeUnit + SlipUnit) * units
             /\ b.positions[s].qty = a.positions[s].qty
             /\ b.positions[s].basis = a.positions[s].basis
             /\ b.positions[s].role = a.positions[s].role
             /\ b.positions[s].opened = a.positions[s].opened
             /\ b.closed = a.closed
<1> DEFINE b == ChargeFrictions(a, s, units)
           p == a.positions[s]
           q == b.positions[s]
<1>1. Fee(units) \in Int /\ Slip(units) \in Int
  BY AccountAssumption DEF Fee, Slip
<1>2. /\ DOMAIN b = DOMAIN a /\ b.cash = a.cash - Fee(units) - Slip(units)
      /\ b.fees = a.fees + Fee(units) /\ b.slippage = a.slippage + Slip(units)
      /\ b.realized = a.realized /\ b.received = a.received /\ b.paid = a.paid
      /\ b.clock = a.clock /\ b.observed = a.observed /\ b.closed = a.closed
      /\ DOMAIN b.positions = DOMAIN a.positions
      /\ \A t \in Symbols \ {s} : b.positions[t] = a.positions[t]
  BY DEF ChargeFrictions, IsAccount
<1>3. /\ DOMAIN q = DOMAIN p /\ q.qty = p.qty /\ q.basis = p.basis /\ q.role = p.role
      /\ q.opened = p.opened /\ q.fees = p.fees + Fee(units)
      /\ q.slippage = p.slippage + Slip(units)
      /\ q.funding = p.funding /\ q.realized = p.realized
  BY DEF ChargeFrictions, IsAccount, IsPosition, Fields
<1>4. IsPosition(p)
  BY DEF IsAccount
<1> HIDE DEF b, q, p
<1>5. IsPosition(q)
  BY <1>1, <1>3, <1>4 DEF IsPosition
<1>6. \A t \in Symbols : IsPosition(b.positions[t])
  BY <1>2, <1>5 DEF IsAccount, q
<1>7. IsAccount(b)
  <2>1. a.cash \in Int /\ a.fees \in Int /\ a.slippage \in Int
    BY DEF IsAccount
  <2>2. b.cash \in Int /\ b.fees \in Int /\ b.slippage \in Int
    BY <1>1, <1>2, <2>1
  <2> QED BY <1>2, <1>6, <2>2 DEF IsAccount
<1>8. Loose(b, s) = Loose(a, s)
  <2>1. OfLegs(a.closed, "fees") \in Int /\ OfLegs(a.closed, "slippage") \in Int
    BY LegSums DEF IsAccount, Fields
  <2>2. /\ a.fees \in Int /\ a.slippage \in Int /\ p.fees \in Int /\ p.slippage \in Int
    BY <1>4 DEF IsAccount, IsPosition
  <2>3. /\ b.fees - q.fees - OfLegs(b.closed, "fees") = a.fees - p.fees - OfLegs(a.closed, "fees")
        /\ b.slippage - q.slippage - OfLegs(b.closed, "slippage")
             = a.slippage - p.slippage - OfLegs(a.closed, "slippage")
    BY <1>1, <1>2, <1>3, <2>1, <2>2
  <2> QED BY <1>2, <1>3, <2>3 DEF Loose, p, q
<1>9. Rest(b, s) = Rest(a, s) - (FeeUnit + SlipUnit) * units
  <2>1. (FeeUnit + SlipUnit) * units = Fee(units) + Slip(units)
    BY AccountAssumption DEF Fee, Slip
  <2>2. a.cash \in Int /\ EntryValue(p) \in Int /\ EntryValue(q) = EntryValue(p)
    BY <1>3, <1>4, <1>5, Entry DEF IsAccount, IsPosition
  <2> QED BY <1>1, <1>2, <2>1, <2>2 DEF Rest, p, q
<1> QED
  BY <1>2, <1>3, <1>7, <1>8, <1>9 DEF Beside, b, p, q

LEMMA BesideTrans ==
  ASSUME NEW a, NEW b, NEW c, NEW s, Beside(a, b, s), Beside(b, c, s)
  PROVE  Beside(a, c, s)
BY DEF Beside

LEMMA BesideSelf == ASSUME NEW a, IsAccount(a), NEW s PROVE Beside(a, a, s)
BY DEF Beside

\* Dividing what was multiplied.
LEMMA Divided ==
  ASSUME NEW n \in Int, NEW d \in Nat \ {0}, NEW u \in Int
  PROVE  (n * u) \div d \in Int /\ (n * d) \div d = n
<1>1. n * u \in Int /\ n * d \in Int
  OBVIOUS
<1>2. (n * u) \div d \in Int
  BY <1>1
<1> DEFINE k == (n * d) \div d
<1>3. k \in Int /\ d * k <= n * d /\ n * d < d * k + d
  BY <1>1
<1> HIDE DEF k
<1>4. ~(k < n)
  <2> SUFFICES ASSUME k + 1 <= n PROVE FALSE
    BY <1>3
  <2>1. d * (k + 1) <= d * n
    BY <1>3
  <2> QED BY <1>3, <2>1
<1>5. ~(n < k)
  <2> SUFFICES ASSUME n + 1 <= k PROVE FALSE
    BY <1>3
  <2>1. d * (n + 1) <= d * k
    BY <1>3
  <2> QED BY <1>3, <2>1
<1>6. k = n
  BY <1>3, <1>4, <1>5
<1> QED BY <1>2, <1>6 DEF k

\* A part of a position is sold or bought back at the mark.
LEMMA PartRealized ==
  ASSUME NEW a, IsAccount(a), NEW s \in Symbols, a.positions[s].qty # 0,
         NEW units \in Nat, units <= Abs(a.positions[s].qty), NEW mark \in Nat
  PROVE  LET b == Realize(a, s, units, mark)
             left == IF a.positions[s].qty < 0 THEN a.positions[s].qty + units
                                               ELSE a.positions[s].qty - units
         IN  /\ Beside(a, b, s)
             /\ b.positions[s].qty = left
             /\ Rest(b, s) = Rest(a, s) - (left - a.positions[s].qty) * mark
             /\ b.positions[s].role = a.positions[s].role
             /\ b.positions[s].opened = a.positions[s].opened
             /\ b.closed = a.closed
<1> DEFINE b == Realize(a, s, units, mark)
           p == a.positions[s]
           q == b.positions[s]
           cost == (p.basis * units) \div Abs(p.qty)
           gain == Sign(p.qty) * (units * mark - cost)
           left == IF p.qty < 0 THEN p.qty + units ELSE p.qty - units
<1>1. IsPosition(p)
  BY DEF IsAccount
<1>2. /\ DOMAIN b = DOMAIN a /\ b.cash = a.cash + gain /\ b.realized = a.realized + gain
      /\ b.fees = a.fees /\ b.slippage = a.slippage
      /\ b.received = a.received /\ b.paid = a.paid
      /\ b.clock = a.clock /\ b.observed = a.observed /\ b.closed = a.closed
      /\ DOMAIN b.positions = DOMAIN a.positions
      /\ \A t \in Symbols \ {s} : b.positions[t] = a.positions[t]
  BY DEF Realize, IsAccount
<1>3. /\ DOMAIN q = DOMAIN p /\ q.qty = p.qty - Sign(p.qty) * units
      /\ q.basis = p.basis - cost /\ q.role = p.role /\ q.opened = p.opened
      /\ q.fees = p.fees /\ q.slippage = p.slippage
      /\ q.funding = p.funding /\ q.realized = p.realized + gain
  <2>1. DOMAIN p = {"qty", "basis", "role", "opened"} \cup Fields /\ s \in DOMAIN a.positions
    BY <1>1 DEF IsAccount, IsPosition
  <2>2. q = [p EXCEPT !.realized = @ + gain, !.basis = @ - cost, !.qty = @ - Sign(@) * units]
    BY <2>1 DEF Realize, IsAccount
  <2> HIDE DEF q, p, gain, cost
  <2> QED BY <2>1, <2>2 DEF Fields
<1> HIDE DEF b, q, p
<1>4. /\ Abs(p.qty) \in Nat \ {0} /\ units <= Abs(p.qty)
      /\ Abs(p.qty) = IF p.qty < 0 THEN -p.qty ELSE p.qty
      /\ Sign(p.qty) = IF p.qty < 0 THEN -1 ELSE 1
  BY <1>1 DEF Abs, Sign, IsPosition, p
<1>5. cost \in Int /\ (units = Abs(p.qty) => cost = p.basis)
  BY <1>1, <1>4, Divided DEF IsPosition
<1> HIDE DEF cost
<1>6. q.qty = left /\ left \in Int
  BY <1>1, <1>3, <1>4 DEF IsPosition
<1>7. /\ units * mark \in Int /\ gain \in Int
      /\ gain = IF p.qty < 0 THEN cost - units * mark ELSE units * mark - cost
  BY <1>4, <1>5
<1> HIDE DEF gain
<1>8. left = 0 => units = Abs(p.qty)
  BY <1>1, <1>4 DEF IsPosition
<1>9. IsPosition(q)
  BY <1>1, <1>3, <1>5, <1>6, <1>7, <1>8 DEF IsPosition
<1>10. IsAccount(b)
  <2>1. b.cash \in Int /\ b.realized \in Int
    <3>1. gain \in Int /\ a.cash \in Int /\ a.realized \in Int
      BY <1>7 DEF IsAccount
    <3> QED BY <1>2, <3>1
  <2>2. \A t \in Symbols : IsPosition(b.positions[t])
    BY <1>2, <1>9 DEF IsAccount, q
  <2> QED BY <1>2, <2>1, <2>2 DEF IsAccount
<1>11. Loose(b, s) = Loose(a, s)
  <2>1. OfLegs(a.closed, "realized") \in Int
    BY LegSums DEF IsAccount, Fields
  <2>2. a.realized \in Int /\ p.realized \in Int
    BY <1>1 DEF IsAccount, IsPosition
  <2>3. b.realized - q.realized - OfLegs(b.closed, "realized")
          = a.realized - p.realized - OfLegs(a.closed, "realized")
    BY <1>2, <1>3, <1>7, <2>1, <2>2
  <2> QED BY <1>2, <1>3, <2>3 DEF Loose, p, q
<1>12. Rest(b, s) = Rest(a, s) - (left - p.qty) * mark
  <2>1. EntryValue(p) = IF p.qty < 0 THEN -p.basis ELSE p.basis
    BY <1>1, Entry DEF IsPosition
  <2>2. EntryValue(q) = IF p.qty < 0 THEN -q.basis ELSE q.basis
    <3>1. EntryValue(q) = IF q.qty < 0 THEN -q.basis ELSE q.basis
      BY <1>9, Entry DEF IsPosition
    <3>2. CASE q.qty = 0
      <4>1. q.basis = 0
        BY <1>9, <3>2 DEF IsPosition
      <4> QED BY <3>1, <4>1
    <3>3. CASE q.qty # 0
      <4>1. q.qty < 0 <=> p.qty < 0
        BY <1>1, <1>4, <1>6, <3>3 DEF IsPosition
      <4> QED BY <3>1, <4>1
    <3> QED BY <3>2, <3>3
  <2>3. (left - p.qty) * mark = IF p.qty < 0 THEN units * mark ELSE -(units * mark)
    <3>1. CASE p.qty < 0
      <4>1. left - p.qty = units
        BY <1>1, <3>1 DEF IsPosition
      <4> HIDE DEF left
      <4> QED BY <3>1, <4>1
    <3>2. CASE ~(p.qty < 0)
      <4>1. left - p.qty = (-1) * units
        BY <1>1, <3>2 DEF IsPosition
      <4>2. ((-1) * units) * mark = -(units * mark)
        OBVIOUS
      <4> HIDE DEF left
      <4> QED BY <3>2, <4>1, <4>2
    <3> QED BY <3>1, <3>2
  <2>4. a.cash \in Int /\ p.basis \in Int
    BY <1>1 DEF IsAccount, IsPosition
  <2> HIDE DEF left
  <2>5. b.cash - EntryValue(q) = a.cash - EntryValue(p) - (left - p.qty) * mark
    BY <1>2, <1>3, <1>5, <1>7, <2>1, <2>2, <2>3, <2>4
  <2> QED BY <2>5 DEF Rest, p, q
<1> QED
  BY <1>2, <1>3, <1>6, <1>10, <1>11, <1>12 DEF Beside, b, p, q

\* The position of s becomes n, no money moves.
Becomes(a, b, s, n) ==
    /\ DOMAIN b = DOMAIN a /\ b.cash = a.cash /\ b.realized = a.realized
    /\ b.fees = a.fees /\ b.slippage = a.slippage
    /\ b.received = a.received /\ b.paid = a.paid
    /\ b.clock = a.clock /\ b.observed = a.observed
    /\ DOMAIN b.positions = DOMAIN a.positions /\ b.positions[s] = n
    /\ \A t \in Symbols \ {s} : b.positions[t] = a.positions[t]

\* It changes in what is not money.
LEMMA Relabelled ==
  ASSUME NEW a, IsAccount(a), NEW s \in Symbols, NEW n, IsPosition(n),
         \A field \in Fields : n[field] = a.positions[s][field],
         NEW b, Becomes(a, b, s, n), b.closed = a.closed
  PROVE  Beside(a, b, s)
<1>1. \A t \in Symbols : IsPosition(b.positions[t])
  BY DEF IsAccount, Becomes
<1>2. IsAccount(b)
  BY <1>1 DEF IsAccount, Becomes
<1>3. Loose(b, s) = Loose(a, s)
  BY DEF Loose, Fields, Becomes
<1> QED BY <1>2, <1>3 DEF Beside, Becomes

\* It is closed to the journal and a fresh one takes its place.
LEMMA Popped ==
  ASSUME NEW a, IsAccount(a), NEW s \in Symbols, NEW n, IsPosition(n),
         \A field \in Fields : n[field] = 0,
         NEW b, Becomes(a, b, s, n), b.closed = Append(a.closed, ClosedLeg(s, a.positions[s]))
  PROVE  Beside(a, b, s)
<1> DEFINE leg == ClosedLeg(s, a.positions[s])
           p == a.positions[s]
<1>1. IsPosition(p)
  BY DEF IsAccount
<1>2. leg \in Leg /\ \A field \in Fields : leg[field] = p[field]
  BY <1>1 DEF IsPosition, ClosedLeg, Leg, Fields
<1>3. b.closed = Append(a.closed, leg)
  OBVIOUS
<1> HIDE DEF leg, p
<1>4. \A t \in Symbols : IsPosition(b.positions[t])
  BY DEF IsAccount, Becomes
<1>5. IsAccount(b)
  BY <1>2, <1>3, <1>4 DEF IsAccount, Becomes
<1>6. Loose(b, s) = Loose(a, s)
  <2>1. \A field \in Fields : /\ OfLegs(a.closed, field) \in Int /\ p[field] \in Int
                              /\ OfLegs(b.closed, field) = OfLegs(a.closed, field) + p[field]
    <3>1. a.closed \in Seq(Leg)
      BY DEF IsAccount
    <3>2. \A field \in Fields : p[field] \in Int
      BY <1>1 DEF IsPosition, Fields
    <3> QED BY <1>2, <1>3, <3>1, <3>2, LegAppended
  <2>2. /\ a.fees \in Int /\ a.slippage \in Int /\ a.received - a.paid \in Int /\ a.realized \in Int
    BY DEF IsAccount
  <2> DEFINE Same(x, field) == x - n[field] - OfLegs(b.closed, field)
                                 = x - p[field] - OfLegs(a.closed, field)
  <2>3. ASSUME NEW x \in Int, NEW field \in Fields PROVE Same(x, field)
    BY <2>1, <2>3
  <2>4. /\ Same(a.fees, "fees") /\ Same(a.slippage, "slippage")
        /\ Same(a.received - a.paid, "funding") /\ Same(a.realized, "realized")
    <3> HIDE DEF Same
    <3> QED BY <2>2, <2>3 DEF Fields
  <2> QED BY <2>4 DEF Loose, p, Becomes
<1> QED BY <1>5, <1>6 DEF Beside, Becomes

-----------------------------------------------------------------------------
(* Fills.                                                                  *)

Friction == FeeUnit + SlipUnit
\* What moving `moved` units at a price costs the bank.
Paid(moved, mark) == moved * mark + Friction * Abs(moved)

Trades(a, b, s, mark) ==
    /\ Beside(a, b, s)
    /\ Rest(b, s) = Rest(a, s) - Paid(b.positions[s].qty - a.positions[s].qty, mark)

LEMMA Typed ==
  ASSUME NEW a, IsAccount(a), NEW s \in Symbols
  PROVE  /\ a.positions[s].qty \in Int /\ a.positions[s].basis \in Int
         /\ a.cash \in Int /\ Rest(a, s) \in Int
<1>1. IsPosition(a.positions[s])
  BY DEF IsAccount
<1>2. a.positions[s].qty \in Int /\ a.positions[s].basis \in Int /\ a.cash \in Int
  BY <1>1 DEF IsAccount, IsPosition
<1> QED BY <1>2, Entry DEF Rest

\* The whole position changes its role: no unit moves.
LEMMA Rolled ==
  ASSUME NEW a, IsAccount(a), NEW s \in Symbols, a.positions[s].qty # 0, NEW mark \in Nat,
         NEW role \in Roles, NEW cycle \in Nat
  PROVE  LET b == RollSeatLifecycle(a, s, mark, role, cycle)
         IN  /\ Beside(a, b, s) /\ Rest(b, s) = Rest(a, s)
             /\ b.positions[s].qty = a.positions[s].qty /\ b.positions[s].role = role
<1> DEFINE b == RollSeatLifecycle(a, s, mark, role, cycle)
           p == a.positions[s]
           done == Realize(a, s, Abs(p.qty), mark)
           n == [Flat EXCEPT !.qty = p.qty, !.basis = Abs(p.qty) * mark,
                             !.role = role, !.opened = cycle]
<1>1. p.qty \in Int /\ Abs(p.qty) \in Nat \ {0} /\ Abs(p.qty) = IF p.qty < 0 THEN -p.qty ELSE p.qty
  BY Typed DEF Abs
<1>2. /\ Beside(a, done, s) /\ done.positions[s].qty = 0
      /\ Rest(done, s) = Rest(a, s) - (0 - p.qty) * mark
  <2> DEFINE left == IF p.qty < 0 THEN p.qty + Abs(p.qty) ELSE p.qty - Abs(p.qty)
  <2>1. left = 0
    BY <1>1
  <2>2. Abs(p.qty) \in Nat /\ Abs(p.qty) <= Abs(p.qty)
    BY <1>1
  <2>3. /\ Beside(a, done, s) /\ done.positions[s].qty = left
        /\ Rest(done, s) = Rest(a, s) - (left - p.qty) * mark
    BY <2>2, PartRealized
  <2> HIDE DEF done, left, p
  <2> QED BY <2>1, <2>3
<1>3. Abs(p.qty) * mark \in Int /\ IsAccount(done)
  BY <1>1, <1>2 DEF Beside
<1>4. IsPosition(n) /\ (\A field \in Fields : n[field] = 0) /\ n.qty = p.qty
      /\ n.basis = Abs(p.qty) * mark /\ n.role = role
  BY <1>1, <1>3 DEF IsPosition, Flat, Fields
<1>5. b = [done EXCEPT !.closed = Append(@, ClosedLeg(s, done.positions[s])), !.positions[s] = n]
  BY DEF RollSeatLifecycle
<1> HIDE DEF n, done
<1>6. Beside(done, b, s) /\ b.positions[s] = n /\ b.cash = done.cash
  <2>1. Becomes(done, b, s, n) /\ b.closed = Append(done.closed, ClosedLeg(s, done.positions[s]))
    BY <1>3, <1>5 DEF Becomes, IsAccount
  <2> HIDE DEF b
  <2> QED BY <1>3, <1>4, <2>1, Popped DEF Becomes
<1> HIDE DEF b
<1>7. Rest(b, s) = Rest(a, s)
  <2>1. Rest(done, s) = done.cash /\ done.cash \in Int
    <3>1. done.positions[s].basis = 0 /\ done.positions[s].qty = 0 /\ done.cash \in Int
      BY <1>2, <1>3 DEF IsAccount, IsPosition
    <3>2. EntryValue(done.positions[s]) = 0
      BY <3>1, Entry
    <3> QED BY <3>1, <3>2 DEF Rest
  <2>2. EntryValue(n) = IF p.qty < 0 THEN -(Abs(p.qty) * mark) ELSE Abs(p.qty) * mark
    BY <1>1, <1>3, <1>4, Entry
  <2>3. EntryValue(n) = p.qty * mark
    <3>1. CASE p.qty < 0
      BY <1>1, <2>2, <3>1
    <3>2. CASE ~(p.qty < 0)
      BY <1>1, <2>2, <3>2
    <3> QED BY <3>1, <3>2
  <2>4. Rest(a, s) \in Int /\ (0 - p.qty) * mark = -(p.qty * mark) /\ p.qty * mark \in Int
    BY <1>1, Typed
  <2> QED BY <1>2, <1>6, <2>1, <2>3, <2>4 DEF Rest
<1> QED BY <1>2, <1>4, <1>6, <1>7, BesideTrans DEF b, p

LEMMA MinOfTwo ==
  ASSUME NEW x \in Int, NEW y \in Int
  PROVE  Min({x, y}) = IF x <= y THEN x ELSE y
BY DEF Min

LEMMA AbsOf ==
  ASSUME NEW n \in Int
  PROVE  Abs(n) \in Nat /\ Abs(n) = IF n < 0 THEN -n ELSE n
BY DEF Abs

\* A fresh position at the mark is worth what it costs.
LEMMA AtMark ==
  ASSUME NEW p, NEW qty \in Int, NEW mark \in Nat, p.qty = qty, p.basis = Abs(qty) * mark
  PROVE  p.basis \in Int /\ EntryValue(p) = qty * mark /\ qty * mark \in Int
<1>1. p.basis \in Int
  BY AbsOf
<1>2. EntryValue(p) = IF qty < 0 THEN -p.basis ELSE p.basis
  BY <1>1, Entry
<1>3. CASE qty < 0
  <2>1. p.basis = (-qty) * mark
    BY <1>3, AbsOf
  <2> QED BY <1>1, <1>2, <1>3, <2>1
<1>4. CASE ~(qty < 0)
  <2>1. p.basis = qty * mark
    BY <1>4, AbsOf
  <2> QED BY <1>1, <1>2, <1>4, <2>1
<1> QED BY <1>3, <1>4

LEMMA NothingHeld ==
  ASSUME NEW a, IsAccount(a), NEW s \in Symbols, a.positions[s].qty = 0
  PROVE  Rest(a, s) = a.cash
<1>1. IsPosition(a.positions[s]) /\ a.cash \in Int
  BY DEF IsAccount
<1>2. EntryValue(a.positions[s]) = 0
  BY <1>1, Entry DEF IsPosition
<1> QED BY <1>1, <1>2 DEF Rest

\* Nothing but the role is written.
LEMMA RoleWritten ==
  ASSUME NEW a, IsAccount(a), NEW s \in Symbols, NEW role \in Roles
  PROVE  LET b == [a EXCEPT !.positions[s].role = role]
         IN  /\ Beside(a, b, s) /\ Rest(b, s) = Rest(a, s)
             /\ b.positions[s].qty = a.positions[s].qty /\ b.positions[s].role = role
<1> DEFINE b == [a EXCEPT !.positions[s].role = role]
           n == [a.positions[s] EXCEPT !.role = role]
<1>1. IsPosition(a.positions[s])
  BY DEF IsAccount
<1>2. /\ IsPosition(n) /\ n.qty = a.positions[s].qty /\ n.basis = a.positions[s].basis
      /\ n.role = role /\ \A field \in Fields : n[field] = a.positions[s][field]
  BY <1>1 DEF IsPosition, Fields
<1>3. Becomes(a, b, s, n) /\ b.closed = a.closed
  BY DEF Becomes, IsAccount
<1> HIDE DEF n, b
<1>4. Beside(a, b, s)
  BY <1>2, <1>3, Relabelled
<1>5. Rest(b, s) = Rest(a, s)
  BY <1>2, <1>3 DEF Rest, EntryValue, Becomes
<1> QED BY <1>2, <1>3, <1>4, <1>5 DEF Becomes, b

\* Reducing, closing or flipping: the target lies on the other side of what is held.
LEMMA Opposed ==
  ASSUME NEW a, IsAccount(a), NEW s \in Symbols, NEW target \in Int, NEW mark \in Nat,
         NEW role \in Roles, NEW cycle \in Nat,
         \/ a.positions[s].qty > 0 /\ target < a.positions[s].qty
         \/ a.positions[s].qty < 0 /\ a.positions[s].qty < target
  PROVE  LET b == ReconcileOpposite(a, s, target, mark, role, cycle)
         IN  /\ Trades(a, b, s, mark) /\ b.positions[s].qty = target
             /\ target # 0 => b.positions[s].role = role
<1> DEFINE b == ReconcileOpposite(a, s, target, mark, role, cycle)
           p == a.positions[s]
           closing == Min({Abs(target - p.qty), Abs(p.qty)})
           c == ChargeFrictions(a, s, closing)
           r == Realize(c, s, closing, mark)
           left == IF p.qty < 0 THEN p.qty + closing ELSE p.qty - closing
<1>1. /\ p.qty \in Int /\ p.qty # 0
      /\ closing = IF Abs(target - p.qty) <= Abs(p.qty) THEN Abs(target - p.qty) ELSE Abs(p.qty)
  <2>1. p.qty \in Int /\ target - p.qty \in Int
    BY Typed
  <2> QED BY <2>1, AbsOf, MinOfTwo
<1>2. /\ closing \in Nat /\ closing <= Abs(p.qty)
      /\ IF closing < Abs(p.qty) THEN left = target /\ left # 0 /\ closing = Abs(target - p.qty)
         ELSE left = 0 /\ closing + Abs(target) = Abs(target - p.qty)
  <2> HIDE DEF closing, p
  <2>1. target - p.qty \in Int
    BY <1>1
  <2> QED BY <1>1, <2>1, AbsOf DEF p
<1> HIDE DEF closing
<1>3. /\ Beside(a, c, s) /\ IsAccount(c) /\ c.positions[s].qty = p.qty
      /\ Rest(c, s) = Rest(a, s) - Friction * closing
  BY <1>2, Charged DEF Beside, Friction
<1> HIDE DEF c
<1>4. /\ Beside(a, r, s) /\ IsAccount(r) /\ r.positions[s].qty = left
      /\ Rest(r, s) = Rest(c, s) - (left - p.qty) * mark
  <2>1. /\ Beside(c, r, s) /\ r.positions[s].qty = left
        /\ Rest(r, s) = Rest(c, s) - (left - p.qty) * mark
    <3> DEFINE q == c.positions[s].qty
               l == IF q < 0 THEN q + closing ELSE q - closing
    <3>1. q # 0 /\ closing \in Nat /\ closing <= Abs(q) /\ IsAccount(c)
      <4> HIDE DEF p
      <4> QED BY <1>1, <1>2, <1>3
    <3>2. Beside(c, r, s) /\ r.positions[s].qty = l /\ Rest(r, s) = Rest(c, s) - (l - q) * mark
      BY <3>1, PartRealized
    <3>3. q = p.qty /\ l = left
      <4> HIDE DEF p
      <4> QED BY <1>3
    <3> HIDE DEF r, left, l, q, p
    <3> QED BY <3>2, <3>3
  <2> HIDE DEF r, left
  <2> QED BY <1>3, <2>1, BesideTrans DEF Beside
<1> HIDE DEF r
<1>5. /\ Friction \in Nat /\ Friction * closing \in Int /\ left \in Int
      /\ Rest(a, s) \in Int /\ (left - p.qty) * mark \in Int
  <2>1. Friction \in Nat /\ Rest(a, s) \in Int
    BY AccountAssumption, Typed DEF Friction
  <2>2. left \in Int
    BY <1>1, <1>2
  <2>3. left - p.qty \in Int
    BY <1>1, <2>2
  <2> HIDE DEF left
  <2> QED BY <1>2, <2>1, <2>2, <2>3
<1>6. CASE closing < Abs(p.qty)
  <2>1. b = [r EXCEPT !.positions[s].role = role]
    BY <1>6 DEF ReconcileOpposite, r, c, closing
  <2> HIDE DEF b
  <2>2. Beside(r, b, s) /\ Rest(b, s) = Rest(r, s) /\ b.positions[s].qty = left
        /\ b.positions[s].role = role
    BY <1>4, <2>1, RoleWritten
  <2>3. b.positions[s].qty = target /\ left = target
    BY <1>2, <1>6, <2>2
  <2>4. Rest(b, s) = Rest(a, s) - Paid(target - p.qty, mark)
    <3> HIDE DEF p, left
    <3> QED BY <1>2, <1>3, <1>4, <1>5, <1>6, <2>2, <2>3 DEF Paid
  <2> QED BY <1>4, <2>2, <2>3, <2>4, BesideTrans DEF Trades, b
<1> DEFINE popped == [r EXCEPT !.closed = Append(@, ClosedLeg(s, r.positions[s])),
                               !.positions[s] = Flat]
<1>7. ASSUME ~(closing < Abs(p.qty))
      PROVE  /\ Beside(a, popped, s) /\ IsAccount(popped) /\ popped.positions[s] = Flat
             /\ Rest(popped, s) = popped.cash /\ popped.cash \in Int
             /\ popped.cash = Rest(a, s) - Friction * closing + p.qty * mark
  <2>1. Becomes(r, popped, s, Flat) /\ popped.closed = Append(r.closed, ClosedLeg(s, r.positions[s]))
    BY <1>4 DEF Becomes, IsAccount
  <2>2. IsPosition(Flat) /\ \A field \in Fields : Flat[field] = 0
    BY DEF IsPosition, Flat, Fields, Roles
  <2> HIDE DEF popped
  <2>3. Beside(r, popped, s)
    BY <1>4, <2>1, <2>2, Popped
  <2>4. IsAccount(popped) /\ popped.positions[s] = Flat /\ popped.cash = r.cash
        /\ Beside(a, popped, s)
    BY <1>4, <2>1, <2>3, BesideTrans DEF Beside, Becomes
  <2>5. Rest(popped, s) = popped.cash
    BY <2>4, NothingHeld DEF Flat
  <2>6. Rest(r, s) = r.cash /\ r.cash \in Int
    BY <1>2, <1>4, <1>7, NothingHeld DEF IsAccount
  <2>7. (left - p.qty) * mark = -(p.qty * mark)
    <3>1. left = 0
      BY <1>2, <1>7
    <3> HIDE DEF left
    <3> QED BY <1>1, <3>1
  <2> HIDE DEF left
  <2>8. p.qty * mark \in Int
    BY <1>1
  <2> QED BY <1>3, <1>4, <1>5, <2>4, <2>5, <2>6, <2>7, <2>8
<1>8. CASE ~(closing < Abs(p.qty)) /\ target = 0
  <2>1. b = popped
    BY <1>8 DEF ReconcileOpposite, r, c, closing
  <2>2. popped.positions[s].qty = target
    BY <1>7, <1>8 DEF Flat
  <2> HIDE DEF b, popped, left
  <2>3. Paid(target - p.qty, mark) = -(p.qty * mark) + Friction * closing
    <3>1. Abs(target - p.qty) = closing /\ Abs(0) = 0
      BY <1>2, <1>8, AbsOf
    <3>2. (target - p.qty) * mark = -(p.qty * mark)
      BY <1>1, <1>8
    <3> HIDE DEF p
    <3> QED BY <3>1, <3>2 DEF Paid
  <2>4. p.qty * mark \in Int
    BY <1>1
  <2> QED BY <1>5, <1>7, <1>8, <2>1, <2>2, <2>3, <2>4 DEF Trades, b
<1>9. CASE ~(closing < Abs(p.qty)) /\ target # 0
  <2> DEFINE n == [Flat EXCEPT !.qty = target, !.role = role,
                               !.basis = Abs(target) * mark, !.opened = cycle]
             flipped == [popped EXCEPT !.positions[s] = n]
  <2>1. b = ChargeFrictions(flipped, s, Abs(target))
    BY <1>9 DEF ReconcileOpposite, r, c, closing
  <2>2. /\ n.qty = target /\ n.basis = Abs(target) * mark /\ n.role = role
        /\ \A field \in Fields : n[field] = 0
    BY DEF Flat, Fields
  <2>3. n.basis \in Int /\ EntryValue(n) = target * mark /\ target * mark \in Int
    <3> HIDE DEF n
    <3> QED BY <2>2, AtMark
  <2>4. IsPosition(n)
    <3>1. DOMAIN n = DOMAIN Flat /\ n.opened = cycle
      BY DEF Flat
    <3>2. DOMAIN Flat = {"qty", "basis", "role", "opened"} \cup Fields
      BY DEF Flat, Fields
    <3> HIDE DEF n
    <3> QED BY <1>9, <2>2, <2>3, <3>1, <3>2 DEF IsPosition, Fields
  <2>5. Becomes(popped, flipped, s, n) /\ flipped.closed = popped.closed
    <3> HIDE DEF popped, n
    <3> QED BY <1>7, <1>9 DEF Becomes, IsAccount
  <2>6. \A field \in Fields : n[field] = popped.positions[s][field]
    BY <1>7, <1>9, <2>2 DEF Flat, Fields
  <2> HIDE DEF popped, flipped, n, b
  <2>7. Beside(popped, flipped, s)
    BY <1>7, <1>9, <2>4, <2>5, <2>6, Relabelled
  <2>8. IsAccount(flipped) /\ Beside(a, flipped, s) /\ flipped.positions[s] = n
        /\ Rest(flipped, s) = popped.cash - target * mark
    BY <1>7, <1>9, <2>3, <2>5, <2>7, BesideTrans DEF Beside, Becomes, Rest
  <2>9. /\ Beside(flipped, b, s) /\ b.positions[s].qty = target /\ b.positions[s].role = role
        /\ Rest(b, s) = Rest(flipped, s) - Friction * Abs(target)
    BY <2>1, <2>2, <2>8, AbsOf, Charged DEF Friction
  <2>10. Paid(target - p.qty, mark) = target * mark - p.qty * mark
                                      + Friction * closing + Friction * Abs(target)
    <3>1. Abs(target - p.qty) = closing + Abs(target) /\ Abs(target) \in Nat
      BY <1>2, <1>9, AbsOf
    <3>2. (target - p.qty) * mark = target * mark - p.qty * mark
      BY <1>1
    <3>3. Friction * (closing + Abs(target)) = Friction * closing + Friction * Abs(target)
      BY <1>2, <1>5, <3>1
    <3>4. Friction * closing \in Int /\ Friction * Abs(target) \in Int /\ p.qty * mark \in Int
      BY <1>1, <1>5, <3>1
    <3>5. Paid(target - p.qty, mark) = (target - p.qty) * mark + Friction * Abs(target - p.qty)
      BY DEF Paid
    <3> HIDE DEF p
    <3> QED BY ONLY <2>3, <3>1, <3>2, <3>3, <3>4, <3>5
  <2>11. p.qty * mark \in Int /\ Friction * Abs(target) \in Int
    BY <1>1, <1>5, AbsOf
  <2>12. Rest(b, s) = Rest(a, s) - Paid(target - p.qty, mark)
    <3> HIDE DEF p, left
    <3> QED BY <1>5, <1>7, <1>9, <2>3, <2>8, <2>9, <2>10, <2>11
  <2> QED BY <2>8, <2>9, <2>12, BesideTrans DEF Trades, b
<1> QED BY <1>6, <1>8, <1>9

\* Opening from flat or growing on the side that is held.
LEMMA Grown ==
  ASSUME NEW a, IsAccount(a), NEW s \in Symbols, NEW target \in Int, NEW mark \in Nat,
         NEW role \in Roles, NEW cycle \in Nat,
         \/ a.positions[s].qty >= 0 /\ target > a.positions[s].qty
         \/ a.positions[s].qty <= 0 /\ a.positions[s].qty > target
  PROVE  LET b == OpenOrIncrease(a, s, target, mark, role, cycle)
         IN  /\ Trades(a, b, s, mark) /\ b.positions[s].qty = target
             /\ b.positions[s].role = role
<1> DEFINE b == OpenOrIncrease(a, s, target, mark, role, cycle)
           p == a.positions[s]
           added == Abs(target - p.qty)
           c == ChargeFrictions(a, s, added)
           q == c.positions[s]
           n == [q EXCEPT !.qty = target, !.basis = @ + added * mark, !.role = role,
                          !.opened = IF p.qty = 0 THEN cycle ELSE @]
<1>1. /\ p.qty \in Int /\ p.basis \in Int /\ target - p.qty \in Int /\ Rest(a, s) \in Int
      /\ added \in Nat /\ (p.qty = 0 => p.basis = 0)
      /\ added = IF target < 0 THEN p.qty - target ELSE target - p.qty
  <2>1. p.qty \in Int /\ p.basis \in Int /\ Rest(a, s) \in Int /\ (p.qty = 0 => p.basis = 0)
    BY Typed DEF IsAccount, IsPosition
  <2>2. target - p.qty \in Int
    BY <2>1
  <2>3. added \in Nat /\ added = IF target - p.qty < 0 THEN -(target - p.qty) ELSE target - p.qty
    BY <2>2, AbsOf
  <2> HIDE DEF added
  <2> QED BY <2>1, <2>2, <2>3
<1>2. /\ Beside(a, c, s) /\ IsAccount(c) /\ IsPosition(q) /\ q.qty = p.qty /\ q.basis = p.basis
      /\ Rest(c, s) = Rest(a, s) - Friction * added
  <2> HIDE DEF added
  <2>1. /\ Beside(a, c, s) /\ q.qty = p.qty /\ q.basis = p.basis
        /\ Rest(c, s) = Rest(a, s) - Friction * added
    BY <1>1, Charged DEF Friction
  <2> HIDE DEF c
  <2>2. IsAccount(c)
    BY <2>1 DEF Beside
  <2> QED BY <2>1, <2>2 DEF IsAccount
<1>3. b = [c EXCEPT !.positions[s].qty = target,
                    !.positions[s].basis = @ + added * mark,
                    !.positions[s].role = role,
                    !.positions[s].opened = IF p.qty = 0 THEN cycle ELSE @]
  BY DEF OpenOrIncrease
<1> HIDE DEF c
<1>4. /\ DOMAIN n = DOMAIN q /\ n.qty = target /\ n.basis = p.basis + added * mark /\ n.role = role
      /\ n.opened \in Nat /\ \A field \in Fields : n[field] = q[field]
  <2> HIDE DEF added
  <2> QED BY <1>2 DEF IsPosition, Fields
<1>5. /\ IsPosition(n) /\ p.basis + added * mark \in Int /\ added * mark \in Int
  <2> HIDE DEF added, n
  <2>1. added * mark \in Int /\ p.basis + added * mark \in Int /\ target # 0
    BY <1>1
  <2> QED BY <1>2, <1>4, <2>1 DEF IsPosition, Fields
<1>6. Becomes(c, b, s, n) /\ b.closed = c.closed
  <2> HIDE DEF added, b
  <2>1. s \in DOMAIN c.positions /\ DOMAIN q = {"qty", "basis", "role", "opened"} \cup Fields
        /\ DOMAIN c = DOMAIN a
    BY <1>2 DEF IsAccount, IsPosition
  <2>2. b.positions[s] = n
    BY <1>2, <1>3, <2>1 DEF Fields, IsAccount
  <2> HIDE DEF n
  <2> QED BY <1>2, <1>3, <2>2 DEF Becomes, IsAccount
<1>7. Beside(c, b, s)
  <2> HIDE DEF n, b
  <2> QED BY <1>2, <1>4, <1>5, <1>6, Relabelled
<1>8. Beside(a, b, s)
  BY <1>2, <1>7, BesideTrans
<1>9. Rest(b, s) = Rest(a, s) - Paid(target - p.qty, mark)
  <2>1. b.cash = c.cash /\ b.positions[s] = n /\ c.cash \in Int
    <3> HIDE DEF n, b
    <3> QED BY <1>2, <1>6 DEF Becomes, IsAccount
  <2>2. EntryValue(n) = IF target < 0 THEN -(p.basis + added * mark) ELSE p.basis + added * mark
    <3> HIDE DEF n, added
    <3> QED BY <1>4, <1>5, Entry
  <2>3. EntryValue(q) = IF target < 0 THEN -p.basis ELSE p.basis
    <3>1. EntryValue(q) = IF p.qty < 0 THEN -p.basis ELSE p.basis
      BY <1>1, <1>2, Entry
    <3>2. CASE p.qty = 0
      BY <1>1, <3>1, <3>2
    <3>3. CASE p.qty # 0
      BY <1>1, <3>1, <3>3
    <3> QED BY <3>2, <3>3
  <2>4. (target - p.qty) * mark = IF target < 0 THEN -(added * mark) ELSE added * mark
    <3>1. CASE target < 0
      <4>1. target - p.qty = (-1) * added
        BY <1>1, <3>1
      <4>2. ((-1) * added) * mark = -(added * mark)
        BY <1>1
      <4> QED BY <3>1, <4>1, <4>2
    <3>2. CASE ~(target < 0)
      <4>1. target - p.qty = added
        BY <1>1, <3>2
      <4> HIDE DEF added
      <4> QED BY <3>2, <4>1
    <3> QED BY <3>1, <3>2
  <2>5. Paid(target - p.qty, mark) = (target - p.qty) * mark + Friction * added
    BY DEF Paid
  <2>6. Friction * added \in Int
    <3> HIDE DEF added
    <3> QED BY <1>1, AccountAssumption DEF Friction
  <2>7. Rest(b, s) = c.cash - EntryValue(n) /\ Rest(c, s) = c.cash - EntryValue(q)
    <3> HIDE DEF n, b
    <3> QED BY <2>1 DEF Rest
  <2> HIDE DEF added, n, b, q, p
  <2>8. CASE target < 0
    BY <1>1, <1>2, <1>5, <2>1, <2>2, <2>3, <2>4, <2>5, <2>6, <2>7, <2>8
  <2>9. CASE ~(target < 0)
    BY <1>1, <1>2, <1>5, <2>1, <2>2, <2>3, <2>4, <2>5, <2>6, <2>7, <2>9
  <2> QED BY <2>8, <2>9
<1> QED
  <2>1. b.positions[s].qty = target /\ b.positions[s].role = role
    <3> HIDE DEF n, b
    <3> QED BY <1>4, <1>6 DEF Becomes
  <2> HIDE DEF b
  <2> QED BY <1>8, <1>9, <2>1 DEF Trades, b

LEMMA Product ==
  ASSUME NEW m \in Int, NEW n \in Int
  PROVE  /\ m * n < 0 <=> (m < 0 /\ n > 0) \/ (m > 0 /\ n < 0)
         /\ m * n > 0 <=> (m < 0 /\ n < 0) \/ (m > 0 /\ n > 0)
<1> DEFINE k == m * n
<1>0. k \in Int
  OBVIOUS
<1>1. CASE m = 0 \/ n = 0
  BY <1>1
<1>2. CASE m > 0 /\ n > 0
  <2>1. k > 0
    BY <1>2
  <2> HIDE DEF k
  <2> QED BY <1>0, <1>2, <2>1 DEF k
<1>3. CASE m > 0 /\ n < 0
  <2>1. m * (-n) > 0 /\ k = -(m * (-n))
    BY <1>3
  <2> HIDE DEF k
  <2>2. k < 0
    BY <1>0, <2>1
  <2> QED BY <1>0, <1>3, <2>2 DEF k
<1>4. CASE m < 0 /\ n > 0
  <2>1. (-m) * n > 0 /\ k = -((-m) * n)
    BY <1>4
  <2> HIDE DEF k
  <2>2. k < 0
    BY <1>0, <2>1
  <2> QED BY <1>0, <1>4, <2>2 DEF k
<1>5. CASE m < 0 /\ n < 0
  <2>1. (-m) * (-n) > 0 /\ k = (-m) * (-n)
    BY <1>5
  <2> HIDE DEF k
  <2>2. k > 0
    BY <1>0, <2>1
  <2> QED BY <1>0, <1>5, <2>2 DEF k
<1> QED BY <1>1, <1>2, <1>3, <1>4, <1>5

\* A trade after steps that moved no unit and no money.
LEMMA TradeAfter ==
  ASSUME NEW a, NEW b, NEW c, NEW s, NEW mark, Beside(a, b, s), Rest(b, s) = Rest(a, s),
         b.positions[s].qty = a.positions[s].qty, Trades(b, c, s, mark)
  PROVE  Trades(a, c, s, mark)
BY BesideTrans DEF Trades

LEMMA TradeBefore ==
  ASSUME NEW a, NEW b, NEW c, NEW s, NEW mark, Trades(a, b, s, mark), Beside(b, c, s),
         Rest(c, s) = Rest(b, s), c.positions[s].qty = b.positions[s].qty
  PROVE  Trades(a, c, s, mark)
BY BesideTrans DEF Trades

LEMMA NoTrade ==
  ASSUME NEW a, IsAccount(a), NEW s \in Symbols, NEW mark \in Nat
  PROVE  Trades(a, a, s, mark)
<1>1. a.positions[s].qty - a.positions[s].qty = 0 /\ Rest(a, s) \in Int
  BY Typed
<1>2. Paid(0, mark) = 0
  <2>1. Abs(0) = 0 /\ Friction \in Nat
    BY AccountAssumption DEF Abs, Friction
  <2> QED BY <2>1 DEF Paid
<1> QED BY <1>1, <1>2, BesideSelf DEF Trades

\* Whatever execution attained for s, the account gets there without losing a cent.
LEMMA SymbolFilled ==
  ASSUME NEW a, IsAccount(a), NEW s \in Symbols, NEW desired \in Int, NEW target \in Int,
         NEW bookRole \in Roles, NEW mark \in Nat, NEW cycle \in Nat
  PROVE  LET b == FillSymbol(a, s, desired, target, bookRole, mark, cycle)
         IN  /\ Trades(a, b, s, mark) /\ b.positions[s].qty = target
             /\ target # 0 => b.positions[s].role
                                = AttainedRole(a.positions[s], desired, target, bookRole)
<1> DEFINE b == FillSymbol(a, s, desired, target, bookRole, mark, cycle)
           p == a.positions[s]
           role == AttainedRole(p, desired, target, bookRole)
           sameSide == target = 0 \/ Sign(target) = Sign(p.qty)
           roleChange == p.qty # 0 /\ sameSide /\ p.role # role
           reduction == roleChange /\ Abs(target) < Abs(p.qty)
           rolled == IF roleChange /\ ~reduction
                     THEN RollSeatLifecycle(a, s, mark, role, cycle) ELSE a
           opposite == p.qty # 0 /\ (target * p.qty < 0 \/ Abs(target) < Abs(p.qty))
           newRole == IF reduction THEN p.role ELSE role
           reconciled == ReconcileOpposite(rolled, s, target, mark, newRole, cycle)
<1>1. b = IF target = p.qty
          THEN IF p.qty = 0 THEN rolled ELSE [rolled EXCEPT !.positions[s].role = role]
          ELSE IF ~opposite THEN OpenOrIncrease(rolled, s, target, mark, role, cycle)
          ELSE IF reduction /\ reconciled.positions[s].qty # 0
               THEN RollSeatLifecycle(reconciled, s, mark, role, cycle)
               ELSE reconciled
  BY DEF FillSymbol
<1>2. IsPosition(p) /\ p.qty \in Int /\ p.role \in Roles
  BY DEF IsAccount, IsPosition
<1>3. role \in Roles
  BY <1>2 DEF AttainedRole
<1>4. newRole \in Roles
  <2> HIDE DEF p, role, reduction
  <2> QED BY <1>2, <1>3
<1>5. opposite <=> p.qty # 0 /\ (\/ target < 0 /\ p.qty > 0
                                 \/ target > 0 /\ p.qty < 0
                                 \/ Abs(target) < Abs(p.qty))
  <2> HIDE DEF p
  <2> QED BY <1>2, Product
<1>6. /\ Abs(target) = IF target < 0 THEN -target ELSE target
      /\ Abs(p.qty) = IF p.qty < 0 THEN -p.qty ELSE p.qty
  BY <1>2, AbsOf
<1> HIDE DEF b, role, opposite
<1>7. /\ Beside(a, rolled, s) /\ Rest(rolled, s) = Rest(a, s)
      /\ rolled.positions[s].qty = p.qty /\ IsAccount(rolled)
  <2>1. CASE roleChange /\ ~reduction
    <3> DEFINE c == RollSeatLifecycle(a, s, mark, role, cycle)
    <3>1. p.qty # 0 /\ rolled = c
      BY <2>1
    <3>2. Beside(a, c, s) /\ Rest(c, s) = Rest(a, s) /\ c.positions[s].qty = p.qty
      BY <1>3, <3>1, Rolled
    <3> HIDE DEF c, rolled
    <3> QED BY <3>1, <3>2 DEF Beside
  <2>2. CASE ~(roleChange /\ ~reduction)
    <3>1. rolled = a
      BY <2>2
    <3> HIDE DEF rolled
    <3> QED BY <3>1, BesideSelf
  <2> QED BY <2>1, <2>2
<1> HIDE DEF rolled, reconciled, newRole
<1>8. CASE target = p.qty
  <2>1. CASE p.qty = 0
    <3>1. b = rolled
      BY <1>1, <1>8, <2>1
    <3>2. Trades(a, rolled, s, mark)
      BY <1>7, NoTrade, TradeAfter
    <3> QED BY <1>7, <1>8, <2>1, <3>1, <3>2 DEF b
  <2>2. CASE p.qty # 0
    <3>1. b = [rolled EXCEPT !.positions[s].role = role]
      BY <1>1, <1>8, <2>2
    <3>2. Beside(rolled, b, s) /\ Rest(b, s) = Rest(rolled, s)
          /\ b.positions[s].qty = rolled.positions[s].qty /\ b.positions[s].role = role
      BY <1>3, <1>7, <3>1, RoleWritten
    <3>3. Trades(a, rolled, s, mark)
      BY <1>7, NoTrade, TradeAfter
    <3>4. Trades(a, b, s, mark)
      BY <3>2, <3>3, TradeBefore
    <3> QED BY <1>7, <1>8, <3>2, <3>4 DEF b, role
  <2> QED BY <2>1, <2>2
<1>9. CASE target # p.qty /\ ~opposite
  <2>1. b = OpenOrIncrease(rolled, s, target, mark, role, cycle)
    BY <1>1, <1>9
  <2>2. \/ p.qty >= 0 /\ target > p.qty
        \/ p.qty <= 0 /\ p.qty > target
    <3> HIDE DEF p
    <3> QED BY <1>2, <1>5, <1>6, <1>9
  <2>3. Trades(rolled, b, s, mark) /\ b.positions[s].qty = target /\ b.positions[s].role = role
    <3>1. \/ rolled.positions[s].qty >= 0 /\ target > rolled.positions[s].qty
          \/ rolled.positions[s].qty <= 0 /\ rolled.positions[s].qty > target
      BY <1>7, <2>2
    <3> QED BY <1>3, <1>7, <2>1, <3>1, Grown
  <2>4. Trades(a, b, s, mark)
    BY <1>7, <2>3, TradeAfter
  <2> QED BY <2>3, <2>4 DEF b, role
<1>10. CASE target # p.qty /\ opposite
  <2>1. \/ p.qty > 0 /\ target < p.qty
        \/ p.qty < 0 /\ p.qty < target
    <3> HIDE DEF p
    <3> QED BY <1>2, <1>5, <1>6, <1>10
  <2>2. /\ Trades(rolled, reconciled, s, mark) /\ reconciled.positions[s].qty = target
        /\ target # 0 => reconciled.positions[s].role = newRole
    <3>1. \/ rolled.positions[s].qty > 0 /\ target < rolled.positions[s].qty
          \/ rolled.positions[s].qty < 0 /\ rolled.positions[s].qty < target
      BY <1>7, <2>1
    <3> QED BY <1>4, <1>7, <3>1, Opposed DEF reconciled
  <2>3. Trades(a, reconciled, s, mark) /\ IsAccount(reconciled)
    BY <1>7, <2>2, TradeAfter DEF Trades, Beside
  <2>4. CASE reduction /\ target # 0
    <3>1. b = RollSeatLifecycle(reconciled, s, mark, role, cycle)
      BY <1>1, <1>10, <2>2, <2>4
    <3>2. /\ Beside(reconciled, b, s) /\ Rest(b, s) = Rest(reconciled, s)
          /\ b.positions[s].qty = target /\ b.positions[s].role = role
      BY <1>3, <2>2, <2>3, <2>4, <3>1, Rolled
    <3>3. Trades(a, b, s, mark)
      BY <2>2, <2>3, <3>2, TradeBefore
    <3> QED BY <3>2, <3>3 DEF b, role
  <2>5. CASE ~(reduction /\ target # 0)
    <3>1. b = reconciled
      BY <1>1, <1>10, <2>2, <2>5
    <3>2. target # 0 => newRole = role
      BY <2>5 DEF newRole
    <3> QED BY <2>2, <2>3, <3>1, <3>2 DEF b, role
  <2> QED BY <2>4, <2>5
<1> QED BY <1>8, <1>9, <1>10

-----------------------------------------------------------------------------
(* The whole book.                                                         *)

\* What neither the positions nor the closed legs account for.
Unattributed(a) ==
    [fees     |-> a.fees - OfPositions(a, "fees") - OfLegs(a.closed, "fees"),
     slippage |-> a.slippage - OfPositions(a, "slippage") - OfLegs(a.closed, "slippage"),
     funding  |-> a.received - a.paid - OfPositions(a, "funding") - OfLegs(a.closed, "funding"),
     realized |-> a.realized - OfPositions(a, "realized") - OfLegs(a.closed, "realized")]

EntryOf(a) == [s \in Symbols |-> EntryValue(a.positions[s])]
FieldOf(a, field) == [s \in Symbols |-> a.positions[s][field]]

LEMMA Valuations ==
  ASSUME NEW a, IsAccount(a)
  PROVE  /\ IsFiniteSet(Symbols)
         /\ Valued(EntryOf(a), Symbols)
         /\ \A field \in Fields : Valued(FieldOf(a, field), Symbols)
         /\ Total(EntryOf(a), Symbols) \in Int /\ Bank(a) \in Int
         /\ \A field \in Fields : OfPositions(a, field) \in Int
<1>1. ASSUME NEW s \in Symbols
      PROVE  /\ EntryValue(a.positions[s]) \in Int
             /\ \A field \in Fields : a.positions[s][field] \in Int
  <2>1. IsPosition(a.positions[s])
    BY DEF IsAccount
  <2> QED BY <2>1, Entry DEF IsPosition, Fields
<1>2. Valued(EntryOf(a), Symbols) /\ \A field \in Fields : Valued(FieldOf(a, field), Symbols)
  BY <1>1 DEF Valued, EntryOf, FieldOf
<1>3. IsFiniteSet(Symbols)
  BY AccountAssumption
<1>4. Total(EntryOf(a), Symbols) \in Int
      /\ \A field \in Fields : Total(FieldOf(a, field), Symbols) \in Int
  BY <1>2, <1>3, TotalTakes
<1>5. a.cash \in Int /\ Bank(a) = a.cash - Total(EntryOf(a), Symbols)
      /\ \A field : OfPositions(a, field) = Total(FieldOf(a, field), Symbols)
  BY DEF IsAccount, Bank, EntryOf, OfPositions, FieldOf
<1>6. Bank(a) \in Int
  BY <1>4, <1>5
<1> QED BY <1>2, <1>3, <1>4, <1>5, <1>6

\* What is loose beside one symbol is unattributed but for the other positions.
LEMMA Reattributed ==
  ASSUME NEW a, IsAccount(a), NEW b, NEW s \in Symbols, Beside(a, b, s)
  PROVE  Unattributed(b) = Unattributed(a)
<1> DEFINE Moved(field) == b.positions[s][field] - a.positions[s][field]
<1>1. IsAccount(b) /\ IsPosition(a.positions[s]) /\ IsPosition(b.positions[s])
  BY DEF Beside, IsAccount
<1>2. ASSUME NEW field \in Fields
      PROVE  OfPositions(b, field) = OfPositions(a, field) + b.positions[s][field]
                                                           - a.positions[s][field]
  <2>1. Valued(FieldOf(a, field), Symbols) /\ Valued(FieldOf(b, field), Symbols)
        /\ IsFiniteSet(Symbols)
    BY <1>1, Valuations
  <2>2. \A t \in Symbols \ {s} : FieldOf(b, field)[t] = FieldOf(a, field)[t]
    BY DEF Beside, FieldOf
  <2>3. Total(FieldOf(b, field), Symbols)
          = Total(FieldOf(a, field), Symbols) + FieldOf(b, field)[s] - FieldOf(a, field)[s]
    BY <2>1, <2>2, TotalMoves
  <2> QED BY <2>3 DEF OfPositions, FieldOf
<1>3. \A field \in Fields : /\ OfPositions(a, field) \in Int /\ OfPositions(b, field) \in Int
                            /\ OfLegs(a.closed, field) \in Int /\ OfLegs(b.closed, field) \in Int
                            /\ a.positions[s][field] \in Int /\ b.positions[s][field] \in Int
  BY <1>1, Valuations, LegSums DEF IsAccount, IsPosition, Fields
<1>4. ASSUME NEW field \in Fields, NEW x \in Int, NEW y \in Int,
             y - b.positions[s][field] - OfLegs(b.closed, field)
               = x - a.positions[s][field] - OfLegs(a.closed, field)
      PROVE  y - OfPositions(b, field) - OfLegs(b.closed, field)
               = x - OfPositions(a, field) - OfLegs(a.closed, field)
  BY <1>2, <1>3, <1>4
<1>5. /\ a.fees \in Int /\ a.slippage \in Int /\ a.received - a.paid \in Int /\ a.realized \in Int
      /\ b.fees \in Int /\ b.slippage \in Int /\ b.received - b.paid \in Int /\ b.realized \in Int
  BY <1>1 DEF IsAccount
<1>6. Loose(b, s) = Loose(a, s)
  BY DEF Beside
<1>7. /\ b.fees - OfPositions(b, "fees") - OfLegs(b.closed, "fees")
           = a.fees - OfPositions(a, "fees") - OfLegs(a.closed, "fees")
      /\ b.slippage - OfPositions(b, "slippage") - OfLegs(b.closed, "slippage")
           = a.slippage - OfPositions(a, "slippage") - OfLegs(a.closed, "slippage")
      /\ b.received - b.paid - OfPositions(b, "funding") - OfLegs(b.closed, "funding")
           = a.received - a.paid - OfPositions(a, "funding") - OfLegs(a.closed, "funding")
      /\ b.realized - OfPositions(b, "realized") - OfLegs(b.closed, "realized")
           = a.realized - OfPositions(a, "realized") - OfLegs(a.closed, "realized")
  <2>1. "fees" \in Fields /\ "slippage" \in Fields /\ "funding" \in Fields /\ "realized" \in Fields
    BY DEF Fields
  <2>2. /\ b.fees - b.positions[s].fees - OfLegs(b.closed, "fees")
             = a.fees - a.positions[s].fees - OfLegs(a.closed, "fees")
        /\ b.slippage - b.positions[s].slippage - OfLegs(b.closed, "slippage")
             = a.slippage - a.positions[s].slippage - OfLegs(a.closed, "slippage")
        /\ b.received - b.paid - b.positions[s].funding - OfLegs(b.closed, "funding")
             = a.received - a.paid - a.positions[s].funding - OfLegs(a.closed, "funding")
        /\ b.realized - b.positions[s].realized - OfLegs(b.closed, "realized")
             = a.realized - a.positions[s].realized - OfLegs(a.closed, "realized")
    BY <1>6 DEF Loose
  <2> QED BY <1>4, <1>5, <2>1, <2>2
<1> QED BY <1>7 DEF Unattributed

LEMMA Repaid ==
  ASSUME NEW a, IsAccount(a), NEW b, NEW s \in Symbols, Beside(a, b, s), NEW cost \in Int,
         Rest(b, s) = Rest(a, s) - cost
  PROVE  Bank(b) = Bank(a) - cost
<1>1. IsAccount(b) /\ IsFiniteSet(Symbols) /\ a.cash \in Int /\ b.cash \in Int
      /\ Valued(EntryOf(a), Symbols) /\ Valued(EntryOf(b), Symbols)
      /\ Total(EntryOf(a), Symbols) \in Int
  BY Valuations DEF Beside, IsAccount
<1>2. \A t \in Symbols \ {s} : EntryOf(b)[t] = EntryOf(a)[t]
  BY DEF Beside, EntryOf
<1>3. Total(EntryOf(b), Symbols)
        = Total(EntryOf(a), Symbols) + EntryOf(b)[s] - EntryOf(a)[s]
  BY <1>1, <1>2, TotalMoves
<1>4. EntryOf(a)[s] \in Int /\ EntryOf(b)[s] \in Int
  BY <1>1 DEF Valued
<1>5. b.cash - EntryOf(b)[s] = a.cash - EntryOf(a)[s] - cost
  BY DEF Rest, EntryOf
<1>6. Bank(a) = a.cash - Total(EntryOf(a), Symbols) /\ Bank(b) = b.cash - Total(EntryOf(b), Symbols)
  BY DEF Bank, EntryOf
<1> QED BY <1>1, <1>3, <1>4, <1>5, <1>6

\* The recursion of apply_fills.
Filled(f, a, desired, target, roles, marks, cycle, S) ==
    \A T \in SUBSET S :
        f[T] = IF T = {} THEN a
               ELSE FillSymbol(f[T \ {Pick(T)}], Pick(T), desired[Pick(T)], target[Pick(T)],
                               roles[Pick(T)], marks[Pick(T)], cycle)

LEMMA FilledOnce ==
  ASSUME NEW a, NEW desired, NEW target, NEW roles, NEW marks, NEW cycle,
         NEW S, IsFiniteSet(S), NEW f, NEW g,
         Filled(f, a, desired, target, roles, marks, cycle, S),
         Filled(g, a, desired, target, roles, marks, cycle, S)
  PROVE  \A T \in SUBSET S : f[T] = g[T]
<1> DEFINE Good == {T \in SUBSET S : f[T] = g[T]}
<1>1. {} \in Good
  BY DEF Filled
<1>2. ASSUME NEW T \in SUBSET S, T # {}, \A U \in SUBSET T : U # T => U \in Good
      PROVE  T \in Good
  <2>1. T \ {Pick(T)} \in Good
    BY <1>2, PickIn
  <2> QED BY <1>2, <2>1 DEF Filled
<1>3. \A T \in SUBSET S : T \in Good
  <2> HIDE DEF Good
  <2> QED BY <1>1, <1>2, SubsetInduction
<1> QED BY <1>3

LEMMA FilledExists ==
  ASSUME NEW a, NEW desired, NEW target, NEW roles, NEW marks, NEW cycle,
         NEW S, IsFiniteSet(S)
  PROVE  \E f : Filled(f, a, desired, target, roles, marks, cycle, S)
<1> DEFINE Ok(f, U) == Filled(f, a, desired, target, roles, marks, cycle, U)
           FillOne(s, acc) == FillSymbol(acc, s, desired[s], target[s], roles[s], marks[s], cycle)
           Good == {T \in SUBSET S : \E f : Ok(f, T)}
<1>0. ASSUME NEW f, NEW U PROVE Ok(f, U) <=>
        \A T \in SUBSET U : f[T] = IF T = {} THEN a ELSE FillOne(Pick(T), f[T \ {Pick(T)}])
  BY DEF Filled
<1>00. ASSUME NEW f, NEW g, NEW U, IsFiniteSet(U), Ok(f, U), Ok(g, U)
       PROVE  f[U] = g[U]
  BY <1>00, FilledOnce
<1> HIDE DEF Ok, FillOne
<1>1. {} \in Good
  <2> DEFINE f == [T \in {{}} |-> a]
  <2>1. Ok(f, {})
    BY <1>0
  <2> QED BY <2>1
<1>2. ASSUME NEW T \in SUBSET S, T # {}, \A U \in SUBSET T : U # T => U \in Good
      PROVE  T \in Good
  <2> DEFINE F(U) == CHOOSE f : Ok(f, U)
             g == [U \in SUBSET T |-> IF U = {} THEN a
                     ELSE FillOne(Pick(U), F(U \ {Pick(U)})[U \ {Pick(U)}])]
  <2>1. ASSUME NEW U \in SUBSET T, U # T PROVE Ok(F(U), U)
    BY <1>2, <2>1
  <2>2. ASSUME NEW U \in SUBSET T, U # T PROVE g[U] = F(U)[U]
    <3>1. CASE U = {}
      BY <1>0, <2>1, <2>2, <3>1
    <3>2. CASE U # {}
      <4> DEFINE V == U \ {Pick(U)}
      <4>1. V \in SUBSET T /\ V # T /\ V \in SUBSET U
        BY <2>2, <3>2, PickIn
      <4>2. Ok(F(V), V) /\ Ok(F(U), U)
        BY <2>1, <2>2, <4>1
      <4> HIDE DEF F
      <4>3. Ok(F(U), V)
        <5> HIDE DEF V
        <5> QED BY <1>0, <4>1, <4>2
      <4>4. F(U)[V] = F(V)[V]
        <5>1. IsFiniteSet(V)
          BY <4>1, FS_Subset
        <5> HIDE DEF V
        <5> QED BY <1>00, <4>2, <4>3, <5>1
      <4>5. F(U)[U] = FillOne(Pick(U), F(U)[V])
        BY <1>0, <3>2, <4>2
      <4>6. g[U] = FillOne(Pick(U), F(V)[V])
        BY <3>2
      <4> HIDE DEF V, g
      <4> QED BY <4>4, <4>5, <4>6
    <3> QED BY <3>1, <3>2
  <2>3. ASSUME NEW U \in SUBSET T
        PROVE  g[U] = IF U = {} THEN a ELSE FillOne(Pick(U), g[U \ {Pick(U)}])
    <3>1. CASE U = {}
      BY <3>1
    <3>2. CASE U # {}
      <4> DEFINE V == U \ {Pick(U)}
      <4>1. V \in SUBSET T /\ V # T
        BY <3>2, PickIn
      <4>2. g[V] = F(V)[V]
        BY <2>2, <4>1
      <4>3. g[U] = FillOne(Pick(U), F(V)[V])
        BY <3>2
      <4> HIDE DEF F, V, g
      <4> QED BY <3>2, <4>2, <4>3 DEF V
    <3> QED BY <3>1, <3>2
  <2>4. Ok(g, T)
    <3> HIDE DEF g
    <3> QED BY <1>0, <2>3
  <2> QED BY <2>4
<1>3. \A T \in SUBSET S : T \in Good
  <2> HIDE DEF Good
  <2> QED BY <1>1, <1>2, SubsetInduction
<1>4. \E f : Ok(f, S)
  BY <1>3
<1> QED BY <1>4 DEF Ok

LEMMA FillsUnfold ==
  ASSUME NEW a, NEW desired, NEW target, NEW roles, NEW marks, NEW cycle
  PROVE  \E f : /\ ApplyFills(a, desired, target, roles, marks, cycle) = f[Symbols]
                /\ Filled(f, a, desired, target, roles, marks, cycle, Symbols)
<1> DEFINE FillOne(s, acc) == FillSymbol(acc, s, desired[s], target[s], roles[s], marks[s], cycle)
           Def(f) == [T \in SUBSET Symbols |->
                        IF T = {} THEN a ELSE FillOne(Pick(T), f[T \ {Pick(T)}])]
<1>1. PICK f : Filled(f, a, desired, target, roles, marks, cycle, Symbols)
  BY AccountAssumption, FilledExists
<1> DEFINE g == [T \in SUBSET Symbols |-> f[T]]
           h == CHOOSE k : k = Def(k)
<1>2. \A T \in SUBSET Symbols : f[T] = IF T = {} THEN a ELSE FillOne(Pick(T), f[T \ {Pick(T)}])
  BY <1>1 DEF Filled
<1>3. ApplyFills(a, desired, target, roles, marks, cycle) = h[Symbols]
  BY DEF ApplyFills, FoldSet, MapThenFoldSet, Pick
<1> HIDE DEF FillOne
<1>4. g = Def(g)
  BY <1>2, PickIn
<1>5. h = Def(h)
  <2> HIDE DEF g, Def
  <2> QED BY <1>4
<1>6. \A T \in SUBSET Symbols : h[T] = IF T = {} THEN a ELSE FillOne(Pick(T), h[T \ {Pick(T)}])
  <2> HIDE DEF h
  <2> QED BY <1>5
<1> HIDE DEF h
<1>7. Filled(h, a, desired, target, roles, marks, cycle, Symbols)
  BY <1>6 DEF Filled, FillOne
<1> QED BY <1>3, <1>7

\* What it costs to bring every position of the account to its target.
Costs(a, target, marks) ==
    [s \in Symbols |-> Paid(target[s] - a.positions[s].qty, marks[s])]

\* apply_fills of a whole book.
LEMMA BookFilled ==
  ASSUME NEW a, IsAccount(a), NEW desired \in [Symbols -> Int], NEW target \in [Symbols -> Int],
         NEW roles \in [Symbols -> Roles], NEW marks \in [Symbols -> Nat], NEW cycle \in Nat
  PROVE  LET b == ApplyFills(a, desired, target, roles, marks, cycle)
             cost == Total(Costs(a, target, marks), Symbols)
         IN  /\ IsAccount(b) /\ b.observed = a.observed /\ b.clock = a.clock
             /\ b.received - b.paid = a.received - a.paid
             /\ \A s \in Symbols :
                  /\ b.positions[s].qty = target[s]
                  /\ target[s] # 0 => b.positions[s].role
                       = AttainedRole(a.positions[s], desired[s], target[s], roles[s])
             /\ Unattributed(b) = Unattributed(a)
             /\ cost \in Int /\ Bank(b) = Bank(a) - cost
<1> DEFINE cost == Costs(a, target, marks)
           Attained(s) == AttainedRole(a.positions[s], desired[s], target[s], roles[s])
           Done(b, T) ==
             /\ IsAccount(b) /\ b.observed = a.observed /\ b.clock = a.clock
             /\ b.received - b.paid = a.received - a.paid
             /\ \A s \in T : /\ b.positions[s].qty = target[s]
                             /\ target[s] # 0 => b.positions[s].role = Attained(s)
             /\ \A s \in Symbols \ T : b.positions[s] = a.positions[s]
             /\ Unattributed(b) = Unattributed(a)
             /\ Bank(b) = Bank(a) - Total(cost, T)
<1>1. PICK f : /\ ApplyFills(a, desired, target, roles, marks, cycle) = f[Symbols]
               /\ Filled(f, a, desired, target, roles, marks, cycle, Symbols)
  BY FillsUnfold
<1> DEFINE Good == {T \in SUBSET Symbols : Done(f[T], T)}
<1>2. IsFiniteSet(Symbols) /\ Bank(a) \in Int /\ Valued(cost, Symbols)
  <2>1. ASSUME NEW s \in Symbols PROVE cost[s] \in Int
    <3>1. target[s] - a.positions[s].qty \in Int /\ marks[s] \in Int /\ Friction \in Int
      BY Typed, AccountAssumption DEF Friction
    <3>2. Abs(target[s] - a.positions[s].qty) \in Int
      BY <3>1, AbsOf
    <3>3. ASSUME NEW x \in Int, NEW y \in Int, NEW z \in Int, NEW u \in Int
          PROVE x * y + z * u \in Int
      BY <3>3
    <3>4. Paid(target[s] - a.positions[s].qty, marks[s]) \in Int
      BY <3>1, <3>2, <3>3 DEF Paid
    <3> QED BY <3>4 DEF Costs
  <2>2. IsFiniteSet(Symbols) /\ Bank(a) \in Int
    BY Valuations
  <2> HIDE DEF cost
  <2> QED BY <2>1, <2>2 DEF Valued
<1> HIDE DEF Attained
<1>3. {} \in Good
  <2>1. f[{}] = a /\ Total(cost, {}) = 0
    BY <1>1, TotalEmpty DEF Filled
  <2> HIDE DEF cost
  <2> QED BY <1>2, <2>1
<1>4. ASSUME NEW T \in SUBSET Symbols, T # {}, \A U \in SUBSET T : U # T => U \in Good
      PROVE  T \in Good
  <2> DEFINE s == Pick(T)
             U == T \ {s}
             c == f[U]
             b == f[T]
  <2>1. s \in T /\ s \in Symbols /\ U \in SUBSET Symbols /\ s \notin U
    BY <1>4, PickIn
  <2>2. Done(c, U)
    BY <1>4, PickIn
  <2>3. b = FillSymbol(c, s, desired[s], target[s], roles[s], marks[s], cycle)
    BY <1>1, <1>4 DEF Filled
  <2> HIDE DEF s, c, b
  <2>4. IsAccount(c) /\ c.positions[s] = a.positions[s]
    BY <2>1, <2>2
  <2>5. /\ Trades(c, b, s, marks[s]) /\ b.positions[s].qty = target[s]
        /\ target[s] # 0 => b.positions[s].role = Attained(s)
    <3>1. desired[s] \in Int /\ target[s] \in Int /\ roles[s] \in Roles /\ marks[s] \in Nat
      BY <2>1
    <3> DEFINE role == AttainedRole(c.positions[s], desired[s], target[s], roles[s])
    <3>2. /\ Trades(c, b, s, marks[s]) /\ b.positions[s].qty = target[s]
          /\ target[s] # 0 => b.positions[s].role = role
      <4>1. IsAccount(c) /\ s \in Symbols /\ cycle \in Nat
        BY <2>1, <2>4
      <4>2. LET fill == FillSymbol(c, s, desired[s], target[s], roles[s], marks[s], cycle)
            IN  /\ Trades(c, fill, s, marks[s]) /\ fill.positions[s].qty = target[s]
                /\ target[s] # 0 => fill.positions[s].role = role
        BY ONLY <3>1, <4>1, SymbolFilled
      <4> QED BY <2>3, <4>2
    <3>3. role = Attained(s)
      BY <2>4 DEF Attained
    <3> HIDE DEF role
    <3> QED BY <3>2, <3>3
  <2>6. Beside(c, b, s) /\ Rest(b, s) = Rest(c, s) - cost[s]
    BY <2>1, <2>4, <2>5 DEF Trades, Costs
  <2>7. Unattributed(b) = Unattributed(a)
    BY <2>1, <2>2, <2>4, <2>6, Reattributed
  <2>8. Bank(b) = Bank(a) - Total(cost, T)
    <3>1. Valued(cost, T) /\ IsFiniteSet(T) /\ Valued(cost, U) /\ IsFiniteSet(U) /\ cost[s] \in Int
      <4> HIDE DEF cost
      <4> QED BY <1>2, <2>1, FS_Subset DEF Valued
    <3>2. Total(cost, T) = cost[s] + Total(cost, U) /\ Total(cost, U) \in Int
      <4> HIDE DEF cost
      <4> QED BY <2>1, <3>1, TotalTakes
    <3>3. Bank(b) = Bank(c) - cost[s]
      <4> HIDE DEF cost
      <4> QED BY <2>1, <2>4, <2>6, <3>1, Repaid
    <3>4. Bank(c) = Bank(a) - Total(cost, U)
      BY <2>2
    <3> HIDE DEF cost
    <3> QED BY <1>2, <3>1, <3>2, <3>3, <3>4
  <2>9. /\ IsAccount(b) /\ b.observed = c.observed /\ b.clock = c.clock
        /\ b.received - b.paid = c.received - c.paid
        /\ \A t \in Symbols \ {s} : b.positions[t] = c.positions[t]
    BY <2>6 DEF Beside
  <2>10. /\ \A t \in T : /\ b.positions[t].qty = target[t]
                         /\ target[t] # 0 => b.positions[t].role = Attained(t)
         /\ \A t \in Symbols \ T : b.positions[t] = a.positions[t]
    BY <2>1, <2>2, <2>5, <2>9
  <2>11. Done(b, T)
    <3> HIDE DEF cost
    <3> QED BY <2>2, <2>7, <2>8, <2>9, <2>10
  <2> HIDE DEF Done
  <2> QED BY <2>11 DEF b
<1>5. Symbols \in Good
  <2>1. \A T \in SUBSET Symbols : T \in Good
    <3> HIDE DEF Good
    <3> QED BY <1>2, <1>3, <1>4, SubsetInduction
  <2> HIDE DEF Good
  <2> QED BY <2>1
<1>6. Done(f[Symbols], Symbols)
  BY <1>5
<1>7. Total(cost, Symbols) \in Int
  <2> HIDE DEF cost
  <2> QED BY <1>2, TotalTakes
<1> HIDE DEF cost
<1> QED BY <1>1, <1>6, <1>7 DEF Attained, cost

-----------------------------------------------------------------------------
(* Funding.                                                                *)

\* What each staged event pays.
Credits(a, events, rates) ==
    [e \in Due(Held(a), events) |-> -a.positions[e[1]].qty * rates[e[1]][e[2]]]

\* settle_funding_events: what the bank is credited is what the positions are, and the
\* sum of what the events pay.
LEMMA FundingSettled ==
  ASSUME NEW a, IsAccount(a), NEW events, \A s \in Symbols : IsFiniteSet(events[s]),
         NEW rates, \A s \in Symbols : \A t \in events[s] : rates[s][t] \in Int,
         NEW time \in Int, NEW intervals \in [Symbols -> Nat],
         NEW b, b = SettleFundingEvents(a, events, rates, time, intervals)
  PROVE  /\ IsAccount(b) /\ b.clock = time /\ b.closed = a.closed
         /\ \A s \in Symbols :
              /\ b.positions[s].qty = a.positions[s].qty
              /\ b.positions[s].role = a.positions[s].role
              /\ b.observed[s] = IF s \in Held(a) THEN intervals[s] ELSE 0
         /\ Bank(b) = Bank(a) + ((b.received - b.paid) - (a.received - a.paid))
         /\ Unattributed(b) = Unattributed(a)
         /\ IsFiniteSet(Due(Held(a), events))
         /\ Valued(Credits(a, events, rates), Due(Held(a), events))
         /\ (b.received - b.paid) - (a.received - a.paid)
              = Total(Credits(a, events, rates), Due(Held(a), events))
<1> DEFINE due == Due(Held(a), events)
           credit == [e \in due |-> -a.positions[e[1]].qty * rates[e[1]][e[2]]]
           gains == {e \in due : credit[e] >= 0}
           all == Total(credit, due)
           sub == [g \in Symbols |-> Total(credit, {e \in due : e[1] = g})]
<1>0. a.cash \in Int /\ a.received \in Int /\ a.paid \in Int
  BY DEF IsAccount
<1>1. /\ \A e \in due : e[1] \in Held(a) /\ e[1] \in Symbols /\ e[2] \in events[e[1]]
      /\ due \subseteq Symbols \X UNION {events[u] : u \in Symbols}
  BY DEF Due, Held
<1>2. IsFiniteSet(due)
  <2>1. IsFiniteSet(Symbols)
    BY AccountAssumption
  <2> DEFINE times == {events[u] : u \in Symbols}
  <2>2. IsFiniteSet(times) /\ \A E \in times : IsFiniteSet(E)
    <3> DEFINE onto == [u \in Symbols |-> events[u]]
    <3>1. onto \in Surjection(Symbols, times)
      BY DEF Surjection
    <3>2. \A E \in times : IsFiniteSet(E)
      OBVIOUS
    <3> HIDE DEF onto, times
    <3> QED BY <2>1, <3>1, <3>2, FS_Surjection
  <2>3. IsFiniteSet(UNION times)
    <3> HIDE DEF times
    <3> QED BY <2>2, FS_UNION
  <2>4. IsFiniteSet(Symbols \X UNION times)
    <3> HIDE DEF times
    <3> QED BY <2>1, <2>3, FS_Product
  <2> HIDE DEF due
  <2> QED BY <1>1, <2>4, FS_Subset
<1>3. Valued(credit, due)
  <2> SUFFICES ASSUME NEW e \in due PROVE credit[e] \in Int
    BY DEF Valued
  <2>1. a.positions[e[1]].qty \in Int /\ rates[e[1]][e[2]] \in Int
    BY <1>1, Typed
  <2>2. credit[e] = -a.positions[e[1]].qty * rates[e[1]][e[2]]
    OBVIOUS
  <2>3. ASSUME NEW x \in Int, NEW y \in Int PROVE -x * y \in Int
    BY <2>3
  <2> HIDE DEF credit
  <2> QED BY <2>1, <2>2, <2>3
<1>4. /\ Total(credit, gains) \in Int /\ Total(credit, due \ gains) \in Int
      /\ all = Total(credit, gains) + Total(credit, due \ gains) /\ all \in Int
  <2>1. gains \in SUBSET due
    OBVIOUS
  <2> HIDE DEF due, credit, gains
  <2>2. /\ IsFiniteSet(gains) /\ IsFiniteSet(due \ gains)
        /\ Valued(credit, gains) /\ Valued(credit, due \ gains)
    BY <1>2, <1>3, <2>1, FS_Subset DEF Valued
  <2> QED BY <1>2, <1>3, <2>1, <2>2, TotalTakes, TotalSplits
<1>5. /\ Valued(sub, Symbols) /\ Total(sub, Symbols) = all
      /\ \A s \in Symbols \ Held(a) : sub[s] = 0
  <2> DEFINE group == [e \in due |-> e[1]]
             Of(g) == {e \in due : e[1] = g}
  <2>1. \A g \in Symbols : {e \in due : group[e] = g} = Of(g)
    OBVIOUS
  <2>2. \A e \in due : group[e] \in Symbols
    BY <1>1
  <2>3. \A g \in Symbols : Of(g) \in SUBSET due
    OBVIOUS
  <2>4. \A s \in Symbols \ Held(a) : Of(s) = {}
    BY <1>1
  <2>5. sub = [g \in Symbols |-> Total(credit, {e \in due : group[e] = g})]
        /\ \A g \in Symbols : sub[g] = Total(credit, Of(g))
    BY <2>1
  <2> HIDE DEF due, credit, group, sub, Of
  <2>6. \A g \in Symbols : IsFiniteSet(Of(g)) /\ Valued(credit, Of(g))
    BY <1>2, <1>3, <2>3, FS_Subset DEF Valued
  <2>7. Total(sub, Symbols) = all
    BY <1>2, <1>3, <2>2, <2>5, TotalGroups, AccountAssumption
  <2>8. Valued(sub, Symbols)
    BY <2>5, <2>6, TotalTakes DEF Valued
  <2> QED BY <2>4, <2>5, <2>7, <2>8, TotalEmpty
<1>6. /\ DOMAIN b = DOMAIN a /\ b.cash = a.cash + all
      /\ b.received = a.received + Total(credit, gains)
      /\ b.paid = a.paid - Total(credit, due \ gains)
      /\ b.fees = a.fees /\ b.slippage = a.slippage /\ b.realized = a.realized
      /\ b.clock = time /\ b.closed = a.closed /\ DOMAIN b.positions = Symbols
      /\ b.observed = [s \in Symbols |-> IF s \in Held(a) THEN intervals[s] ELSE 0]
  BY DEF SettleFundingEvents, IsAccount
<1>7. ASSUME NEW s \in Symbols
      PROVE  LET p == a.positions[s]
                 q == b.positions[s]
             IN  /\ DOMAIN q = DOMAIN p /\ q.qty = p.qty /\ q.basis = p.basis /\ q.role = p.role
                 /\ q.opened = p.opened /\ q.fees = p.fees /\ q.slippage = p.slippage
                 /\ q.realized = p.realized /\ q.funding = p.funding + sub[s]
                 /\ p.funding \in Int /\ IsPosition(p) /\ IsPosition(q)
  <2> DEFINE p == a.positions[s]
             q == b.positions[s]
  <2>1. IsPosition(p) /\ p.funding \in Int /\ sub[s] \in Int
    <3> HIDE DEF sub
    <3> QED BY <1>5 DEF IsAccount, IsPosition, Valued
  <2>2. q = IF s \in Held(a) THEN [p EXCEPT !.funding = @ + sub[s]] ELSE p
    <3> DEFINE part == Total(credit, {e \in due : e[1] = s})
    <3>1. q = IF s \in Held(a) THEN [p EXCEPT !.funding = @ + part] ELSE p
      <4> DEFINE funded == [u \in Symbols |->
                    IF u \in Held(a)
                    THEN [a.positions[u] EXCEPT
                            !.funding = @ + Total(credit, {e \in due : e[1] = u})]
                    ELSE a.positions[u]]
      <4>1. b.positions = funded
        BY DEF SettleFundingEvents, IsAccount
      <4> HIDE DEF due, credit
      <4> QED BY <4>1
    <3>2. part = sub[s]
      OBVIOUS
    <3> HIDE DEF q, p, sub, part
    <3> QED BY <3>1, <3>2
  <2> HIDE DEF q, p, sub
  <2>3. /\ DOMAIN q = DOMAIN p /\ q.qty = p.qty /\ q.basis = p.basis /\ q.role = p.role
        /\ q.opened = p.opened /\ q.fees = p.fees /\ q.slippage = p.slippage
        /\ q.realized = p.realized /\ q.funding = p.funding + sub[s]
    <3>1. CASE s \in Held(a)
      BY <2>1, <2>2, <3>1 DEF IsPosition, Fields
    <3>2. CASE s \notin Held(a)
      BY <1>5, <2>1, <2>2, <3>2
    <3> QED BY <3>1, <3>2
  <2>4. IsPosition(q)
    BY <2>1, <2>3 DEF IsPosition
  <2> QED BY <2>1, <2>3, <2>4 DEF p, q
<1> HIDE DEF due, credit, gains, sub, all
<1>8. IsAccount(b)
  <2>1. b.cash \in Int /\ b.received \in Int /\ b.paid \in Int /\ b.clock \in Int
    BY <1>4, <1>6, <1>0
  <2>2. b.observed \in [Symbols -> Nat]
    BY <1>6
  <2> QED BY <1>6, <1>7, <2>1, <2>2 DEF IsAccount
<1>9. (b.received - b.paid) - (a.received - a.paid) = all
  BY <1>0, <1>4, <1>6
<1>10. Bank(b) = Bank(a) + all
  <2>1. Total(EntryOf(b), Symbols) = Total(EntryOf(a), Symbols)
    <3>1. \A s \in Symbols : EntryOf(b)[s] = EntryOf(a)[s]
      BY <1>7 DEF EntryOf, EntryValue
    <3> QED BY <3>1, Valuations, TotalSame
  <2>2. /\ Bank(a) = a.cash - Total(EntryOf(a), Symbols)
        /\ Bank(b) = b.cash - Total(EntryOf(b), Symbols)
    BY DEF Bank, EntryOf
  <2>3. Total(EntryOf(a), Symbols) \in Int /\ a.cash \in Int
    BY Valuations DEF IsAccount
  <2> QED BY <1>4, <1>6, <2>1, <2>2, <2>3
<1>11. Unattributed(b) = Unattributed(a)
  <2>1. OfPositions(b, "funding") = OfPositions(a, "funding") + all
    <3>1. \A s \in Symbols : FieldOf(b, "funding")[s] = FieldOf(a, "funding")[s] + sub[s]
      BY <1>7 DEF FieldOf
    <3>2. Valued(FieldOf(a, "funding"), Symbols)
      BY Valuations DEF Fields
    <3>3. Total(FieldOf(b, "funding"), Symbols) = Total(FieldOf(a, "funding"), Symbols) + all
      BY <1>5, <3>1, <3>2, TotalAdds, AccountAssumption
    <3> QED BY <3>3 DEF OfPositions, FieldOf
  <2>2. ASSUME NEW field \in {"fees", "slippage", "realized"}
        PROVE  OfPositions(b, field) = OfPositions(a, field)
    <3>1. \A s \in Symbols : FieldOf(b, field)[s] = FieldOf(a, field)[s]
      BY <1>7 DEF FieldOf
    <3>2. Valued(FieldOf(a, field), Symbols)
      BY Valuations DEF Fields
    <3>3. Total(FieldOf(b, field), Symbols) = Total(FieldOf(a, field), Symbols)
      BY <3>1, <3>2, TotalSame, AccountAssumption
    <3> QED BY <3>3 DEF OfPositions, FieldOf
  <2>3. b.received - b.paid - OfPositions(b, "funding") - OfLegs(b.closed, "funding")
          = a.received - a.paid - OfPositions(a, "funding") - OfLegs(a.closed, "funding")
    <3>1. OfPositions(a, "funding") \in Int /\ OfLegs(a.closed, "funding") \in Int
      BY Valuations, LegSums DEF Fields, IsAccount
    <3>2. a.received \in Int /\ a.paid \in Int /\ b.received \in Int /\ b.paid \in Int
      BY <1>8 DEF IsAccount
    <3> QED BY <1>4, <1>6, <1>9, <2>1, <3>1, <3>2
  <2> QED BY <1>6, <2>2, <2>3 DEF Unattributed
<1>12. due = Due(Held(a), events) /\ credit = Credits(a, events, rates)
  BY DEF due, credit, Credits
<1>13. all = Total(Credits(a, events, rates), Due(Held(a), events))
  BY <1>12 DEF all
<1> QED BY <1>2, <1>3, <1>6, <1>7, <1>8, <1>9, <1>10, <1>11, <1>12, <1>13

-----------------------------------------------------------------------------
(* Orders.                                                                 *)

\* A quantity on the side of `delta`, or none.
SameSide(qty, delta) == (qty > 0 => delta > 0) /\ (qty < 0 => delta < 0)

LEMMA Lots ==
  ASSUME NEW n \in Nat, NEW d \in Nat \ {0}
  PROVE  (n \div d) * d \in Nat /\ (n \div d) * d <= n
<1> DEFINE k == n \div d
<1>1. k \in Int /\ d * k <= n /\ n < d * k + d
  OBVIOUS
<1> HIDE DEF k
<1>2. k >= 0
  <2> SUFFICES ASSUME k <= -1 PROVE FALSE
    BY <1>1
  <2>1. d * k <= d * (-1)
    BY <1>1
  <2> QED BY <1>1, <2>1
<1>3. k * d = d * k /\ k * d >= 0 /\ k * d \in Int
  BY <1>1, <1>2
<1>4. k * d \in Nat /\ k * d <= n
  BY <1>1, <1>3
<1> QED BY <1>4 DEF k

LEMMA Signed ==
  ASSUME NEW sign \in Int, NEW units \in Nat, units = 0 \/ sign # 0
  PROVE  /\ Toward(sign, units) \in Int /\ Abs(Toward(sign, units)) = units
         /\ SameSide(Toward(sign, units), sign)
BY DEF Toward, Abs, SameSide

LEMMA OrderRounded ==
  ASSUME NEW s \in Symbols, NEW delta \in Int
  PROVE  /\ Quantized(s, delta) \in Int /\ Abs(Quantized(s, delta)) <= Abs(delta)
         /\ SameSide(Quantized(s, delta), delta)
<1> DEFINE units == (Abs(delta) \div Step[s]) * Step[s]
<1>1. Step[s] \in Nat \ {0} /\ Abs(delta) \in Nat /\ (delta = 0 => Abs(delta) = 0)
  BY BasketAssumption, AbsOf
<1>2. units \in Nat /\ units <= Abs(delta)
  BY <1>1, Lots
<1> HIDE DEF units
<1>3. units = 0 \/ delta # 0
  BY <1>1, <1>2
<1>4. Quantized(s, delta) = Toward(delta, units)
  BY DEF Quantized, units
<1> QED BY <1>2, <1>3, <1>4, Signed

\* A share of at most one.
Share(r) == r[1] \in Nat /\ r[2] \in Nat \ {0} /\ r[1] <= r[2]

LEMMA Shared ==
  ASSUME NEW n \in Nat, NEW r, Share(r)
  PROVE  (n * r[1]) \div r[2] \in Nat /\ (n * r[1]) \div r[2] <= n
<1> DEFINE p == r[1]
           d == r[2]
           m == n * p
           k == m \div d
<1>1. p \in Nat /\ d \in Nat \ {0} /\ p <= d
  BY DEF Share
<1> HIDE DEF p, d
<1>2. m \in Nat /\ m <= n * d
  BY <1>1
<1> HIDE DEF m
<1>3. k \in Int /\ d * k <= m /\ m < d * k + d
  BY <1>1, <1>2
<1> HIDE DEF k
<1>4. k >= 0
  <2> SUFFICES ASSUME k <= -1 PROVE FALSE
    BY <1>3
  <2>1. d * k <= d * (-1)
    BY <1>1, <1>3
  <2> QED BY <1>1, <1>2, <1>3, <2>1
<1>5. k <= n
  <2> SUFFICES ASSUME n + 1 <= k PROVE FALSE
    BY <1>3
  <2>1. d * (n + 1) <= d * k /\ d * (n + 1) = n * d + d
    BY <1>1, <1>3
  <2> QED BY <1>1, <1>2, <1>3, <2>1
<1> QED BY <1>3, <1>4, <1>5 DEF k, m, p, d

\* What is executed of an order: the same side, no more than was ordered.
LEMMA PartExecuted ==
  ASSUME NEW s \in Symbols, NEW delta \in [Symbols -> Int], NEW r, Share(r)
  PROVE  LET order == Quantized(s, delta[s])
             done == ExecutedDelta(s, delta, r)
         IN  /\ order \in Int /\ SameSide(order, delta[s]) /\ Abs(order) <= Abs(delta[s])
             /\ done \in Int /\ SameSide(done, delta[s]) /\ Abs(done) <= Abs(order)
<1> DEFINE order == Quantized(s, delta[s])
           part == (Abs(order) * r[1]) \div r[2]
           wish == Toward(delta[s], part)
           done == ExecutedDelta(s, delta, r)
<1>1. /\ delta[s] \in Int /\ order \in Int /\ Abs(order) <= Abs(delta[s])
      /\ SameSide(order, delta[s])
  BY OrderRounded
<1>2. done = Quantized(s, wish)
  BY DEF ExecutedDelta
<1>3. Abs(order) \in Nat /\ (delta[s] = 0 => Abs(order) = 0)
  <2> HIDE DEF order
  <2>1. Abs(order) \in Nat
    BY <1>1, AbsOf
  <2>2. Abs(0) = 0
    BY AbsOf
  <2> QED BY <1>1, <2>1, <2>2
<1>4. part \in Nat /\ part <= Abs(order)
  <2> HIDE DEF order
  <2> QED BY <1>3, Shared
<1> HIDE DEF part, order
<1>5. part = 0 \/ delta[s] # 0
  BY <1>3, <1>4
<1>6. wish \in Int /\ Abs(wish) = part /\ SameSide(wish, delta[s])
  BY <1>1, <1>4, <1>5, Signed
<1> HIDE DEF wish, done
<1>7. done \in Int /\ Abs(done) <= Abs(wish) /\ SameSide(done, wish)
  BY <1>2, <1>6, OrderRounded
<1>8. SameSide(done, delta[s]) /\ Abs(done) <= Abs(order)
  <2>1. Abs(done) \in Nat
    BY <1>7, AbsOf
  <2>2. Abs(done) <= Abs(order)
    BY <1>3, <1>4, <1>6, <1>7, <2>1
  <2>3. SameSide(done, delta[s])
    BY <1>6, <1>7 DEF SameSide
  <2> QED BY <2>2, <2>3
<1> QED BY <1>1, <1>7, <1>8 DEF order, done

LEMMA Proportion ==
  ASSUME NEW a \in Nat, NEW b \in Nat \ {0}, NEW c \in Nat, NEW d \in Nat \ {0},
         NEW e \in Nat, NEW f \in Nat \ {0}, a * d <= c * b, c * f <= e * d
  PROVE  a * f <= e * b
<1> DEFINE x == a * d
           y == c * b
           z == c * f
           w == e * d
           u == a * f
           v == e * b
<1>1. x \in Nat /\ y \in Nat /\ z \in Nat /\ w \in Nat /\ u \in Nat /\ v \in Nat
  OBVIOUS
<1>2. x * f = d * u /\ y * f = z * b /\ w * b = d * v
  OBVIOUS
<1> HIDE DEF x, y, z, w, u, v
<1>3. x * f <= y * f /\ z * b <= w * b
  <2>1. x <= y /\ z <= w
    BY DEF x, y, z, w
  <2> QED BY <1>1, <2>1
<1>4. d * u <= d * v
  <2>1. x * f \in Int /\ y * f \in Int /\ z * b \in Int /\ w * b \in Int
    BY <1>1
  <2> QED BY <1>2, <1>3, <2>1
<1>5. ~(v < u)
  <2> SUFFICES ASSUME v + 1 <= u PROVE FALSE
    BY <1>1
  <2>1. d * (v + 1) <= d * u /\ d * (v + 1) = d * v + d /\ d * v \in Int /\ d * u \in Int
    BY <1>1
  <2> QED BY <1>4, <2>1
<1> QED BY <1>1, <1>5 DEF u, v

\* A finite set of shares has a smallest one.
LEMMA SmallestShare ==
  ASSUME NEW S, IsFiniteSet(S), S # {}, \A r \in S : Share(r)
  PROVE  \E r \in S : \A q \in S : r[1] * q[2] <= q[1] * r[2]
<1> DEFINE Least(T) == \E r \in T : \A q \in T : r[1] * q[2] <= q[1] * r[2]
           Good == {T \in SUBSET S : T = {} \/ Least(T)}
<1>1. {} \in Good
  OBVIOUS
<1>2. ASSUME NEW T \in SUBSET S, T # {}, \A U \in SUBSET T : U # T => U \in Good
      PROVE  T \in Good
  <2>1. PICK x : x \in T
    BY <1>2
  <2>2. \A q \in T : q[1] \in Nat /\ q[2] \in Nat \ {0}
    BY DEF Share
  <2>3. T \ {x} = {} \/ Least(T \ {x})
    <3> HIDE DEF Least
    <3>1. T \ {x} \in Good
      BY <1>2, <2>1
    <3> QED BY <3>1
  <2>4. CASE T \ {x} = {}
    <3>1. x[1] * x[2] <= x[1] * x[2] /\ \A q \in T : q = x
      BY <2>1, <2>2, <2>4
    <3>2. Least(T)
      BY <2>1, <3>1
    <3> QED BY <3>2
  <2>5. CASE Least(T \ {x})
    <3>1. PICK r \in T \ {x} : \A q \in T \ {x} : r[1] * q[2] <= q[1] * r[2]
      BY <2>5
    <3>2. r[1] * x[2] \in Int /\ x[1] * r[2] \in Int
      BY <2>1, <2>2, <3>1
    <3>3. CASE r[1] * x[2] <= x[1] * r[2]
      <4>1. \A q \in T : r[1] * q[2] <= q[1] * r[2]
        BY <3>1, <3>3
      <4>2. Least(T)
        BY <3>1, <4>1
      <4> QED BY <4>2
    <3>4. CASE x[1] * r[2] <= r[1] * x[2]
      <4>1. ASSUME NEW q \in T \ {x} PROVE x[1] * q[2] <= q[1] * x[2]
        <5>1. r[1] * q[2] <= q[1] * r[2]
          BY <3>1
        <5>2. /\ x[1] \in Nat /\ x[2] \in Nat \ {0} /\ r[1] \in Nat /\ r[2] \in Nat \ {0}
              /\ q[1] \in Nat /\ q[2] \in Nat \ {0}
          BY <2>1, <2>2, <3>1
        <5> QED BY <3>4, <5>1, <5>2, Proportion
      <4>2. x[1] * x[2] <= x[1] * x[2]
        BY <2>1, <2>2
      <4>3. \A q \in T : x[1] * q[2] <= q[1] * x[2]
        BY <4>1, <4>2
      <4>4. Least(T)
        BY <2>1, <4>3
      <4> QED BY <4>4
    <3> QED BY <3>2, <3>3, <3>4
  <2> QED BY <2>3, <2>4, <2>5
<1>3. S \in Good
  <2>1. \A T \in SUBSET S : T \in Good
    <3> HIDE DEF Good
    <3> QED BY <1>1, <1>2, SubsetInduction
  <2> HIDE DEF Good
  <2> QED BY <2>1
<1> QED BY <1>3

\* The participation of a basket is a share of at most one.
LEMMA ParticipationIsShare ==
  ASSUME NEW delta \in [Symbols -> Int], NEW depth \in [Symbols -> Nat]
  PROVE  Share(Participation(delta, depth))
<1> DEFINE changed == {s \in Symbols : delta[s] # 0}
           Order(s) == Abs(Quantized(s, delta[s]))
           Ratio(s) == IF Order(s) = 0 THEN <<0, 1>> ELSE <<Min({Order(s), depth[s]}), Order(s)>>
           ratios == {Ratio(s) : s \in changed}
           least == CHOOSE r \in ratios : \A q \in ratios : r[1] * q[2] <= q[1] * r[2]
<1>1. Participation(delta, depth) = IF ~AllowPartial \/ changed = {} THEN <<1, 1>> ELSE least
  BY DEF Participation
<1>2. Share(<<1, 1>>)
  BY DEF Share
<1>3. ASSUME NEW s \in changed PROVE Share(Ratio(s))
  <2> DEFINE order == Order(s)
             size == depth[s]
  <2>1. order \in Nat /\ size \in Nat
    <3>1. Quantized(s, delta[s]) \in Int
      BY OrderRounded
    <3> QED BY <3>1, AbsOf
  <2>2. Ratio(s) = IF order = 0 THEN <<0, 1>> ELSE <<Min({order, size}), order>>
    OBVIOUS
  <2> HIDE DEF Ratio, order, size
  <2>3. Min({order, size}) = IF order <= size THEN order ELSE size
    BY <2>1, MinOfTwo
  <2> QED BY <2>1, <2>2, <2>3 DEF Share
<1>4. CASE changed # {}
  <2>1. IsFiniteSet(ratios) /\ ratios # {} /\ \A r \in ratios : Share(r)
    <3>1. IsFiniteSet(changed)
      BY AccountAssumption, FS_Subset
    <3> DEFINE onto == [s \in changed |-> Ratio(s)]
    <3>2. onto \in Surjection(changed, ratios)
      <4> HIDE DEF Ratio
      <4> QED BY DEF Surjection
    <3>3. IsFiniteSet(ratios)
      <4> HIDE DEF onto, ratios, changed
      <4> QED BY <3>1, <3>2, FS_Surjection
    <3>4. ratios # {} /\ \A r \in ratios : Share(r)
      <4> HIDE DEF Ratio, changed
      <4> QED BY <1>3, <1>4
    <3> QED BY <3>3, <3>4
  <2> HIDE DEF ratios, changed
  <2>2. least \in ratios
    BY <2>1, SmallestShare
  <2> QED BY <1>1, <1>2, <2>1, <2>2
<1>5. CASE changed = {}
  BY <1>1, <1>2, <1>5
<1> QED BY <1>4, <1>5

-----------------------------------------------------------------------------
(* The invariant.                                                          *)

Ticks == 1..(Horizon + MaxLag)

VenueInv ==
    /\ now \in 0..Horizon /\ every \in [Symbols -> Intervals]
    /\ pending \subseteq Symbols \X Ticks /\ feed \in [Symbols -> SUBSET Ticks]
    /\ basket.book \in Books \cup {{}}
    /\ DOMAIN used = {"late", "changes", "cycles"} /\ used.cycles \in Nat
AccountInv ==
    /\ IsAccount(account) /\ account.closed = <<>>
    /\ account.clock \in (0..Horizon) \cup {NoClock}
    /\ Held(account) # {} => account.clock # NoClock
    /\ \A s \in Symbols : account.positions[s].qty # 0 <=> account.observed[s] # 0
ArchiveInv ==
    /\ DOMAIN archive = Fields
    /\ \A field \in Fields : /\ archive[field] \in Int
                             /\ Unattributed(account)[field] = archive[field]
TradeInv == VenueInv /\ AccountInv /\ ArchiveInv

LEMMA NoLegs == ASSUME NEW field PROVE OfLegs(<<>>, field) = 0
<1>1. DOMAIN <<>> = {}
  OBVIOUS
<1> QED BY <1>1, TotalEmpty DEF OfLegs

LEMMA Constant ==
  /\ IsFiniteSet(Symbols) /\ StartCash \in Nat /\ Horizon \in Nat /\ MaxLag \in Nat
  /\ Hour \in Nat \ {0} /\ MaxLag <= Hour - 1 /\ Hour <= Horizon
  /\ Intervals \subseteq Nat \ {0}
  /\ Marks # {} /\ Marks \subseteq [Symbols -> Nat] /\ Depths \subseteq [Symbols -> Nat]
BY AccountAssumption, HistoryAssumption, TradingAssumption

LEMMA TradingInit == ASSUME Init PROVE TradeInv
<1>1. VenueInv
  <2>1. now \in 0..Horizon
    BY Constant DEF Init
  <2>2. every \in [Symbols -> Intervals]
    BY TradingAssumption DEF Init
  <2> QED BY <2>1, <2>2 DEF Init, VenueInv, NoBasket
<1>2. IsPosition(Flat)
  BY DEF IsPosition, Flat, Fields, Roles
<1>3. IsAccount(account) /\ account.closed = <<>> /\ account.clock = NoClock
  BY <1>2, Constant DEF Init, EmptyAccount, IsAccount, NoClock
<1>4. \A s \in Symbols : account.positions[s].qty = 0 /\ account.observed[s] = 0
  BY DEF Init, EmptyAccount, Flat
<1>5. AccountInv
  BY <1>3, <1>4 DEF AccountInv, Held
<1>6. \A field \in Fields : Unattributed(account)[field] = 0
  <2>1. ASSUME NEW field \in Fields PROVE OfPositions(account, field) = 0
    <3> DEFINE w == [s \in Symbols |-> account.positions[s][field]]
    <3>1. \A s \in Symbols : w[s] = 0
      BY DEF Init, EmptyAccount, Flat, Fields
    <3> HIDE DEF w
    <3>2. Total(w, Symbols) = 0
      BY <3>1, Constant, TotalZero
    <3> QED BY <3>2 DEF OfPositions, w
  <2>2. /\ account.fees = 0 /\ account.slippage = 0 /\ account.realized = 0
        /\ account.received = 0 /\ account.paid = 0
    BY DEF Init, EmptyAccount
  <2> QED BY <1>3, <2>1, <2>2, NoLegs DEF Unattributed, Fields
<1>7. ArchiveInv
  BY <1>6 DEF ArchiveInv, Init, Fields
<1> QED BY <1>1, <1>5, <1>7 DEF TradeInv

\* The settlement that is due.
DueNow == Due(Held(account), Window)
CreditsNow == Credits(account, Window, Rates)

\* The settlement of a proven window, by a heartbeat or by a reconcile.
LEMMA SettledWell ==
  ASSUME TradeInv
  PROVE  /\ IsAccount(Settled) /\ Settled.clock = now /\ Settled.closed = <<>>
         /\ \A s \in Symbols :
              /\ Settled.positions[s].qty = account.positions[s].qty
              /\ Settled.positions[s].role = account.positions[s].role
              /\ Settled.observed[s] = IF s \in Held(account) THEN every[s] ELSE 0
         /\ Bank(Settled) = Bank(account) + ((Settled.received - Settled.paid)
                                              - (account.received - account.paid))
         /\ Unattributed(Settled) = Unattributed(account)
         /\ IsFiniteSet(DueNow) /\ Valued(CreditsNow, DueNow)
         /\ (Settled.received - Settled.paid) - (account.received - account.paid)
              = Total(CreditsNow, DueNow)
<1>1. IsAccount(account) /\ account.closed = <<>> /\ now \in Int /\ every \in [Symbols -> Nat]
  <2>1. IsAccount(account) /\ account.closed = <<>>
    BY DEF TradeInv, AccountInv
  <2>2. now \in 0..Horizon /\ every \in [Symbols -> Intervals]
    BY DEF TradeInv, VenueInv
  <2>3. now \in Int
    BY <2>2, Constant
  <2>4. every \in [Symbols -> Nat]
    BY <2>2, Constant
  <2> QED BY <2>1, <2>3, <2>4
<1>2. \A s \in Symbols : /\ IsFiniteSet(Window[s])
                         /\ \A t \in Window[s] : Rates[s][t] \in Int
  <2> SUFFICES ASSUME NEW s \in Symbols
               PROVE  IsFiniteSet(Window[s]) /\ \A t \in Window[s] : Rates[s][t] \in Int
    OBVIOUS
  <2>1. Window[s] \subseteq Ticks
    BY DEF Window, InWindow, TradeInv, VenueInv
  <2>2. IsFiniteSet(Ticks)
    BY Constant, FS_Interval DEF Ticks
  <2>3. \A t \in Ticks : Rates[s][t] \in Int
    BY TradingAssumption DEF Ticks
  <2> QED BY <2>1, <2>2, <2>3, FS_Subset
<1>3. Settled = SettleFundingEvents(account, Window, Rates, now, every)
  BY DEF Settled
<1>4. ASSUME NEW w, NEW b, \A s \in Symbols : IsFiniteSet(w[s]),
             \A s \in Symbols : \A t \in w[s] : Rates[s][t] \in Int,
             b = SettleFundingEvents(account, w, Rates, now, every)
      PROVE  /\ IsAccount(b) /\ b.clock = now /\ b.closed = account.closed
             /\ \A s \in Symbols :
                  /\ b.positions[s].qty = account.positions[s].qty
                  /\ b.positions[s].role = account.positions[s].role
                  /\ b.observed[s] = IF s \in Held(account) THEN every[s] ELSE 0
             /\ Bank(b) = Bank(account) + ((b.received - b.paid)
                                            - (account.received - account.paid))
             /\ Unattributed(b) = Unattributed(account)
             /\ IsFiniteSet(Due(Held(account), w))
             /\ Valued(Credits(account, w, Rates), Due(Held(account), w))
             /\ (b.received - b.paid) - (account.received - account.paid)
                  = Total(Credits(account, w, Rates), Due(Held(account), w))
  BY <1>1, <1>4, FundingSettled
<1> QED BY <1>1, <1>2, <1>3, <1>4 DEF DueNow, CreditsNow

LEMMA Orders ==
  ASSUME TradeInv
  PROVE  /\ Current \in [Symbols -> Int] /\ Desired \in [Symbols -> Int]
         /\ Deltas \in [Symbols -> Int] /\ RolesOf \in [Symbols -> Roles]
<1>1. IsAccount(account)
  BY DEF TradeInv, AccountInv
<1>2. \A s \in Symbols : account.positions[s].qty \in Int /\ account.positions[s].role \in Roles
  BY <1>1 DEF IsAccount, IsPosition
<1>3. \A s \in Symbols : NetQuantity(basket.book, s) \in Int
  <2> SUFFICES ASSUME NEW s \in Symbols PROVE NetQuantity(basket.book, s) \in Int
    OBVIOUS
  <2> DEFINE book == basket.book
             w == [leg \in book |-> leg.qty]
             legs == {leg \in book : leg.symbol = s}
  <2>1. IsFiniteSet(book) /\ \A leg \in book : leg.qty \in Int
    <3>1. book \in Books \cup {{}}
      BY DEF TradeInv, VenueInv
    <3> HIDE DEF book
    <3>2. CASE book \in Books
      <4>1. IsFiniteSet(book) /\ book \subseteq [symbol : Symbols, qty : Int, role : Roles]
        BY <3>2, TradingAssumption
      <4> QED BY <4>1
    <3>3. CASE book = {}
      BY <3>3, FS_EmptySet
    <3> QED BY <3>1, <3>2, <3>3
  <2>2. IsFiniteSet(legs) /\ Valued(w, legs)
    <3>1. legs \subseteq book
      OBVIOUS
    <3> HIDE DEF book
    <3> QED BY <2>1, <3>1, FS_Subset DEF Valued
  <2>3. NetQuantity(basket.book, s) = Total(w, legs)
    BY DEF NetQuantity
  <2> HIDE DEF w, legs, book
  <2> QED BY <2>2, <2>3, TotalTakes
<1>4. Current \in [Symbols -> Int] /\ Desired \in [Symbols -> Int]
  BY <1>2, <1>3 DEF Current, Desired
<1>5. Deltas \in [Symbols -> Int]
  BY <1>4 DEF Deltas
<1>6. \A s \in Symbols : TargetRole(basket.book, s) \in Roles
  BY <1>2 DEF TargetRole, Roles
<1> QED BY <1>4, <1>5, <1>6 DEF RolesOf

LEMMA Targets ==
  ASSUME TradeInv, NEW depth \in Depths
  PROVE  LET ratio == Participation(Deltas, depth)
         IN  /\ Share(ratio)
             /\ ExecutedTargets(Current, Deltas, ratio) \in [Symbols -> Int]
<1> DEFINE ratio == Participation(Deltas, depth)
<1>1. Current \in [Symbols -> Int] /\ Deltas \in [Symbols -> Int]
  BY Orders
<1>2. Share(ratio)
  BY <1>1, Constant, ParticipationIsShare
<1> HIDE DEF ratio
<1>3. \A s \in Symbols : Current[s] + ExecutedDelta(s, Deltas, ratio) \in Int
  <2> SUFFICES ASSUME NEW s \in Symbols
               PROVE  Current[s] + ExecutedDelta(s, Deltas, ratio) \in Int
    OBVIOUS
  <2>1. ExecutedDelta(s, Deltas, ratio) \in Int /\ Current[s] \in Int
    BY <1>1, <1>2, PartExecuted
  <2> QED BY <2>1
<1>4. ExecutedTargets(Current, Deltas, ratio) \in [Symbols -> Int]
  BY <1>3 DEF ExecutedTargets
<1> QED BY <1>2, <1>4 DEF ratio

Credited(a) == a.received - a.paid

LEMMA CreditedInt == ASSUME NEW a, IsAccount(a) PROVE Credited(a) \in Int
<1>1. a.received \in Int /\ a.paid \in Int
  BY DEF IsAccount
<1> QED BY <1>1 DEF Credited

\* reconcile_book: settle, fill, record the intervals.
LEMMA BookReconciled ==
  ASSUME TradeInv, NEW depth \in Depths, NEW marks \in Marks, NEW target,
         target = ExecutedTargets(Current, Deltas, Participation(Deltas, depth))
  PROVE  LET b == Reconciled(Settled, Desired, target, RolesOf, marks)
         IN  /\ IsAccount(b) /\ b.clock = now
             /\ \A s \in Symbols :
                  /\ b.positions[s].qty = target[s]
                  /\ target[s] # 0 => b.positions[s].role
                       = AttainedRole(account.positions[s], Desired[s], target[s], RolesOf[s])
                  /\ b.observed[s] = IF b.positions[s].qty # 0 THEN every[s] ELSE 0
             /\ Unattributed(b) = Unattributed(account)
             /\ Bank(b) = Bank(account) + (Credited(b) - Credited(account))
                                        - Total(Costs(account, target, marks), Symbols)
             /\ Credited(b) = Credited(Settled)
<1> DEFINE a == Settled
           cycle == used.cycles + 1
           f == ApplyFills(a, Desired, target, RolesOf, marks, cycle)
           b == Reconciled(a, Desired, target, RolesOf, marks)
           cost == Total(Costs(a, target, marks), Symbols)
<1>1. /\ Desired \in [Symbols -> Int] /\ RolesOf \in [Symbols -> Roles] /\ cycle \in Nat
      /\ target \in [Symbols -> Int] /\ marks \in [Symbols -> Nat]
  <2>1. cycle \in Nat
    BY DEF TradeInv, VenueInv
  <2>2. target \in [Symbols -> Int]
    BY Targets
  <2> QED BY <2>1, <2>2, Orders, Constant
<1>2. /\ IsAccount(a) /\ a.clock = now
      /\ \A s \in Symbols : /\ a.positions[s].qty = account.positions[s].qty
                            /\ a.positions[s].role = account.positions[s].role
      /\ Bank(a) = Bank(account) + (Credited(a) - Credited(account))
      /\ Unattributed(a) = Unattributed(account)
  BY SettledWell DEF Credited
<1> HIDE DEF a
<1>3. /\ IsAccount(f) /\ f.clock = now /\ Credited(f) = Credited(a)
      /\ \A s \in Symbols :
           /\ f.positions[s].qty = target[s]
           /\ target[s] # 0 => f.positions[s].role
                = AttainedRole(a.positions[s], Desired[s], target[s], RolesOf[s])
      /\ Unattributed(f) = Unattributed(a)
      /\ cost \in Int /\ Bank(f) = Bank(a) - cost
  <2>1. LET c == ApplyFills(a, Desired, target, RolesOf, marks, cycle)
        IN  /\ IsAccount(c) /\ c.observed = a.observed /\ c.clock = a.clock
            /\ c.received - c.paid = a.received - a.paid
            /\ \A s \in Symbols :
                 /\ c.positions[s].qty = target[s]
                 /\ target[s] # 0 => c.positions[s].role
                      = AttainedRole(a.positions[s], Desired[s], target[s], RolesOf[s])
            /\ Unattributed(c) = Unattributed(a)
            /\ cost \in Int /\ Bank(c) = Bank(a) - cost
    <3> HIDE DEF cycle
    <3> QED BY ONLY <1>1, <1>2, BookFilled
  <2> HIDE DEF f
  <2> QED BY <1>2, <2>1 DEF Credited, f
<1>4. b = [f EXCEPT !.observed = [s \in Symbols |->
                                   IF f.positions[s].qty # 0 THEN every[s] ELSE 0]]
  BY DEF Reconciled
<1> HIDE DEF b, f
<1>5. /\ DOMAIN b = DOMAIN f /\ b.cash = f.cash /\ b.realized = f.realized /\ b.fees = f.fees
      /\ b.slippage = f.slippage /\ b.received = f.received /\ b.paid = f.paid
      /\ b.clock = f.clock /\ b.positions = f.positions /\ b.closed = f.closed
      /\ b.observed = [s \in Symbols |-> IF f.positions[s].qty # 0 THEN every[s] ELSE 0]
  BY <1>3, <1>4 DEF IsAccount
<1>6. IsAccount(b)
  <2>1. every \in [Symbols -> Nat]
    BY Constant DEF TradeInv, VenueInv
  <2>2. b.observed \in [Symbols -> Nat]
    BY <1>5, <2>1
  <2> QED BY <1>3, <1>5, <2>2 DEF IsAccount
<1>7. Unattributed(b) = Unattributed(f) /\ Bank(b) = Bank(f) /\ Credited(b) = Credited(f)
  BY <1>5 DEF Unattributed, OfPositions, Bank, Credited
<1>8. cost = Total(Costs(account, target, marks), Symbols)
  <2>1. \A s \in Symbols : a.positions[s].qty = account.positions[s].qty
    BY <1>2
  <2>2. Costs(a, target, marks) = Costs(account, target, marks)
    BY <2>1 DEF Costs
  <2> QED BY <2>2
<1> HIDE DEF cost
<1>9. Bank(b) = Bank(account) + (Credited(b) - Credited(account))
                              - Total(Costs(account, target, marks), Symbols)
  <2>1. IsAccount(account)
    BY DEF TradeInv, AccountInv
  <2>2. Bank(account) \in Int /\ Credited(account) \in Int /\ Credited(a) \in Int
    BY <1>2, <2>1, Valuations, CreditedInt
  <2> QED BY <1>2, <1>3, <1>7, <1>8, <2>2
<1>10. \A s \in Symbols : AttainedRole(a.positions[s], Desired[s], target[s], RolesOf[s])
         = AttainedRole(account.positions[s], Desired[s], target[s], RolesOf[s])
  BY <1>2 DEF AttainedRole
<1> QED BY <1>2, <1>3, <1>5, <1>6, <1>7, <1>9, <1>10 DEF a, b

\* What a reconcile commits.
LEMMA Finished ==
  ASSUME TradeInv, FinishReconcile
  PROVE  \E depth \in Depths, marks \in Marks :
           LET ratio == Participation(Deltas, depth)
               target == ExecutedTargets(Current, Deltas, ratio)
           IN  /\ IsAccount(account') /\ account'.clock = now /\ account'.closed = <<>>
               /\ \A s \in Symbols :
                    /\ account'.positions[s].qty = target[s]
                    /\ target[s] # 0 => account'.positions[s].role
                         = AttainedRole(account.positions[s], Desired[s], target[s], RolesOf[s])
                    /\ account'.observed[s]
                         = IF account'.positions[s].qty # 0 THEN every[s] ELSE 0
               /\ DOMAIN archive' = DOMAIN archive
               /\ \A field \in Fields : /\ archive'[field] \in Int
                                        /\ Unattributed(account')[field] = archive'[field]
               /\ Bank(account') = Bank(account) + (Credited(account') - Credited(account))
                                     - Total(Costs(account, target, marks), Symbols)
               /\ BasketExecutable(Deltas, depth, ratio, FullFill)
               /\ ~FillsRefused(account, Desired,
                      [s \in Symbols |-> ~PartialFill(s, Deltas, ratio)], RolesOf)
               /\ Verified /\ Credited(account') = Credited(Settled)
<1>1. PICK depth \in Depths, marks \in Marks :
        LET ratio == Participation(Deltas, depth)
            target == ExecutedTargets(Current, Deltas, ratio)
            b == Reconciled(Settled, Desired, target, RolesOf, marks)
        IN  /\ account' = Drained(b) /\ archive' = Journaled(b.closed)
            /\ BasketExecutable(Deltas, depth, ratio, FullFill)
            /\ ~FillsRefused(account, Desired,
                   [s \in Symbols |-> ~PartialFill(s, Deltas, ratio)], RolesOf)
            /\ Verified
  <2> DEFINE Ratio(d) == Participation(Deltas, d)
             Accepted(d) ==
               /\ Verified
               /\ BasketExecutable(Deltas, d, Ratio(d), FullFill)
               /\ ~FillsRefused(account, Desired,
                      [s \in Symbols |-> ~PartialFill(s, Deltas, Ratio(d))], RolesOf)
             Result(d, m) == Reconciled(Settled, Desired,
                               ExecutedTargets(Current, Deltas, Ratio(d)), RolesOf, m)
             Results == {Result(d, m) : d \in {x \in Depths : Accepted(x)}, m \in Marks}
  <2>1. PICK r \in Results : account' = Drained(r) /\ archive' = Journaled(r.closed)
    <3>1. \E r \in {x \in Results : Persistable(x)} :
            account' = Drained(r) /\ archive' = Journaled(r.closed)
      BY DEF FinishReconcile
    <3> HIDE DEF Results
    <3> QED BY <3>1
  <2>2. PICK d \in Depths, m \in Marks : Accepted(d) /\ r = Result(d, m)
    <3> HIDE DEF Accepted, Result
    <3> QED OBVIOUS
  <2>3. account' = Drained(Result(d, m)) /\ archive' = Journaled(Result(d, m).closed)
    <3> HIDE DEF Accepted, Result
    <3> QED BY <2>1, <2>2
  <2> HIDE DEF Result
  <2> QED BY <2>2, <2>3 DEF Result
<1> DEFINE ratio == Participation(Deltas, depth)
           target == ExecutedTargets(Current, Deltas, ratio)
           b == Reconciled(Settled, Desired, target, RolesOf, marks)
<1>2. /\ IsAccount(b) /\ b.clock = now
      /\ \A s \in Symbols :
           /\ b.positions[s].qty = target[s]
           /\ target[s] # 0 => b.positions[s].role
                = AttainedRole(account.positions[s], Desired[s], target[s], RolesOf[s])
           /\ b.observed[s] = IF b.positions[s].qty # 0 THEN every[s] ELSE 0
      /\ Unattributed(b) = Unattributed(account)
      /\ Bank(b) = Bank(account) + (Credited(b) - Credited(account))
                                 - Total(Costs(account, target, marks), Symbols)
      /\ Credited(b) = Credited(Settled)
  BY BookReconciled
<1>3. account' = [b EXCEPT !.closed = <<>>] /\ archive' = Journaled(b.closed)
  BY <1>1 DEF Drained
<1> HIDE DEF b
<1>4. /\ DOMAIN account' = DOMAIN b /\ account'.cash = b.cash /\ account'.realized = b.realized
      /\ account'.fees = b.fees /\ account'.slippage = b.slippage
      /\ account'.received = b.received /\ account'.paid = b.paid
      /\ account'.clock = b.clock /\ account'.positions = b.positions
      /\ account'.closed = <<>> /\ account'.observed = b.observed
  BY <1>2, <1>3 DEF IsAccount
<1>5. IsAccount(account')
  <2>1. <<>> \in Seq(Leg)
    OBVIOUS
  <2> QED BY <1>2, <1>4, <2>1 DEF IsAccount
<1>6. \A field : OfPositions(account', field) = OfPositions(b, field)
  BY <1>4 DEF OfPositions
<1>7. /\ DOMAIN archive = Fields /\ DOMAIN archive' = DOMAIN archive
      /\ \A field \in Fields : /\ archive[field] \in Int
                               /\ Unattributed(b)[field] = archive[field]
                               /\ archive'[field] = archive[field] + OfLegs(b.closed, field)
                               /\ OfLegs(b.closed, field) \in Int
  <2>1. /\ DOMAIN archive = Fields
        /\ \A field \in Fields : /\ archive[field] \in Int
                                 /\ Unattributed(account)[field] = archive[field]
    BY DEF TradeInv, ArchiveInv
  <2>2. DOMAIN archive' = DOMAIN archive
        /\ \A field \in Fields : archive'[field] = archive[field] + OfLegs(b.closed, field)
    BY <1>3, <2>1 DEF Journaled
  <2>3. \A field \in Fields : OfLegs(b.closed, field) \in Int
    BY <1>2, LegSums DEF IsAccount
  <2> QED BY <1>2, <2>1, <2>2, <2>3
<1>8. ASSUME NEW field \in Fields
      PROVE  /\ archive'[field] \in Int
             /\ Unattributed(account')[field] = archive'[field]
  <2>1. archive'[field] \in Int
    BY <1>7
  <2>2. ASSUME NEW x \in Int, NEW f \in Fields, Unattributed(b)[f] = x - OfPositions(b, f) - OfLegs(b.closed, f)
        PROVE  x - OfPositions(account', f) - OfLegs(<<>>, f) = archive'[f]
    <3>1. OfPositions(b, f) \in Int
      BY <1>2, Valuations
    <3> QED BY <1>6, <1>7, <2>2, <3>1, NoLegs
  <2>3. /\ b.fees \in Int /\ b.slippage \in Int /\ b.received - b.paid \in Int /\ b.realized \in Int
    BY <1>2 DEF IsAccount
  <2>4. /\ Unattributed(b).fees = b.fees - OfPositions(b, "fees") - OfLegs(b.closed, "fees")
        /\ Unattributed(b).slippage
             = b.slippage - OfPositions(b, "slippage") - OfLegs(b.closed, "slippage")
        /\ Unattributed(b).funding
             = b.received - b.paid - OfPositions(b, "funding") - OfLegs(b.closed, "funding")
        /\ Unattributed(b).realized
             = b.realized - OfPositions(b, "realized") - OfLegs(b.closed, "realized")
    BY DEF Unattributed
  <2>5. /\ b.fees - OfPositions(account', "fees") - OfLegs(<<>>, "fees") = archive'["fees"]
        /\ b.slippage - OfPositions(account', "slippage") - OfLegs(<<>>, "slippage")
             = archive'["slippage"]
        /\ b.received - b.paid - OfPositions(account', "funding") - OfLegs(<<>>, "funding")
             = archive'["funding"]
        /\ b.realized - OfPositions(account', "realized") - OfLegs(<<>>, "realized")
             = archive'["realized"]
    BY <2>2, <2>3, <2>4 DEF Fields
  <2>6. field \in {"fees", "slippage", "funding", "realized"}
    BY DEF Fields
  <2> QED BY <1>4, <2>1, <2>5, <2>6 DEF Unattributed
<1>9. Bank(account') = Bank(b) /\ Credited(account') = Credited(b)
  BY <1>4 DEF Bank, Credited
<1> HIDE DEF target, ratio
<1>10. /\ account'.clock = now /\ account'.closed = <<>>
       /\ \A s \in Symbols :
            /\ account'.positions[s].qty = target[s]
            /\ target[s] # 0 => account'.positions[s].role
                 = AttainedRole(account.positions[s], Desired[s], target[s], RolesOf[s])
            /\ account'.observed[s] = IF account'.positions[s].qty # 0 THEN every[s] ELSE 0
       /\ Bank(account') = Bank(account) + (Credited(account') - Credited(account))
                             - Total(Costs(account, target, marks), Symbols)
       /\ Credited(account') = Credited(Settled)
  BY <1>2, <1>4, <1>9
<1> QED BY <1>1, <1>5, <1>7, <1>8, <1>10 DEF target, ratio

LEMMA AccountStays ==
  ASSUME TradeInv, account' = account, archive' = archive
  PROVE  AccountInv' /\ ArchiveInv'
<1>1. AccountInv'
  BY DEF TradeInv, AccountInv, Held
<1>2. ArchiveInv'
  BY DEF TradeInv, ArchiveInv
<1> QED BY <1>1, <1>2

\* A committed account keeps the invariant when everything in it was recorded.
LEMMA AccountRecorded ==
  ASSUME TradeInv, IsAccount(account'), account'.closed = <<>>, account'.clock = now,
         \A s \in Symbols : account'.observed[s]
                              = IF account'.positions[s].qty # 0 THEN every[s] ELSE 0
  PROVE  AccountInv'
<1>1. account'.clock \in 0..Horizon /\ account'.clock # NoClock
  BY Constant DEF TradeInv, VenueInv, NoClock
<1>2. \A s \in Symbols : every[s] # 0
  BY Constant DEF TradeInv, VenueInv
<1>3. \A s \in Symbols : account'.positions[s].qty # 0 <=> account'.observed[s] # 0
  BY <1>2
<1> QED BY <1>1, <1>3 DEF AccountInv

LEMMA TradingStep == ASSUME TradeInv, [Next]_vars PROVE TradeInv'
<1>0. /\ now \in 0..Horizon /\ every \in [Symbols -> Intervals]
      /\ pending \subseteq Symbols \X Ticks /\ feed \in [Symbols -> SUBSET Ticks]
      /\ basket.book \in Books \cup {{}}
      /\ DOMAIN used = {"late", "changes", "cycles"} /\ used.cycles \in Nat
  BY DEF TradeInv, VenueInv
<1>1. CASE Tick
  <2>1. PICK due \in SUBSET Symbols, lagging \in SUBSET Symbols :
          /\ now < Horizon /\ now' = now + 1
          /\ used' = [used EXCEPT !.late = @ + Cardinality(lagging)]
          /\ pending' = pending \cup {<<s, now' + (IF s \in lagging THEN MaxLag ELSE 0)>> :
                                         s \in due}
    <3> DEFINE due == {s \in Symbols : now' % (Hour * every[s]) = 0}
    <3>1. /\ now < Horizon /\ now' = now + 1
          /\ \E lagging \in SUBSET due :
               /\ used' = [used EXCEPT !.late = @ + Cardinality(lagging)]
               /\ pending' = pending \cup {<<s, now' + (IF s \in lagging THEN MaxLag ELSE 0)>> :
                                              s \in due}
      BY <1>1 DEF Tick
    <3>2. due \in SUBSET Symbols
      OBVIOUS
    <3> HIDE DEF due
    <3> QED BY <3>1, <3>2
  <2>2. UNCHANGED <<every, feed, account, basket, archive>>
    BY <1>1 DEF Tick
  <2>3. now' \in 0..Horizon /\ now' \in Ticks /\ now' + MaxLag \in Ticks
    BY <1>0, <2>1, Constant DEF Ticks
  <2>4. pending' \subseteq Symbols \X Ticks
    <3>1. ASSUME NEW s \in due
          PROVE  <<s, now' + (IF s \in lagging THEN MaxLag ELSE 0)>> \in Symbols \X Ticks
      <4>1. CASE s \in lagging
        BY <2>3, <4>1
      <4>2. CASE s \notin lagging
        <5>1. now' \in Int /\ now' + 0 = now'
          <6>1. now \in Int
            BY <1>0, Constant
          <6> QED BY <2>1, <6>1
        <5> QED BY <2>3, <4>2, <5>1
      <4> QED BY <4>1, <4>2
    <3> QED BY <1>0, <2>1, <3>1
  <2>5. DOMAIN used' = {"late", "changes", "cycles"} /\ used'.cycles \in Nat
    BY <1>0, <2>1
  <2> QED BY <1>0, <2>2, <2>3, <2>4, <2>5, AccountStays DEF TradeInv, VenueInv
<1>2. CASE Publish
  <2>1. PICK e \in pending :
          /\ pending' = pending \ {e} /\ feed' = [feed EXCEPT ![e[1]] = @ \cup {e[2]}]
          /\ UNCHANGED <<now, every, account, basket, archive, used>>
    BY <1>2 DEF Publish
  <2>2. e[1] \in Symbols /\ e[2] \in Ticks
    BY <1>0
  <2>3. feed' \in [Symbols -> SUBSET Ticks] /\ pending' \subseteq Symbols \X Ticks
    BY <1>0, <2>1, <2>2
  <2> QED BY <1>0, <2>1, <2>3, AccountStays DEF TradeInv, VenueInv
<1>3. CASE ChangeInterval
  <2>1. PICK s \in Symbols, i \in Intervals : every' = [every EXCEPT ![s] = i]
    BY <1>3 DEF ChangeInterval
  <2>2. /\ used' = [used EXCEPT !.changes = @ + 1]
        /\ UNCHANGED <<now, pending, feed, account, basket, archive>>
    BY <1>3 DEF ChangeInterval
  <2>3. every' \in [Symbols -> Intervals]
    BY <1>0, <2>1
  <2>4. DOMAIN used' = {"late", "changes", "cycles"} /\ used'.cycles \in Nat
    BY <1>0, <2>2
  <2> QED BY <1>0, <2>2, <2>3, <2>4, AccountStays DEF TradeInv, VenueInv
<1>4. CASE Heartbeat
  <2>1. account' = Settled /\ UNCHANGED <<now, every, pending, feed, basket, archive, used>>
    BY <1>4 DEF Heartbeat
  <2>2. VenueInv'
    BY <1>0, <2>1 DEF VenueInv
  <2>3. AccountInv'
    <3>1. \A s \in Symbols : Settled.observed[s]
                               = IF Settled.positions[s].qty # 0 THEN every[s] ELSE 0
      BY SettledWell DEF Held
    <3>2. IsAccount(Settled) /\ Settled.closed = <<>> /\ Settled.clock = now
      BY SettledWell
    <3> HIDE DEF Settled
    <3> QED BY <2>1, <3>1, <3>2, AccountRecorded
  <2>4. ArchiveInv'
    <3>1. Unattributed(Settled) = Unattributed(account)
      BY SettledWell
    <3>2. ArchiveInv
      BY DEF TradeInv
    <3> HIDE DEF Settled
    <3> QED BY <2>1, <3>1, <3>2 DEF ArchiveInv
  <2> QED BY <2>2, <2>3, <2>4 DEF TradeInv
<1>5. CASE BeginReconcile
  <2>1. PICK book \in Books :
          basket' = [on |-> TRUE, book |-> book, since |-> now, decided |-> every]
    BY <1>5 DEF BeginReconcile
  <2>2. UNCHANGED <<now, every, pending, feed, account, archive, used>>
    BY <1>5 DEF BeginReconcile
  <2> QED BY <1>0, <2>1, <2>2, AccountStays DEF TradeInv, VenueInv
<1>6. CASE FinishReconcile
  <2>1. /\ basket' = NoBasket /\ used' = [used EXCEPT !.cycles = @ + 1]
        /\ UNCHANGED <<now, every, pending, feed>>
    BY <1>6 DEF FinishReconcile
  <2>2. VenueInv'
    <3>1. DOMAIN used' = {"late", "changes", "cycles"} /\ used'.cycles \in Nat
      BY <1>0, <2>1
    <3>2. basket'.book = {}
      BY <2>1 DEF NoBasket
    <3> QED BY <1>0, <2>1, <3>1, <3>2 DEF VenueInv
  <2>3. /\ IsAccount(account') /\ account'.clock = now /\ account'.closed = <<>>
        /\ \A s \in Symbols : account'.observed[s]
                                = IF account'.positions[s].qty # 0 THEN every[s] ELSE 0
        /\ DOMAIN archive' = DOMAIN archive
        /\ \A field \in Fields : /\ archive'[field] \in Int
                                 /\ Unattributed(account')[field] = archive'[field]
    BY <1>6, Finished
  <2>4. AccountInv'
    BY <2>3, AccountRecorded
  <2>5. ArchiveInv'
    BY <2>3 DEF TradeInv, ArchiveInv
  <2> QED BY <2>2, <2>4, <2>5 DEF TradeInv
<1>7. CASE Halt
  <2>1. basket' = NoBasket /\ UNCHANGED <<now, every, pending, feed, account, archive, used>>
    BY <1>7 DEF Halt
  <2>2. basket'.book = {}
    BY <2>1 DEF NoBasket
  <2> QED BY <1>0, <2>1, <2>2, AccountStays DEF TradeInv, VenueInv
<1>8. CASE UNCHANGED vars
  BY <1>0, <1>8, AccountStays DEF TradeInv, VenueInv, vars
<1> QED BY <1>1, <1>2, <1>3, <1>4, <1>5, <1>6, <1>7, <1>8 DEF Next

\* In every reachable state the account is whole: its positions, its closed legs, its
\* clock and its recorded intervals agree, and nothing in it is unaccounted for.
THEOREM AccountWhole == Spec => []TradeInv
<1>1. Init => TradeInv
  BY TradingInit
<1>2. TradeInv /\ [Next]_vars => TradeInv'
  BY TradingStep
<1> QED BY <1>1, <1>2, PTL DEF Spec

\* Values stay in range, and a held account always has a clock and an interval for
\* every position (scripts/desk_heartbeat.py, desk_reconcile.py).
THEOREM TypeCorrect == Spec => []TypeOK
<1>1. TradeInv => TypeOK
  <2> SUFFICES ASSUME TradeInv PROVE TypeOK
    OBVIOUS
  <2>1. account.cash \in Int /\ \A s \in Symbols : account.positions[s].role \in Roles
    BY DEF TradeInv, AccountInv, IsAccount, IsPosition
  <2> QED BY <2>1 DEF TradeInv, VenueInv, AccountInv, TypeOK, Ticks
<1> QED BY <1>1, AccountWhole, PTL

\* Every cent of the account belongs to an open position or to a leg it closed, through
\* every flip, reduction, role transfer and funding settlement (futures_fund/account.py).
THEOREM CentsAttributed == Spec => []AttributionComplete
<1>1. TradeInv => AttributionComplete
  <2> SUFFICES ASSUME TradeInv PROVE AttributionComplete
    OBVIOUS
  <2>1. IsAccount(account) /\ account.closed = <<>>
    BY DEF TradeInv, AccountInv
  <2>2. \A field \in Fields : OfPositions(account, field) \in Int
    BY <2>1, Valuations
  <2>3. /\ account.fees \in Int /\ account.slippage \in Int /\ account.received - account.paid \in Int
        /\ account.realized \in Int
    BY <2>1 DEF IsAccount
  <2>4. /\ account.fees - Money("fees") - 0 = archive.fees
        /\ account.slippage - Money("slippage") - 0 = archive.slippage
        /\ account.received - account.paid - Money("funding") - 0 = archive.funding
        /\ account.realized - Money("realized") - 0 = archive.realized
    <3>1. \A field \in Fields : Unattributed(account)[field] = archive[field]
      BY DEF TradeInv, ArchiveInv
    <3> QED BY <2>1, <3>1, NoLegs DEF Unattributed, Fields, Money
  <2>5. Money("fees") \in Int /\ Money("slippage") \in Int /\ Money("funding") \in Int
        /\ Money("realized") \in Int
    BY <2>2 DEF Money, Fields
  <2> QED BY <2>3, <2>4, <2>5 DEF AttributionComplete
<1> QED BY <1>1, AccountWhole, PTL

LEMMA PlainTotal == ASSUME NEW w, NEW S PROVE Plain!Total(w, S) = Total(w, S)
BY DEF Plain!Total, Plain!FoldSet, Plain!MapThenFoldSet, Total, FoldSet, MapThenFoldSet

\* The cost of a book is what the plain ledger charges for it.
LEMMA Rebalanced ==
  ASSUME TradeInv, NEW marks \in Marks, IsAccount(account'),
         NEW cost \in Int,
         cost = Total([s \in Symbols |->
                  Paid(account'.positions[s].qty - account.positions[s].qty, marks[s])], Symbols),
         Bank(account') = Bank(account) + (Credited(account') - Credited(account)) - cost
  PROVE  Plain!Rebalance
<1> DEFINE before == [s \in Symbols |-> account.positions[s].qty]
           after == [s \in Symbols |-> account'.positions[s].qty]
           Prices == UNION {{mark[s] : s \in Symbols} : mark \in Marks}
           price == [s \in Symbols |-> marks[s]]
           moved == [s \in Symbols |-> after[s] - before[s]]
           paid == [s \in Symbols |-> moved[s] * price[s]
                      + (FeeUnit + SlipUnit) * (IF moved[s] < 0 THEN -moved[s] ELSE moved[s])]
           w == [s \in Symbols |->
                  Paid(account'.positions[s].qty - account.positions[s].qty, marks[s])]
<1>1. price \in [Symbols -> Prices]
  OBVIOUS
<1>2. \A s \in Symbols : paid[s] = w[s]
  BY DEF Paid, Friction, Abs
<1>3. paid = w
  <2> HIDE DEF moved
  <2> QED BY <1>2
<1>4. Bank(account') = Bank(account)
        + ((account'.received - account'.paid) - (account.received - account.paid))
        - Plain!Total(paid, Symbols)
  <2> HIDE DEF paid, w
  <2>1. cost = Total(w, Symbols)
    BY DEF w
  <2> QED BY <1>3, <2>1, PlainTotal DEF Credited
<1> QED BY <1>1, <1>4 DEF Plain!Rebalance

LEMMA LedgerStep == ASSUME TradeInv, [Next]_vars PROVE [Plain!Rebalance]_(Plain!ledgerVars)
<1>1. CASE account' = account
  BY <1>1 DEF Plain!ledgerVars, Bank
<1>2. CASE Heartbeat
  <2>1. account' = Settled
    BY <1>2 DEF Heartbeat
  <2>2. /\ IsAccount(account')
        /\ \A s \in Symbols : account'.positions[s].qty = account.positions[s].qty
        /\ Bank(account') = Bank(account) + (Credited(account') - Credited(account))
    BY <2>1, SettledWell DEF Credited
  <2>3. PICK marks \in Marks : marks \in [Symbols -> Nat]
    BY Constant
  <2> DEFINE w == [s \in Symbols |->
                    Paid(account'.positions[s].qty - account.positions[s].qty, marks[s])]
  <2>4. \A s \in Symbols : w[s] = 0
    <3> SUFFICES ASSUME NEW s \in Symbols PROVE w[s] = 0
      OBVIOUS
    <3>1. account'.positions[s].qty - account.positions[s].qty = 0 /\ marks[s] \in Nat
      BY <2>2, <2>3, Typed
    <3>2. Abs(0) = 0 /\ Friction \in Nat
      BY AccountAssumption DEF Abs, Friction
    <3>3. Paid(0, marks[s]) = 0
      BY <3>1, <3>2 DEF Paid
    <3> QED BY <3>1, <3>3
  <2> HIDE DEF w
  <2>5. Total(w, Symbols) = 0
    BY <2>4, TotalZero, Constant
  <2>6. Bank(account') = Bank(account) + (Credited(account') - Credited(account)) - 0
    <3>1. IsAccount(account)
      BY DEF TradeInv, AccountInv
    <3>2. Bank(account) \in Int /\ Credited(account) \in Int /\ Credited(account') \in Int
      BY <2>2, <3>1, Valuations, CreditedInt
    <3> QED BY <2>2, <3>2
  <2> QED BY <2>2, <2>5, <2>6, Rebalanced DEF w
<1>3. CASE FinishReconcile
  <2>1. PICK depth \in Depths, marks \in Marks :
          LET target == ExecutedTargets(Current, Deltas, Participation(Deltas, depth))
          IN  /\ IsAccount(account')
              /\ \A s \in Symbols : account'.positions[s].qty = target[s]
              /\ Bank(account') = Bank(account) + (Credited(account') - Credited(account))
                                    - Total(Costs(account, target, marks), Symbols)
    BY <1>3, Finished
  <2> DEFINE target == ExecutedTargets(Current, Deltas, Participation(Deltas, depth))
             cost == Total(Costs(account, target, marks), Symbols)
             w == [s \in Symbols |->
                    Paid(account'.positions[s].qty - account.positions[s].qty, marks[s])]
  <2>2. Costs(account, target, marks) = w
    BY <2>1 DEF Costs
  <2>3. cost \in Int
    <3>1. IsAccount(account) /\ IsAccount(account')
      BY <2>1 DEF TradeInv, AccountInv
    <3>2. ASSUME NEW s \in Symbols PROVE w[s] \in Int
      <4>1. /\ account'.positions[s].qty - account.positions[s].qty \in Int
            /\ marks[s] \in Int /\ Friction \in Int
        <5>1. account'.positions[s].qty \in Int /\ account.positions[s].qty \in Int
          BY <3>1, Typed
        <5> QED BY <5>1, Constant, AccountAssumption DEF Friction
      <4>2. Abs(account'.positions[s].qty - account.positions[s].qty) \in Int
        BY <4>1, AbsOf
      <4>3. ASSUME NEW x \in Int, NEW y \in Int, NEW z \in Int, NEW u \in Int
            PROVE x * y + z * u \in Int
        BY <4>3
      <4> QED BY <4>1, <4>2, <4>3 DEF Paid
    <3> HIDE DEF w
    <3>3. Valued(w, Symbols)
      BY <3>2 DEF Valued
    <3>4. Total(w, Symbols) \in Int
      BY <3>3, Constant, TotalTakes
    <3> QED BY <2>2, <3>4
  <2>4. cost = Total(w, Symbols)
    BY <2>2
  <2>5. IsAccount(account')
        /\ Bank(account') = Bank(account) + (Credited(account') - Credited(account)) - cost
    BY <2>1
  <2> HIDE DEF cost, target
  <2> QED BY <2>3, <2>4, <2>5, Rebalanced
<1>4. account' = account \/ Heartbeat \/ FinishReconcile
  BY DEF Next, Tick, Publish, ChangeInterval, BeginReconcile, Halt, vars
<1> QED BY <1>1, <1>2, <1>3, <1>4

LEMMA LedgerStart == ASSUME Init PROVE Plain!LedgerInit
<1>1. account = EmptyAccount
  BY DEF Init
<1>2. \A s \in Symbols : account.positions[s].qty = 0 /\ EntryValue(account.positions[s]) = 0
  BY <1>1 DEF EmptyAccount, Flat, EntryValue, Sign
<1>3. Total([s \in Symbols |-> EntryValue(account.positions[s])], Symbols) = 0
  <2> DEFINE w == [s \in Symbols |-> EntryValue(account.positions[s])]
  <2>1. \A s \in Symbols : w[s] = 0
    BY <1>2
  <2> HIDE DEF w
  <2>2. Total(w, Symbols) = 0
    BY <2>1, TotalZero, Constant
  <2> QED BY <2>2 DEF w
<1>4. account.cash = StartCash /\ account.received = 0 /\ account.paid = 0
  BY <1>1 DEF EmptyAccount
<1>5. Bank(account) = StartCash /\ account.received - account.paid = 0
  BY <1>3, <1>4, Constant DEF Bank
<1> QED BY <1>2, <1>5 DEF Plain!LedgerInit

\* The account implements the plain ledger: whatever entry prices, realized profits,
\* roles and closed legs it keeps, its money is that of a bank that pays for the units it
\* moves, their frictions and the funding (futures_fund/account.py).
THEOREM InventoryImplemented == Spec => ImplementsInventory
<1>1. Init => Plain!LedgerInit
  BY LedgerStart
<1>2. TradeInv /\ [Next]_vars => [Plain!Rebalance]_(Plain!ledgerVars)
  BY LedgerStep
<1> QED BY <1>1, <1>2, AccountWhole, PTL DEF Spec, ImplementsInventory, Plain!Ledger

\* A committed reconcile leaves every symbol where its book asks; only a growth on the
\* same side and in the same role may stop short, and none retreats or overshoots
\* (apply_fills and _verify_execution_liquidity).
LEMMA FollowStep ==
  ASSUME TradeInv, FinishReconcile
  PROVE  BookFollowed
<1>1. PICK depth \in Depths :
        LET ratio == Participation(Deltas, depth)
            target == ExecutedTargets(Current, Deltas, ratio)
        IN  /\ \A s \in Symbols :
                 /\ account'.positions[s].qty = target[s]
                 /\ target[s] # 0 => account'.positions[s].role
                      = AttainedRole(account.positions[s], Desired[s], target[s], RolesOf[s])
            /\ BasketExecutable(Deltas, depth, ratio, FullFill)
            /\ ~FillsRefused(account, Desired,
                   [s \in Symbols |-> ~PartialFill(s, Deltas, ratio)], RolesOf)
  BY Finished
<1> DEFINE ratio == Participation(Deltas, depth)
           target == ExecutedTargets(Current, Deltas, ratio)
<1>2. Share(ratio)
  BY Targets
<1>3. /\ Current \in [Symbols -> Int] /\ Desired \in [Symbols -> Int]
      /\ Deltas \in [Symbols -> Int]
  BY Orders
<1>4. SUFFICES
        ASSUME NEW s \in Symbols,
               target[s] # Current[s] + Quantized(s, Deltas[s])
        PROVE  LET asked == Current[s] + Quantized(s, Deltas[s])
                   got == target[s]
               IN  /\ Abs(Current[s]) <= Abs(got) /\ Abs(got) < Abs(asked) /\ got * asked > 0
                   /\ Current[s] = 0 \/ account'.positions[s].role = account.positions[s].role
  <2>1. \A s \in Symbols : Deltas[s] = NetQuantity(basket.book, s) - Current[s]
                           /\ account'.positions[s].qty = target[s]
    BY <1>1 DEF Deltas, Desired
  <2> HIDE DEF target
  <2> QED BY <2>1 DEF BookFollowed
<1> DEFINE order == Quantized(s, Deltas[s])
           done == ExecutedDelta(s, Deltas, ratio)
           c == Current[s]
           delta == Deltas[s]
<1>5. target[s] = c + done
  BY DEF ExecutedTargets
<1>6. /\ order \in Int /\ SameSide(order, delta) /\ Abs(order) <= Abs(delta)
      /\ done \in Int /\ SameSide(done, delta) /\ Abs(done) <= Abs(order)
  BY <1>2, <1>3, PartExecuted
<1>7. done # order /\ done # 0 /\ delta # 0
  <2>1. done # order
    BY <1>4, <1>5
  <2>2. delta # 0
    <3> HIDE DEF order, done
    <3> SUFFICES ASSUME delta = 0 PROVE FALSE
      OBVIOUS
    <3> QED BY <1>3, <1>6, <2>1 DEF SameSide
  <2>3. Executable(s, Deltas, ratio, depth, FullFill[s])
    BY <1>1, <2>2 DEF BasketExecutable
  <2> QED BY <2>1, <2>2, <2>3 DEF Executable
<1>8. ~LifecycleTrade(account.positions[s], Desired[s], RolesOf[s])
  <2>1. PartialFill(s, Deltas, ratio)
    BY <1>7 DEF PartialFill
  <2> QED BY <1>1, <2>1 DEF FillsRefused
<1>9. c = account.positions[s].qty /\ delta = Desired[s] - c
  BY DEF Current, Deltas
<1>10. c = 0 \/ (Desired[s] * c > 0 /\ Abs(Desired[s]) >= Abs(c)
                 /\ RolesOf[s] = account.positions[s].role)
  <2>1. c \in Int /\ Desired[s] \in Int /\ Desired[s] * c \in Int
        /\ Abs(c) \in Int /\ Abs(Desired[s]) \in Int
    <3>1. c \in Int /\ Desired[s] \in Int
      BY <1>3
    <3> QED BY <3>1, AbsOf
  <2>2. Desired[s] # c
    BY <1>3, <1>7, <1>9
  <2> QED BY <1>8, <1>9, <2>1, <2>2 DEF LifecycleTrade
<1>11. /\ Abs(c) <= Abs(c + done) /\ Abs(c + done) < Abs(c + order)
       /\ (c + done) * (c + order) > 0
  <2>1. /\ c \in Int /\ Desired[s] \in Int /\ delta \in Int
    BY <1>3
  <2>2. c = 0 \/ (c > 0 /\ Desired[s] >= c) \/ (c < 0 /\ Desired[s] <= c)
    <3> DEFINE d == Desired[s]
    <3>1. d * c > 0 => (d < 0 /\ c < 0) \/ (d > 0 /\ c > 0)
      <4>1. d \in Int /\ c \in Int
        BY <2>1
      <4> HIDE DEF c, d
      <4> QED BY <4>1, Product
    <3> HIDE DEF c, d
    <3> QED BY <1>10, <2>1, <3>1, AbsOf DEF d
  <2>3. (c >= 0 /\ delta > 0 /\ done > 0 /\ done < order)
        \/ (c <= 0 /\ delta < 0 /\ done < 0 /\ done > order)
    <3> DEFINE d == Desired[s]
    <3> HIDE DEF c, d, order, done, delta
    <3>1. delta = d - c /\ c \in Int /\ d \in Int /\ (c = 0 \/ (c > 0 /\ d >= c) \/ (c < 0 /\ d <= c))
      BY <1>9, <2>1, <2>2 DEF d
    <3>2. /\ Abs(done) = IF done < 0 THEN -done ELSE done
          /\ Abs(order) = IF order < 0 THEN -order ELSE order
      BY <1>6, AbsOf
    <3>3. CASE delta > 0
      <4>1. done > 0 /\ c >= 0
        BY <1>6, <1>7, <2>1, <3>1, <3>3 DEF SameSide
      <4>2. order >= 0
        BY <1>6, <2>1, <3>3 DEF SameSide
      <4> QED BY <1>6, <1>7, <3>2, <3>3, <4>1, <4>2
    <3>4. CASE delta < 0
      <4>1. done < 0 /\ c <= 0
        BY <1>6, <1>7, <2>1, <3>1, <3>4 DEF SameSide
      <4>2. order <= 0
        BY <1>6, <2>1, <3>4 DEF SameSide
      <4> QED BY <1>6, <1>7, <3>2, <3>4, <4>1, <4>2
    <3> QED BY <1>7, <2>1, <3>3, <3>4
  <2> HIDE DEF c, order, done, delta
  <2>4. c + done \in Int /\ c + order \in Int
    BY <1>6, <2>1
  <2>5. (c + done) * (c + order) > 0
    <3>1. (c + done > 0 /\ c + order > 0) \/ (c + done < 0 /\ c + order < 0)
      BY <1>6, <2>1, <2>3
    <3> QED BY <2>4, <3>1, Product
  <2>6. /\ Abs(c + done) = IF c + done < 0 THEN -(c + done) ELSE c + done
        /\ Abs(c + order) = IF c + order < 0 THEN -(c + order) ELSE c + order
        /\ Abs(c) = IF c < 0 THEN -c ELSE c
    BY <2>1, <2>4, AbsOf
  <2> QED BY <1>6, <2>1, <2>3, <2>5, <2>6
<1>12. c = 0 \/ account'.positions[s].role = account.positions[s].role
  <2> SUFFICES ASSUME c # 0 PROVE account'.positions[s].role = account.positions[s].role
    OBVIOUS
  <2>1. RolesOf[s] = account.positions[s].role
    BY <1>10
  <2>2. target[s] # 0
    <3>1. c \in Int /\ done \in Int /\ Abs(c) <= Abs(c + done)
      BY <1>3, <1>6, <1>11
    <3> HIDE DEF c, done, target
    <3>2. c + done # 0
      <4>1. Abs(0) = 0 /\ Abs(c) > 0
        BY <3>1, AbsOf
      <4>2. Abs(c + done) \in Int /\ Abs(c) \in Int
        BY <3>1, AbsOf
      <4> QED BY <3>1, <4>1, <4>2
    <3> QED BY <1>5, <3>2
  <2>3. account'.positions[s].role
          = AttainedRole(account.positions[s], Desired[s], target[s], RolesOf[s])
    BY <1>1, <2>2
  <2> HIDE DEF target
  <2> QED BY <2>1, <2>3 DEF AttainedRole
<1> HIDE DEF target, order, done, c
<1> QED BY <1>5, <1>11, <1>12 DEF order, c

THEOREM BookIsFollowed == Spec => FillsFollowBook
<1>1. TradeInv /\ [Next]_vars
        => [account'.positions # account.positions /\ basket.on /\ ~basket'.on => BookFollowed]_vars
  <2> SUFFICES ASSUME TradeInv, Next, account'.positions # account.positions, basket.on
               PROVE  BookFollowed
    OBVIOUS
  <2>1. FinishReconcile
    BY DEF Next, Tick, Publish, ChangeInterval, Heartbeat, BeginReconcile, Halt
  <2> QED BY <2>1, FollowStep
<1> QED BY <1>1, AccountWhole, PTL DEF Spec, FillsFollowBook

-----------------------------------------------------------------------------
(* The funding history, however often the venue changes its intervals.     *)

\* The funding boundaries of s that passed.
Boundaries(s) == {NominalBoundary(t) : t \in Happened(s)}

\* A boundary settles once, and not before it is there.
EventInv == \A s \in Symbols : \A t, u \in Happened(s) :
    /\ NominalBoundary(t) <= now
    /\ NominalBoundary(t) = NominalBoundary(u) => t = u

\* What is owed is owed once, and for a boundary that passed.
OwedInv ==
    /\ IsFiniteSet(owed) /\ owed \subseteq Symbols \X (1..Horizon) \X Int
    /\ \A o \in owed : o[2] \in Boundaries(o[1])
    /\ \A o, p \in owed : o[1] = p[1] /\ o[2] = p[2] => o = p
    /\ missed \subseteq owed /\ \A o \in missed : o[2] <= account.clock
    /\ account.clock <= now /\ (account.clock = NoClock => owed = {})

\* Beyond the funding clock, what is owed is owed on the units held, at every boundary.
UnsettledInv ==
    /\ \A o \in owed : account.clock < o[2] =>
         o[1] \in Held(account) /\ o[3] = account.positions[o[1]].qty
    /\ \A s \in Held(account) : \A b \in Boundaries(s) :
         account.clock < b => <<s, b, account.positions[s].qty>> \in owed

\* A symbol whose interval has not changed since the funding clock still has the one the
\* account recorded, and owes nothing but its boundaries.
IntervalInv ==
    /\ DOMAIN altered = {"unsettled", "once", "twice"}
    /\ \A s \in Held(account) : s \notin altered.unsettled =>
         /\ account.observed[s] = every[s]
         /\ \A o \in owed : o[1] = s /\ account.clock < o[2] => o[2] % (Hour * every[s]) = 0

\* Until a symbol's interval has changed twice since the first leg was observed, its
\* boundaries since are those of the decided and the current schedule.
SinceInv == basket.on =>
    /\ basket.since \in 0..now /\ basket.decided \in [Symbols -> Intervals]
    /\ \A s \in Symbols \ altered.once : basket.decided[s] = every[s]
    /\ \A s \in Symbols \ altered.twice : \A b \in Boundaries(s) : basket.since < b =>
         b % (Hour * basket.decided[s]) = 0 \/ b % (Hour * every[s]) = 0

\* The inductive invariant of the funding history.
HistoryInv == EventInv /\ OwedInv /\ UnsettledInv /\ IntervalInv /\ SinceInv /\ FundingExact

\* What is left of a multiple.
LEMMA Remainder ==
  ASSUME NEW n \in Int, NEW d \in Nat \ {0}
  PROVE  /\ n % d \in 0..(d - 1)
         /\ n % d = 0 => \A r \in 0..(d - 1) : (n + r) % d = r
<1> DEFINE q == n \div d
<1>1. q \in Int /\ n % d \in 0..(d - 1) /\ n = d * q + (n % d)
  OBVIOUS
<1>2. ASSUME n % d = 0, NEW r \in 0..(d - 1) PROVE (n + r) % d = r
  <2> DEFINE k == (n + r) \div d
             x == (n + r) % d
  <2>1. k \in Int /\ x \in 0..(d - 1) /\ n + r = d * k + x
    OBVIOUS
  <2>2. n = d * q
    BY <1>1, <1>2
  <2> HIDE DEF q, k, x
  <2>3. q \in Int
    BY <1>1
  <2>4. d * (k - q) = r - x
    BY <2>1, <2>2, <2>3
  <2>5. CASE k - q >= 1
    <3>1. d * (k - q) >= d
      BY <2>1, <2>3, <2>5
    <3> QED BY <2>1, <2>3, <2>4, <3>1
  <2>6. CASE k - q <= -1
    <3>1. d * (k - q) <= -d
      BY <2>1, <2>3, <2>6
    <3> QED BY <2>1, <2>3, <2>4, <3>1
  <2>7. CASE k = q
    BY <2>1, <2>2, <2>7 DEF x
  <2> QED BY <2>1, <2>3, <2>5, <2>6, <2>7
<1> QED BY <1>1, <1>2

LEMMA Multiple ==
  ASSUME NEW n \in Int, NEW d \in Nat \ {0}, NEW k \in Nat \ {0}, n % (d * k) = 0
  PROVE  n % d = 0
<1> DEFINE q == n \div (d * k)
<1>1. d * k \in Nat \ {0}
  OBVIOUS
<1>2. q \in Int /\ n = (d * k) * q
  BY <1>1
<1> HIDE DEF q
<1>3. n = d * (k * q) /\ k * q \in Int
  BY <1>2
<1>4. (d * (k * q)) % d = 0
  <2> DEFINE m == k * q
  <2>1. m \in Int
    BY <1>3
  <2> HIDE DEF m
  <2>2. (d * m) % d = 0
    BY <2>1
  <2> QED BY <2>2 DEF m
<1> QED BY <1>3, <1>4

\* An event of a boundary, stamped on time or late, is that boundary's.
LEMMA Stamped ==
  ASSUME NEW b \in Int, NEW k \in Nat \ {0}, b % (Hour * k) = 0, NEW lag \in 0..MaxLag
  PROVE  NominalBoundary(b + lag) = b
<1>1. b % Hour = 0
  BY Multiple, Constant
<1>2. (b + lag) % Hour = lag
  <2>1. lag \in 0..(Hour - 1)
    BY Constant
  <2> QED BY <1>1, <2>1, Remainder, Constant
<1>3. lag \in Int
  BY Constant
<1> QED BY <1>2, <1>3 DEF NominalBoundary

\* The boundary an event belongs to is not after it.
LEMMA Nominal ==
  ASSUME NEW t \in Int
  PROVE  NominalBoundary(t) \in Int /\ NominalBoundary(t) <= t
<1>1. t % Hour \in 0..(Hour - 1)
  BY Remainder, Constant
<1> QED BY <1>1, Constant DEF NominalBoundary

LEMMA HappenedTyped ==
  ASSUME TradeInv, NEW s \in Symbols
  PROVE  /\ Happened(s) \subseteq Ticks /\ Happened(s) \subseteq Int
         /\ feed[s] \subseteq Happened(s)
<1>1. pending \subseteq Symbols \X Ticks /\ feed[s] \subseteq Ticks
  BY DEF TradeInv, VenueInv
<1>2. Ticks \subseteq Int
  BY Constant DEF Ticks
<1> QED BY <1>1, <1>2 DEF Happened

\* The event that settled an owed boundary is the one event of it.
LEMMA SettledOnce ==
  ASSUME TradeInv, HistoryInv, NEW o \in owed
  PROVE  /\ o[1] \in Symbols /\ o[2] \in Int /\ o[3] \in Int /\ o = <<o[1], o[2], o[3]>>
         /\ o[2] <= now
         /\ SettledAt(o) \in Happened(o[1]) /\ NominalBoundary(SettledAt(o)) = o[2]
         /\ \A t \in Happened(o[1]) : NominalBoundary(t) = o[2] => t = SettledAt(o)
<1>1. /\ o[1] \in Symbols /\ o[2] \in 1..Horizon /\ o[3] \in Int /\ o = <<o[1], o[2], o[3]>>
      /\ o[2] \in Boundaries(o[1])
  BY DEF HistoryInv, OwedInv
<1>2. \E t \in Happened(o[1]) : NominalBoundary(t) = o[2]
  BY <1>1 DEF Boundaries
<1>3. SettledAt(o) \in Happened(o[1]) /\ NominalBoundary(SettledAt(o)) = o[2]
  BY <1>2 DEF SettledAt
<1>4. /\ NominalBoundary(SettledAt(o)) <= now
      /\ \A t \in Happened(o[1]) : NominalBoundary(t) = o[2] => t = SettledAt(o)
  BY <1>1, <1>3 DEF HistoryInv, EventInv
<1>5. o[2] \in Int
  BY <1>1, Constant
<1> QED BY <1>1, <1>3, <1>4, <1>5

LEMMA PaymentValued ==
  ASSUME TradeInv, HistoryInv
  PROVE  Valued(Payment, owed)
<1> SUFFICES ASSUME NEW o \in owed PROVE Payment[o] \in Int
  BY DEF Valued
<1>1. o[1] \in Symbols /\ o[3] \in Int /\ SettledAt(o) \in Ticks
  BY SettledOnce, HappenedTyped
<1>2. Rates[o[1]][SettledAt(o)] \in Int
  BY <1>1, TradingAssumption DEF Ticks
<1>3. ASSUME NEW x \in Int, NEW y \in Int PROVE -x * y \in Int
  BY <1>3
<1>4. Payment[o] = -o[3] * Rates[o[1]][SettledAt(o)]
  BY DEF Payment
<1> QED BY <1>1, <1>2, <1>3, <1>4

\* What FundingProven proves of a held symbol: the events of the window are the
\* boundaries owed in it, all of them but the ones a change of interval leaves out.
LEMMA WindowIsOwed ==
  ASSUME TradeInv, HistoryInv, FundingProven, NEW s \in Held(account)
  PROVE  /\ account.clock # NoClock
         /\ \A t \in Window[s] :
              /\ t \in Happened(s)
              /\ account.clock < NominalBoundary(t) /\ NominalBoundary(t) <= now
              /\ <<s, NominalBoundary(t), account.positions[s].qty>> \in owed \ LeftOut
         /\ \A o \in owed \ LeftOut : o[1] = s /\ account.clock < o[2] =>
              \E t \in Window[s] : NominalBoundary(t) = o[2]
<1> DEFINE c == account.clock
           prior == account.observed[s]
           seen == {NominalBoundary(t) : t \in Window[s]}
<1>1. s \in Symbols /\ c # NoClock /\ PreviousTs = c /\ c \in Int /\ now \in Int
  <2>1. s \in Symbols /\ c # NoClock
    BY DEF TradeInv, AccountInv, Held
  <2>2. c \in Int
    BY DEF TradeInv, AccountInv, IsAccount
  <2>3. now \in Int
    BY Constant DEF TradeInv, VenueInv
  <2> QED BY <2>1, <2>2, <2>3 DEF PreviousTs
<1>2. IntervalCoverageProof(c, now, prior, every[s], seen)
  <2>1. Collectable(feed[s], c, now, prior, every[s])
    BY <1>1 DEF FundingProven
  <2>2. Window[s] = InWindow(feed[s], c, now)
    BY <1>1 DEF Window
  <2> QED BY <2>1, <2>2 DEF Collectable
<1>3. \A b \in seen : c < b /\ b <= now
  <2>1. CASE prior = every[s]
    <3>1. seen = {t \in (c + 1)..now : t % (Hour * prior) = 0}
      BY <1>2, <2>1 DEF IntervalCoverageProof, ExpectedFundingTimestamps
    <3> HIDE DEF seen, prior, c
    <3> QED BY <1>1, <3>1
  <2>2. CASE prior # every[s]
    <3>1. PICK cut : seen = AfterCut(c, now, prior, every[s], cut)
      BY <1>2, <2>2 DEF IntervalCoverageProof
    <3> HIDE DEF seen, prior, c
    <3>2. seen \subseteq (c + 1)..now
      BY <3>1 DEF AfterCut, ExpectedFundingTimestamps
    <3> QED BY <1>1, <3>2
  <2> QED BY <2>1, <2>2
<1>4. ASSUME NEW t \in Window[s]
      PROVE  /\ t \in Happened(s) /\ c < NominalBoundary(t) /\ NominalBoundary(t) <= now
             /\ <<s, NominalBoundary(t), account.positions[s].qty>> \in owed \ LeftOut
  <2>1. t \in Happened(s)
    BY <1>1, HappenedTyped DEF Window, InWindow
  <2>2. NominalBoundary(t) \in seen /\ c < NominalBoundary(t) /\ NominalBoundary(t) <= now
    BY <1>3
  <2>3. <<s, NominalBoundary(t), account.positions[s].qty>> \in owed
    BY <2>1, <2>2 DEF HistoryInv, UnsettledInv, Boundaries
  <2>4. <<s, NominalBoundary(t), account.positions[s].qty>> \notin LeftOut
    BY <2>2 DEF LeftOut
  <2> QED BY <2>1, <2>2, <2>3, <2>4
<1>5. ASSUME NEW o \in owed \ LeftOut, o[1] = s, c < o[2]
      PROVE  \E t \in Window[s] : NominalBoundary(t) = o[2]
  <2>1. o[2] \in Int /\ o[2] <= now
    BY SettledOnce
  <2>2. CASE s \notin altered.unsettled
    <3>1. prior = every[s] /\ o[2] % (Hour * every[s]) = 0
      BY <1>5, <2>2 DEF HistoryInv, IntervalInv
    <3>2. seen = {t \in (c + 1)..now : t % (Hour * prior) = 0}
      BY <1>2, <3>1 DEF IntervalCoverageProof, ExpectedFundingTimestamps
    <3>3. o[2] \in (c + 1)..now
      BY <1>1, <1>5, <2>1
    <3>4. o[2] \in seen
      <4> HIDE DEF seen
      <4> QED BY <3>1, <3>2, <3>3
    <3> QED BY <3>4
  <2>3. CASE s \in altered.unsettled
    BY <1>1, <1>5, <2>1, <2>3 DEF LeftOut
  <2> QED BY <2>2, <2>3
<1> QED BY <1>1, <1>4, <1>5

\* The sum of a settlement is what the boundaries it passes cost.
LEMMA SettlementSum ==
  ASSUME TradeInv, HistoryInv, FundingProven
  PROVE  Total(Payment, {o \in owed \ (missed \cup LeftOut) : account.clock < o[2]})
           = Total(CreditsNow, DueNow)
<1> DEFINE New == {o \in owed \ (missed \cup LeftOut) : account.clock < o[2]}
           name == [e \in DueNow |-> <<e[1], NominalBoundary(e[2]), account.positions[e[1]].qty>>]
<1>1. IsFiniteSet(DueNow) /\ Valued(CreditsNow, DueNow)
  BY SettledWell
<1>2. ASSUME NEW e \in DueNow
      PROVE  /\ e[1] \in Held(account) /\ e[2] \in Window[e[1]] /\ e = <<e[1], e[2]>>
             /\ e[1] \in Symbols
  BY DEF DueNow, Due, Held
<1>3. account.clock \in Int
  BY DEF TradeInv, AccountInv, IsAccount
<1>4. ASSUME NEW e \in DueNow PROVE name[e] \in New
  <2>1. name[e] \in owed \ LeftOut /\ account.clock < name[e][2]
    BY <1>2, WindowIsOwed
  <2>2. name[e][2] \in Int
    BY <2>1, SettledOnce
  <2>3. name[e] \notin missed
    BY <1>3, <2>1, <2>2 DEF HistoryInv, OwedInv
  <2> HIDE DEF name
  <2> QED BY <2>1, <2>3
<1>5. ASSUME NEW e \in DueNow PROVE Payment[name[e]] = CreditsNow[e]
  <2> DEFINE o == <<e[1], NominalBoundary(e[2]), account.positions[e[1]].qty>>
  <2>1. name[e] = o /\ o \in owed /\ e[2] \in Happened(e[1])
    BY <1>2, WindowIsOwed
  <2>2. o[1] = e[1] /\ o[2] = NominalBoundary(e[2]) /\ o[3] = account.positions[e[1]].qty
    OBVIOUS
  <2> HIDE DEF o
  <2>3. SettledAt(o) = e[2]
    BY <2>1, <2>2, SettledOnce
  <2>4. Payment[o] = -o[3] * Rates[o[1]][SettledAt(o)]
    BY <2>1 DEF Payment
  <2>5. CreditsNow[e] = -account.positions[e[1]].qty * Rates[e[1]][e[2]]
    BY DEF CreditsNow, Credits, DueNow
  <2> HIDE DEF name
  <2> QED BY <2>1, <2>2, <2>3, <2>4, <2>5
<1>6. ASSUME NEW e \in DueNow, NEW d \in DueNow, name[e] = name[d] PROVE e = d
  <2>1. e[1] = d[1] /\ NominalBoundary(e[2]) = NominalBoundary(d[2])
    BY <1>6
  <2>2. e[2] \in Happened(e[1]) /\ d[2] \in Happened(e[1])
    BY <1>2, <2>1, WindowIsOwed
  <2>3. e[2] = d[2]
    BY <1>2, <2>1, <2>2 DEF HistoryInv, EventInv
  <2> QED BY <1>2, <2>1, <2>3
<1>7. ASSUME NEW o \in New PROVE \E e \in DueNow : name[e] = o
  <2>1. o[1] \in Held(account) /\ o[3] = account.positions[o[1]].qty
    BY DEF HistoryInv, UnsettledInv
  <2>2. PICK t \in Window[o[1]] : NominalBoundary(t) = o[2]
    BY <2>1, WindowIsOwed
  <2>3. <<o[1], t>> \in DueNow
    BY <2>1 DEF DueNow, Due
  <2>4. o = <<o[1], o[2], o[3]>>
    BY SettledOnce
  <2>5. name[<<o[1], t>>] = <<o[1], NominalBoundary(t), account.positions[o[1]].qty>>
    BY <2>3
  <2> QED BY <2>1, <2>2, <2>3, <2>4, <2>5
<1> HIDE DEF New, name
<1>8. Total(Payment, New) = Total(CreditsNow, DueNow)
  BY <1>1, <1>4, <1>5, <1>6, <1>7, TotalRenamed
<1> QED BY <1>8 DEF New

\* A settlement, by a heartbeat or by a reconcile, moves the funding clock over
\* everything that is owed and books what it cost.
LEMMA SettlementStep ==
  ASSUME TradeInv, HistoryInv, FundingProven, IsAccount(account'), account'.clock = now,
         Credited(account') = Credited(Settled), missed' = missed \cup LeftOut,
         UNCHANGED <<now, every, pending, feed, owed>>, altered' = Unaltered,
         \A s \in Symbols : account'.observed[s]
                              = IF account'.positions[s].qty # 0 THEN every[s] ELSE 0
  PROVE  EventInv' /\ OwedInv' /\ UnsettledInv' /\ IntervalInv' /\ FundingExact'
<1>1. \A s : Happened(s)' = Happened(s)
  BY DEF Happened
<1>2. \A s : Boundaries(s)' = Boundaries(s)
  BY <1>1 DEF Boundaries
<1>3. account.clock \in Int /\ now \in Nat
  BY Constant DEF TradeInv, AccountInv, IsAccount, VenueInv
<1>4. EventInv'
  BY <1>1 DEF HistoryInv, EventInv
<1>5. \A o \in owed : o[2] \in Int /\ o[2] <= now
  BY SettledOnce
<1>6. LeftOut \subseteq owed
  BY DEF LeftOut
<1>7. OwedInv'
  BY <1>2, <1>3, <1>5, <1>6 DEF HistoryInv, OwedInv, NoClock
<1>8. \A s \in Symbols : \A b \in Boundaries(s) : b \in Int /\ b <= now
  <2> SUFFICES ASSUME NEW s \in Symbols, NEW t \in Happened(s)
               PROVE  NominalBoundary(t) \in Int /\ NominalBoundary(t) <= now
    BY DEF Boundaries
  <2>1. t \in Int
    BY HappenedTyped
  <2> QED BY <2>1, Nominal DEF HistoryInv, EventInv
<1>9. UnsettledInv'
  BY <1>2, <1>3, <1>5, <1>8 DEF UnsettledInv, Held
<1>10. IntervalInv'
  BY <1>3, <1>5 DEF IntervalInv, Held, Unaltered
<1>11. FundingExact'
  <2> DEFINE Old == Elapsed
             New == {o \in owed \ (missed \cup LeftOut) : account.clock < o[2]}
             All == Elapsed'
  <2>1. Payment' = Payment
    <3>1. ASSUME NEW o \in owed PROVE SettledAt(o)' = SettledAt(o)
      <4>1. Happened(o[1])' = Happened(o[1])
        BY <1>1
      <4> QED BY <4>1, Zenon DEF SettledAt
    <3>2. owed' = owed /\ Rates' = Rates
      OBVIOUS
    <3> QED BY <3>1, <3>2 DEF Payment
  <2>2. All = owed \ (missed \cup LeftOut)
    BY <1>5 DEF Elapsed
  <2>3. Old \in SUBSET All /\ All \ Old = New
    <3>1. \A o \in LeftOut : ~(o[2] <= account.clock)
      <4> SUFFICES ASSUME NEW o \in LeftOut PROVE account.clock < o[2]
        BY <1>3, <1>5, <1>6
      <4>1. owed # {} /\ PreviousTs < o[2]
        BY DEF LeftOut
      <4>2. PreviousTs = account.clock
        BY <4>1 DEF PreviousTs, HistoryInv, OwedInv
      <4> QED BY <4>1, <4>2
    <3> QED BY <1>3, <1>5, <2>2, <3>1 DEF Elapsed
  <2>4. IsFiniteSet(owed) /\ Valued(Payment, owed)
    BY PaymentValued DEF HistoryInv, OwedInv
  <2>5. IsFiniteSet(All) /\ Valued(Payment, All)
    BY <2>2, <2>4, FS_Subset DEF Valued
  <2>6. Total(Payment, New) = Total(CreditsNow, DueNow)
    BY SettlementSum
  <2> HIDE DEF Old, New, All
  <2>7. Total(Payment, All) = Total(Payment, Old) + Total(CreditsNow, DueNow)
    BY <2>3, <2>5, <2>6, TotalSplits
  <2>8. Credited(account) = Total(Payment, Old)
    BY DEF HistoryInv, FundingExact, Credited, Old
  <2>9. Credited(account') = Credited(account) + Total(CreditsNow, DueNow)
    <3>1. Credited(Settled) - Credited(account) = Total(CreditsNow, DueNow)
      BY SettledWell DEF Credited
    <3>2. IsAccount(account) /\ IsAccount(Settled)
      BY SettledWell DEF TradeInv, AccountInv
    <3>3. Credited(Settled) \in Int /\ Credited(account) \in Int
      BY <3>2, CreditedInt
    <3> QED BY <3>1, <3>3
  <2> QED BY <2>1, <2>7, <2>8, <2>9 DEF FundingExact, Credited, All
<1> QED BY <1>4, <1>7, <1>9, <1>10, <1>11

\* While no event is added and the account rests, nothing of what is owed moves.
LEMMA HistoryRests ==
  ASSUME TradeInv, HistoryInv, \A s \in Symbols : Happened(s)' = Happened(s),
         UNCHANGED <<now, account, owed, missed>>
  PROVE  /\ EventInv' /\ OwedInv' /\ UnsettledInv' /\ FundingExact'
         /\ \A s \in Symbols : Boundaries(s)' = Boundaries(s)
<1>1. \A s \in Symbols : Boundaries(s)' = Boundaries(s)
  BY DEF Boundaries
<1>2. EventInv'
  BY DEF HistoryInv, EventInv
<1>3. OwedInv' /\ UnsettledInv'
  <2>1. \A s \in Held(account) : s \in Symbols
    BY DEF Held
  <2>2. \A o \in owed : o[1] \in Symbols
    BY SettledOnce
  <2> QED BY <1>1, <2>1, <2>2 DEF HistoryInv, OwedInv, UnsettledInv, Held
<1>4. FundingExact'
  <2>1. Payment' = Payment
    <3>1. ASSUME NEW o \in owed PROVE SettledAt(o)' = SettledAt(o)
      <4>1. Happened(o[1])' = Happened(o[1])
        BY SettledOnce
      <4> QED BY <4>1, Zenon DEF SettledAt
    <3>2. owed' = owed /\ Rates' = Rates
      OBVIOUS
    <3> QED BY <3>1, <3>2 DEF Payment
  <2>2. Elapsed' = Elapsed
    BY DEF Elapsed
  <2> QED BY <2>1, <2>2 DEF HistoryInv, FundingExact
<1> QED BY <1>1, <1>2, <1>3, <1>4

\* A tick adds the events of the boundary it reaches, and what is owed at it.
LEMMA HistoryTicks ==
  ASSUME TradeInv, HistoryInv, Tick
  PROVE  HistoryInv'
<1> DEFINE due == {s \in Symbols : now' % (Hour * every[s]) = 0}
           fresh == {<<s, now', account.positions[s].qty>> : s \in due \cap Held(account)}
<1>0. PICK lagging \in SUBSET due :
        pending' = pending \cup {<<s, now' + (IF s \in lagging THEN MaxLag ELSE 0)>> : s \in due}
  BY DEF Tick
<1> DEFINE stamp(s) == now' + (IF s \in lagging THEN MaxLag ELSE 0)
<1>1. /\ now' = now + 1 /\ now < Horizon /\ owed' = owed \cup fresh
      /\ UNCHANGED <<every, feed, account, basket, archive, missed, altered>>
  BY DEF Tick
<1>2. /\ now \in Nat /\ now' \in 1..Horizon /\ now' \in Int /\ account.clock \in Int
      /\ every \in [Symbols -> Intervals] /\ account.clock <= now
      /\ \A s \in Symbols : account.positions[s].qty \in Int
  <2>1. IsAccount(account) /\ now \in 0..Horizon /\ every \in [Symbols -> Intervals]
        /\ account.clock <= now
    BY DEF TradeInv, AccountInv, VenueInv, HistoryInv, OwedInv
  <2>2. now \in Nat /\ now' \in 1..Horizon /\ now' \in Int
    BY <1>1, <2>1, Constant
  <2> QED BY <2>1, <2>2, Typed DEF IsAccount
<1>3. ASSUME NEW s \in due PROVE NominalBoundary(stamp(s)) = now'
  <2>1. every[s] \in Nat \ {0} /\ now' % (Hour * every[s]) = 0
    BY <1>2, Constant
  <2>2. (IF s \in lagging THEN MaxLag ELSE 0) \in 0..MaxLag
    BY Constant
  <2> QED BY <1>2, <2>1, <2>2, Stamped
<1>4. \A s \in Symbols : Happened(s)' = Happened(s) \cup {stamp(u) : u \in due \cap {s}}
  <2> HIDE DEF stamp, due
  <2>1. pending' = pending \cup {<<s, stamp(s)>> : s \in due}
    BY <1>0 DEF stamp
  <2>2. ASSUME NEW s \in Symbols, NEW t
        PROVE  t \in Happened(s)' <=> t \in Happened(s) \/ (s \in due /\ t = stamp(s))
    <3>1. t \in Happened(s) <=> t \in feed[s] \/ \E p \in pending : p[1] = s /\ t = p[2]
      BY DEF Happened
    <3>2. t \in Happened(s)' <=> t \in feed[s] \/ \E p \in pending' : p[1] = s /\ t = p[2]
      BY <1>1 DEF Happened
    <3>3. (\E p \in pending' : p[1] = s /\ t = p[2])
            <=> (\E p \in pending : p[1] = s /\ t = p[2]) \/ (s \in due /\ t = stamp(s))
      <4>1. \A u : <<u, stamp(u)>>[1] = u /\ <<u, stamp(u)>>[2] = stamp(u)
        OBVIOUS
      <4>2. \A p : p \in pending' <=> p \in pending \/ \E u \in due : p = <<u, stamp(u)>>
        BY <2>1
      <4>3. (\E p \in pending' : p[1] = s /\ t = p[2])
              => (\E p \in pending : p[1] = s /\ t = p[2]) \/ (s \in due /\ t = stamp(s))
        BY <4>1, <4>2
      <4>4. s \in due /\ t = stamp(s) => \E p \in pending' : p[1] = s /\ t = p[2]
        <5>1. s \in due => <<s, stamp(s)>> \in pending'
          BY <4>2
        <5> QED BY <4>1, <5>1
      <4>5. (\E p \in pending : p[1] = s /\ t = p[2]) => \E p \in pending' : p[1] = s /\ t = p[2]
        BY <4>2
      <4> QED BY <4>3, <4>4, <4>5
    <3> QED BY <3>1, <3>2, <3>3
  <2> QED BY <2>2
<1>5. \A s \in Symbols : Boundaries(s)' = Boundaries(s) \cup {now' : u \in due \cap {s}}
  <2> SUFFICES ASSUME NEW s \in Symbols
               PROVE  Boundaries(s)' = Boundaries(s) \cup {now' : u \in due \cap {s}}
    OBVIOUS
  <2>1. Boundaries(s)' = {NominalBoundary(t) : t \in Happened(s)'}
    BY DEF Boundaries, NominalBoundary
  <2> HIDE DEF stamp, due
  <2> QED BY <1>3, <1>4, <2>1 DEF Boundaries
<1> HIDE DEF due, stamp, fresh
<1>6. EventInv'
  <2> SUFFICES ASSUME NEW s \in Symbols, NEW t \in Happened(s)', NEW u \in Happened(s)'
               PROVE  /\ NominalBoundary(t) <= now'
                      /\ NominalBoundary(t) = NominalBoundary(u) => t = u
    BY DEF EventInv
  <2>1. \A x \in Happened(s) : NominalBoundary(x) \in Int /\ NominalBoundary(x) <= now
    BY HappenedTyped, Nominal DEF HistoryInv, EventInv
  <2>2. \A x \in Happened(s)' : x \in Happened(s)
          \/ (s \in due /\ x = stamp(s) /\ NominalBoundary(x) = now')
    BY <1>3, <1>4
  <2>3. \A x, y \in Happened(s) : NominalBoundary(x) = NominalBoundary(y) => x = y
    BY DEF HistoryInv, EventInv
  <2> QED BY <1>1, <1>2, <2>1, <2>2, <2>3
<1>7. \A o \in fresh : /\ o[1] \in due /\ o[1] \in Held(account) /\ o[1] \in Symbols
                       /\ o[2] = now' /\ o[3] = account.positions[o[1]].qty
                       /\ o \in Symbols \X (1..Horizon) \X Int
                       /\ o = <<o[1], now', o[3]>>
  BY <1>2 DEF fresh, Held
<1>8. \A o \in owed : o[1] \in Symbols /\ o[2] \in Int /\ o[2] <= now
  BY SettledOnce
<1>9. OwedInv'
  <2>1. IsFiniteSet(owed')
    <3>1. IsFiniteSet(Symbols)
      BY Constant
    <3> DEFINE at == [s \in Symbols |-> <<s, now', account.positions[s].qty>>]
               all == {at[s] : s \in Symbols}
    <3>2. at \in Surjection(Symbols, all)
      BY DEF Surjection
    <3>3. fresh \subseteq all
      BY DEF fresh, Held
    <3> HIDE DEF at, all
    <3>4. IsFiniteSet(fresh)
      BY <3>1, <3>2, <3>3, FS_Surjection, FS_Subset
    <3>5. IsFiniteSet(owed)
      BY DEF HistoryInv, OwedInv
    <3> QED BY <1>1, <3>4, <3>5, FS_Union
  <2>2. owed' \subseteq Symbols \X (1..Horizon) \X Int
    BY <1>1, <1>7 DEF HistoryInv, OwedInv
  <2>3. \A o \in owed' : o[2] \in Boundaries(o[1])'
    <3>1. \A o \in owed : o[2] \in Boundaries(o[1])
      BY DEF HistoryInv, OwedInv
    <3> QED BY <1>1, <1>5, <1>7, <1>8, <3>1
  <2>4. \A o, p \in owed' : o[1] = p[1] /\ o[2] = p[2] => o = p
    <3>1. \A o, p \in owed : o[1] = p[1] /\ o[2] = p[2] => o = p
      BY DEF HistoryInv, OwedInv
    <3>2. \A o, p \in fresh : o[1] = p[1] => o = p
      BY <1>7
    <3>3. \A o \in owed, p \in fresh : o[2] # p[2]
      BY <1>1, <1>2, <1>7, <1>8
    <3> QED BY <1>1, <3>1, <3>2, <3>3
  <2>5. missed' \subseteq owed' /\ \A o \in missed' : o[2] <= account'.clock
    BY <1>1 DEF HistoryInv, OwedInv
  <2>6. account'.clock <= now'
    BY <1>1, <1>2
  <2>7. account'.clock = NoClock => owed' = {}
    <3>1. account.clock = NoClock => owed = {} /\ Held(account) = {}
      BY DEF HistoryInv, OwedInv, TradeInv, AccountInv
    <3> QED BY <1>1, <1>7, <3>1
  <2> QED BY <2>1, <2>2, <2>3, <2>4, <2>5, <2>6, <2>7 DEF OwedInv
<1>10. Held(account)' = Held(account)
  BY <1>1 DEF Held
<1>11. UnsettledInv'
  <2>1. \A o \in owed' : account.clock < o[2] =>
          o[1] \in Held(account) /\ o[3] = account.positions[o[1]].qty
    BY <1>1, <1>7 DEF HistoryInv, UnsettledInv
  <2>2. ASSUME NEW s \in Held(account), NEW b \in Boundaries(s)', account.clock < b
        PROVE  <<s, b, account.positions[s].qty>> \in owed'
    <3>0. s \in Symbols
      BY DEF Held
    <3>1. CASE b \in Boundaries(s)
      BY <1>1, <2>2, <3>1 DEF HistoryInv, UnsettledInv
    <3>2. CASE s \in due /\ b = now'
      BY <1>1, <3>2 DEF fresh
    <3> QED BY <1>5, <3>0, <3>1, <3>2
  <2> QED BY <1>1, <1>10, <2>1, <2>2 DEF UnsettledInv
<1>12. IntervalInv'
  <2>1. ASSUME NEW s \in Held(account), s \notin altered.unsettled,
               NEW o \in owed', o[1] = s, account.clock < o[2]
        PROVE  o[2] % (Hour * every[s]) = 0
    <3>1. CASE o \in owed
      BY <2>1, <3>1 DEF HistoryInv, IntervalInv
    <3>2. CASE o \in fresh
      BY <1>7, <2>1, <3>2 DEF due
    <3> QED BY <1>1, <3>1, <3>2
  <2>2. \A s \in Held(account) \ altered.unsettled : account.observed[s] = every[s]
    BY DEF HistoryInv, IntervalInv
  <2> QED BY <1>1, <1>10, <2>1, <2>2 DEF HistoryInv, IntervalInv
<1>13. SinceInv'
  <2> SUFFICES ASSUME basket.on
               PROVE  /\ basket.since \in 0..now' /\ basket.decided \in [Symbols -> Intervals]
                      /\ \A s \in Symbols \ altered.once : basket.decided[s] = every[s]
                      /\ \A s \in Symbols \ altered.twice :
                           \A b \in Boundaries(s)' : basket.since < b =>
                           b % (Hour * basket.decided[s]) = 0 \/ b % (Hour * every[s]) = 0
    BY <1>1 DEF SinceInv
  <2>1. /\ basket.since \in 0..now /\ basket.decided \in [Symbols -> Intervals]
        /\ \A s \in Symbols \ altered.once : basket.decided[s] = every[s]
        /\ \A s \in Symbols \ altered.twice : \A b \in Boundaries(s) : basket.since < b =>
             b % (Hour * basket.decided[s]) = 0 \/ b % (Hour * every[s]) = 0
    BY DEF HistoryInv, SinceInv
  <2>2. \A s \in due : now' % (Hour * every[s]) = 0
    BY DEF due
  <2>3. \A s \in Symbols : \A b \in Boundaries(s)' :
          b \in Boundaries(s) \/ (s \in due /\ b = now')
    BY <1>5
  <2>4. basket.since \in 0..now'
    BY <1>1, <1>2, <2>1
  <2> QED BY <1>1, <2>1, <2>2, <2>3, <2>4
<1>14. FundingExact'
  <2>1. Elapsed' = Elapsed
    BY <1>1, <1>2, <1>7 DEF Elapsed
  <2>2. Elapsed \subseteq owed
    BY DEF Elapsed
  <2>3. ASSUME NEW o \in owed PROVE Payment'[o] = Payment[o]
    <3> DEFINE t == SettledAt(o)
    <3>1. o[1] \in Symbols /\ t \in Happened(o[1])' /\ NominalBoundary(t) = o[2]
      BY <1>4, SettledOnce
    <3>2. \A u \in Happened(o[1])' : NominalBoundary(u) = o[2] => u = t
      BY <1>6, <3>1 DEF EventInv
    <3> HIDE DEF t
    <3>3. SettledAt(o)' = t
      <4>1. SettledAt(o)' = CHOOSE u \in Happened(o[1])' : NominalBoundary(u) = o[2]
        BY DEF SettledAt, NominalBoundary
      <4> QED BY <3>1, <3>2, <4>1
    <3>4. Payment[o] = -o[3] * Rates[o[1]][t]
      BY DEF Payment, t
    <3>5. Payment'[o] = -o[3] * Rates[o[1]][SettledAt(o)']
      BY <1>1 DEF Payment
    <3> QED BY <3>3, <3>4, <3>5
  <2>4. IsFiniteSet(Elapsed) /\ Valued(Payment, Elapsed)
    BY <2>2, PaymentValued, FS_Subset DEF HistoryInv, OwedInv, Valued
  <2>5. Total(Payment', Elapsed) = Total(Payment, Elapsed)
    BY <2>2, <2>3, <2>4, TotalSame
  <2> QED BY <1>1, <2>1, <2>5 DEF HistoryInv, FundingExact
<1> QED BY <1>6, <1>9, <1>11, <1>12, <1>13, <1>14 DEF HistoryInv

LEMMA HistoryStart == ASSUME Init PROVE HistoryInv
<1>1. /\ now = Hour - 1 /\ pending = {} /\ feed = [s \in Symbols |-> {}] /\ owed = {} /\ missed = {}
      /\ account = EmptyAccount /\ altered = Unaltered /\ basket.on = FALSE
  BY DEF Init, NoBasket
<1>2. \A s \in Symbols : Happened(s) = {} /\ Boundaries(s) = {}
  BY <1>1 DEF Happened, Boundaries
<1>3. Held(account) = {} /\ account.clock = -1 /\ account.received = 0 /\ account.paid = 0
  BY <1>1 DEF Held, EmptyAccount, Flat, NoClock
<1>4. EventInv /\ UnsettledInv /\ SinceInv
  BY <1>1, <1>2, <1>3 DEF EventInv, UnsettledInv, SinceInv
<1>5. OwedInv
  <2>1. -1 <= now /\ now \in Int
    BY <1>1, Constant
  <2> QED BY <1>1, <1>3, <2>1, FS_EmptySet DEF OwedInv
<1>6. IntervalInv
  BY <1>1, <1>3 DEF IntervalInv, Unaltered
<1>7. FundingExact
  <2>1. Elapsed = {}
    BY <1>1 DEF Elapsed
  <2> QED BY <1>3, <2>1, TotalEmpty DEF FundingExact
<1> QED BY <1>4, <1>5, <1>6, <1>7 DEF HistoryInv

LEMMA BoundariesPassed ==
  ASSUME TradeInv, HistoryInv, NEW s \in Symbols, NEW b \in Boundaries(s)
  PROVE  b \in Int /\ b <= now
<1>1. PICK t \in Happened(s) : b = NominalBoundary(t)
  BY DEF Boundaries
<1>2. t \in Int
  BY HappenedTyped
<1> QED BY <1>1, <1>2, Nominal DEF HistoryInv, EventInv

LEMMA HistoryStep ==
  ASSUME TradeInv, TradeInv', HistoryInv, [Next]_vars
  PROVE  HistoryInv'
<1>0. every \in [Symbols -> Intervals] /\ now \in Nat
  BY Constant DEF TradeInv, VenueInv
<1>1. CASE Tick
  BY <1>1, HistoryTicks
<1>2. CASE Publish
  <2>1. PICK e \in pending :
          /\ pending' = pending \ {e} /\ feed' = [feed EXCEPT ![e[1]] = @ \cup {e[2]}]
          /\ UNCHANGED <<now, every, account, basket, owed, missed, altered>>
    BY <1>2 DEF Publish
  <2>2. \A s \in Symbols : Happened(s)' = Happened(s)
    <3> SUFFICES ASSUME NEW s \in Symbols, NEW t
                 PROVE  t \in Happened(s)' <=> t \in Happened(s)
      OBVIOUS
    <3>1. t \in Happened(s) <=> t \in feed[s] \/ \E p \in pending : p[1] = s /\ t = p[2]
      BY DEF Happened
    <3>2. t \in Happened(s)' <=> t \in feed'[s] \/ \E p \in pending' : p[1] = s /\ t = p[2]
      BY DEF Happened
    <3>3. t \in feed'[s] <=> t \in feed[s] \/ (e[1] = s /\ t = e[2])
      <4>1. feed \in [Symbols -> SUBSET Ticks] /\ pending \subseteq Symbols \X Ticks
        BY DEF TradeInv, VenueInv
      <4> QED BY <2>1, <4>1
    <3> QED BY <2>1, <3>1, <3>2, <3>3
  <2>3. \A s \in Symbols : Boundaries(s)' = Boundaries(s)
    BY <2>2 DEF Boundaries
  <2>4. EventInv' /\ OwedInv' /\ UnsettledInv' /\ FundingExact'
    BY <2>1, <2>2, HistoryRests
  <2>5. IntervalInv' /\ SinceInv'
    BY <2>1, <2>3 DEF HistoryInv, IntervalInv, SinceInv, Held
  <2> QED BY <2>4, <2>5 DEF HistoryInv
<1>3. CASE ChangeInterval
  <2>1. PICK s \in Symbols, i \in Intervals :
          /\ every' = [every EXCEPT ![s] = i]
          /\ altered' = [unsettled |-> altered.unsettled \cup {s},
                         once  |-> altered.once \cup (IF basket.on THEN {s} ELSE {}),
                         twice |-> altered.twice
                                     \cup (altered.once \cap (IF basket.on THEN {s} ELSE {}))]
          /\ UNCHANGED <<now, pending, feed, account, basket, owed, missed>>
    BY <1>3 DEF ChangeInterval
  <2>2. \A u \in Symbols : Happened(u)' = Happened(u)
    BY <2>1 DEF Happened
  <2>3. \A u \in Symbols : Boundaries(u)' = Boundaries(u)
    BY <2>2 DEF Boundaries
  <2>4. EventInv' /\ OwedInv' /\ UnsettledInv' /\ FundingExact'
    BY <2>1, <2>2, HistoryRests
  <2>5. /\ DOMAIN altered' = {"unsettled", "once", "twice"}
        /\ altered'.unsettled = altered.unsettled \cup {s}
        /\ basket.on => /\ altered'.once = altered.once \cup {s}
                        /\ altered'.twice = altered.twice \cup (altered.once \cap {s})
    BY <2>1
  <2>6. \A u \in Symbols \ {s} : every'[u] = every[u]
    BY <1>0, <2>1
  <2>7. IntervalInv'
    <3>1. \A u \in Held(account) : u \in Symbols
      BY DEF Held
    <3> QED BY <2>1, <2>5, <2>6, <3>1 DEF HistoryInv, IntervalInv, Held
  <2>8. SinceInv'
    <3> SUFFICES ASSUME basket.on
                 PROVE  /\ basket.since \in 0..now /\ basket.decided \in [Symbols -> Intervals]
                        /\ \A u \in Symbols \ altered'.once : basket.decided[u] = every'[u]
                        /\ \A u \in Symbols \ altered'.twice :
                             \A b \in Boundaries(u)' : basket.since < b =>
                               \/ b % (Hour * basket.decided[u]) = 0
                               \/ b % (Hour * every'[u]) = 0
      BY <2>1 DEF SinceInv
    <3>1. /\ basket.since \in 0..now /\ basket.decided \in [Symbols -> Intervals]
          /\ \A u \in Symbols \ altered.once : basket.decided[u] = every[u]
          /\ \A u \in Symbols \ altered.twice : \A b \in Boundaries(u) : basket.since < b =>
               b % (Hour * basket.decided[u]) = 0 \/ b % (Hour * every[u]) = 0
      BY DEF HistoryInv, SinceInv
    <3>2. ASSUME s \notin altered.once PROVE basket.decided[s] = every[s]
      BY <3>1, <3>2
    <3> QED BY <2>3, <2>5, <2>6, <3>1, <3>2
  <2> QED BY <2>4, <2>7, <2>8 DEF HistoryInv
<1>4. CASE Heartbeat
  <2>1. /\ account' = Settled /\ missed' = missed \cup LeftOut /\ FundingProven /\ ~basket.on
        /\ altered' = Unaltered
        /\ UNCHANGED <<now, every, pending, feed, owed, basket>>
    BY <1>4 DEF Heartbeat
  <2>2. /\ IsAccount(Settled) /\ Settled.clock = now
        /\ \A s \in Symbols : Settled.observed[s]
                                = IF Settled.positions[s].qty # 0 THEN every[s] ELSE 0
    BY SettledWell DEF Held
  <2>3. EventInv' /\ OwedInv' /\ UnsettledInv' /\ IntervalInv' /\ FundingExact'
    <3> HIDE DEF Settled
    <3> QED BY <2>1, <2>2, SettlementStep
  <2>4. SinceInv'
    BY <2>1 DEF SinceInv
  <2> QED BY <2>3, <2>4 DEF HistoryInv
<1>5. CASE BeginReconcile
  <2>1. /\ basket'.on /\ basket'.since = now /\ basket'.decided = every
        /\ UNCHANGED <<now, every, pending, feed, account, owed, missed, altered>>
    BY <1>5 DEF BeginReconcile
  <2>2. \A s \in Symbols : Happened(s)' = Happened(s)
    BY <2>1 DEF Happened
  <2>3. \A s \in Symbols : Boundaries(s)' = Boundaries(s)
    BY <2>2 DEF Boundaries
  <2>4. EventInv' /\ OwedInv' /\ UnsettledInv' /\ FundingExact'
    BY <2>1, <2>2, HistoryRests
  <2>5. IntervalInv'
    BY <2>1 DEF HistoryInv, IntervalInv, Held
  <2>6. SinceInv'
    <3>1. \A s \in Symbols : \A b \in Boundaries(s)' : ~(now < b)
      BY <1>0, <2>3, BoundariesPassed
    <3>2. basket'.since \in 0..now'
      BY <1>0, <2>1
    <3> QED BY <1>0, <2>1, <3>1, <3>2 DEF SinceInv
  <2> QED BY <2>4, <2>5, <2>6 DEF HistoryInv
<1>6. CASE FinishReconcile
  <2>1. /\ basket' = NoBasket /\ missed' = missed \cup LeftOut
        /\ altered' = Unaltered
        /\ UNCHANGED <<now, every, pending, feed, owed>>
    BY <1>6 DEF FinishReconcile
  <2>2. /\ IsAccount(account') /\ account'.clock = now /\ Credited(account') = Credited(Settled)
        /\ Verified
        /\ \A s \in Symbols : account'.observed[s]
                                = IF account'.positions[s].qty # 0 THEN every[s] ELSE 0
    BY <1>6, Finished
  <2>3. EventInv' /\ OwedInv' /\ UnsettledInv' /\ IntervalInv' /\ FundingExact'
    BY <2>1, <2>2, SettlementStep DEF Verified
  <2>4. SinceInv'
    BY <2>1 DEF SinceInv, NoBasket
  <2> QED BY <2>3, <2>4 DEF HistoryInv
<1>7. CASE Halt \/ UNCHANGED vars
  <2>1. /\ basket' = NoBasket \/ (basket' = basket /\ altered' = altered)
        /\ UNCHANGED <<now, every, pending, feed, account, owed, missed>>
    BY <1>7 DEF Halt, vars
  <2>7. DOMAIN altered' = DOMAIN altered /\ altered'.unsettled = altered.unsettled
    BY <1>7 DEF Halt, vars, HistoryInv, IntervalInv
  <2>2. \A s \in Symbols : Happened(s)' = Happened(s)
    BY <2>1 DEF Happened
  <2>3. \A s \in Symbols : Boundaries(s)' = Boundaries(s)
    BY <2>2 DEF Boundaries
  <2>4. EventInv' /\ OwedInv' /\ UnsettledInv' /\ FundingExact'
    BY <2>1, <2>2, HistoryRests
  <2>5. IntervalInv'
    BY <2>1, <2>7 DEF HistoryInv, IntervalInv, Held
  <2>6. SinceInv'
    BY <2>1, <2>3 DEF HistoryInv, SinceInv, NoBasket
  <2> QED BY <2>4, <2>5, <2>6 DEF HistoryInv
<1> QED BY <1>1, <1>2, <1>3, <1>4, <1>5, <1>6, <1>7 DEF Next

\* What is owed, what is booked and what the schedules were hang together in every
\* reachable state, however often the venue changes an interval (funding_history.py,
\* settle_funding_events).
THEOREM HistoryKept == Spec => []HistoryInv
<1>1. Init => HistoryInv
  BY HistoryStart
<1>2. TradeInv /\ TradeInv' /\ HistoryInv /\ [Next]_vars => HistoryInv'
  BY HistoryStep
<1> QED BY <1>1, <1>2, AccountWhole, PTL DEF Spec

\* The funding booked is what the venue's boundaries cost or paid on the units held at
\* them, each once, whatever windows the heartbeats and reconciles cut, however late the
\* venue publishes and however often it changes an interval; the boundaries excepted are
\* in `missed` (collect_funding_events, settle_funding_events).
THEOREM FundingIsExact == Spec => []FundingExact
<1>1. HistoryInv => FundingExact
  BY DEF HistoryInv
<1> QED BY <1>1, HistoryKept, PTL

\* No boundary of a symbol of a committed basket fell between its first and last
\* observation (verify_execution_window_funding_safety).
LEMMA BasketIsClear ==
  ASSUME TradeInv, HistoryInv, FinishReconcile
  PROVE  BasketClearOfBoundary
<1> SUFFICES ASSUME NEW s \in InBasket, NEW t \in Happened(s),
                    basket.since < NominalBoundary(t), NominalBoundary(t) <= now,
                    s \in Held(account) =>
                        ~\E o \in missed' : o[1] = s /\ o[2] = NominalBoundary(t),
                    s \notin Held(account) => s \notin altered.twice
             PROVE  FALSE
  BY DEF BasketClearOfBoundary
<1> DEFINE b == NominalBoundary(t)
<1>1. Verified /\ basket.on /\ missed' = missed \cup LeftOut
  <2>1. basket.on /\ missed' = missed \cup LeftOut
    BY DEF FinishReconcile
  <2>2. Verified
    BY Finished
  <2> QED BY <2>1, <2>2
<1>2. s \in Symbols
  <2>1. basket.book \subseteq [symbol : Symbols, qty : Int, role : Roles]
    <3>1. basket.book \in Books \cup {{}}
      BY DEF TradeInv, VenueInv
    <3> QED BY <3>1, TradingAssumption
  <2>2. InBasket \subseteq Symbols
    BY <2>1 DEF InBasket, Booked, Held
  <2> QED BY <2>2
<1>3. b \in Boundaries(s) /\ b \in Int /\ basket.since \in 0..now /\ now \in Nat
  <2>1. b \in Boundaries(s)
    BY DEF Boundaries
  <2>2. now \in Nat
    BY Constant DEF TradeInv, VenueInv
  <2> QED BY <1>1, <1>2, <2>1, <2>2, BoundariesPassed DEF HistoryInv, SinceInv
<1> DEFINE Expected(i) == ExpectedFundingTimestamps(basket.since - 1, now, i)
           Judged == IF s \in Held(account)
                     THEN {NominalBoundary(u) : u \in InWindow(feed[s], PreviousTs, now)}
                     ELSE Expected(basket.decided[s]) \cup Expected(every[s])
<1>4. /\ FundingProven
      /\ Held(account) = {} \/ PreviousTs <= basket.since
      /\ \A x \in Judged : ~(basket.since <= x /\ x <= now)
  BY <1>1 DEF Verified, ExecutionWindowSafe
<1>5. CASE s \in Held(account)
  <2>1. account.clock \in Int /\ PreviousTs = account.clock /\ account.clock < b
    <3>1. account.clock # NoClock /\ account.clock \in Int
      BY <1>5 DEF TradeInv, AccountInv, IsAccount
    <3> QED BY <1>3, <1>4, <1>5, <3>1 DEF PreviousTs
  <2> DEFINE o == <<s, b, account.positions[s].qty>>
  <2>2. o \in owed /\ o[1] = s /\ o[2] = b
    BY <1>3, <1>5, <2>1 DEF HistoryInv, UnsettledInv
  <2>3. o \notin LeftOut
    BY <1>1, <1>5, <2>2
  <2> HIDE DEF o
  <2>4. PICK u \in Window[s] : NominalBoundary(u) = b
    BY <1>4, <1>5, <2>1, <2>2, <2>3, WindowIsOwed
  <2>5. b \in Judged
    BY <1>2, <1>5, <2>4 DEF Window
  <2> HIDE DEF Judged
  <2> QED BY <1>3, <1>4, <2>5
<1>6. CASE s \notin Held(account)
  <2>1. b % (Hour * basket.decided[s]) = 0 \/ b % (Hour * every[s]) = 0
    BY <1>1, <1>2, <1>3, <1>6 DEF HistoryInv, SinceInv
  <2>2. b \in ((basket.since - 1) + 1)..now
    BY <1>3
  <2>3. b \in Judged
    BY <1>6, <2>1, <2>2 DEF ExpectedFundingTimestamps
  <2> HIDE DEF Judged
  <2> QED BY <1>3, <1>4, <2>3
<1> QED BY <1>5, <1>6

THEOREM BasketsClear == Spec => NoStraddledBasket
<1>1. TradeInv /\ HistoryInv /\ [Next]_vars =>
        [used'.cycles # used.cycles => BasketClearOfBoundary]_vars
  <2> SUFFICES ASSUME TradeInv, HistoryInv, Next, used'.cycles # used.cycles
               PROVE  BasketClearOfBoundary
    OBVIOUS
  <2>1. DOMAIN used = {"late", "changes", "cycles"}
    BY DEF TradeInv, VenueInv
  <2>2. FinishReconcile
    BY <2>1 DEF Next, Tick, Publish, ChangeInterval, Heartbeat, BeginReconcile, Halt
  <2> QED BY <2>2, BasketIsClear
<1> QED BY <1>1, AccountWhole, HistoryKept, PTL DEF Spec, NoStraddledBasket
=============================================================================
