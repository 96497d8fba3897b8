----------------------------- MODULE SumProofs -----------------------------
(***************************************************************************)
(* Sums over finite sets: what SumFunctionOnSet of the community module    *)
(* Functions gives, and how it changes when one value or one element does. *)
(* The ledgers of the program (positions of a market, stakes, open bets,   *)
(* credits of a wallet) are compared with such sums, so the proofs about   *)
(* modules Market, Duels, Staking, Dao and Backend cite these lemmas.      *)
(*                                                                         *)
(* SumFunctionOnSet is a fold, a CHOOSE of a recursive function on subsets.*)
(* The library proves induction over finite sets for a predicate that is a *)
(* parameter, which the provers cannot instantiate; here the predicate is a*)
(* set of subsets (SubsetInduction), and its proof takes a smallest subset *)
(* outside of it (WellFoundedInduction, WFMin). With that the function is  *)
(* shown to exist and to be one, and the sum to split at any element.      *)
(***************************************************************************)
EXTENDS Integers, Functions, FiniteSetTheorems, WellFoundedInduction, TLAPS

\* Induction over the subsets of a finite set, for a set Q of subsets: the
\* induction of the library, with the predicate given as a set.
LEMMA SubsetInduction ==
  ASSUME NEW S, IsFiniteSet(S), NEW Q,
         {} \in Q,
         \A T \in SUBSET S :
           T # {} /\ (\A x \in T : T \ {x} \in Q) => T \in Q
  PROVE  S \in Q
<1> DEFINE Bad == {T \in SUBSET S : T \notin Q}
<1> SUFFICES ASSUME S \notin Q PROVE FALSE
  OBVIOUS
<1>1. Bad \subseteq FiniteSubsetsOf(S) /\ Bad # {}
  BY FS_FiniteSubsetsOfFinite
<1>2. PICK T \in Bad : \A U \in Bad : <<U, T>> \notin StrictSubsetOrdering(S)
  <2> HIDE DEF Bad
  <2> QED
  BY <1>1, WFMin, FS_StrictSubsetOrderingWellFounded
<1>3. ASSUME NEW x \in T PROVE T \ {x} \in Q
  <2>1. <<T \ {x}, T>> \in StrictSubsetOrdering(S)
    BY <1>2 DEF StrictSubsetOrdering
  <2> QED
    BY <1>2, <2>1
<1> QED
  BY <1>2, <1>3

\* The product of finite sets is finite.
LEMMA ProductFinite ==
  ASSUME NEW S, IsFiniteSet(S), NEW U, IsFiniteSet(U)
  PROVE  IsFiniteSet(S \X U)
<1>1. ASSUME NEW x PROVE IsFiniteSet({x} \X U)
  <2> DEFINE Q == {T \in SUBSET U : IsFiniteSet({x} \X T)}
  <2>1. {} \in Q
    <3>1. {x} \X {} = {}
      OBVIOUS
    <3> QED
      BY <3>1, FS_EmptySet
  <2>2. ASSUME NEW T \in SUBSET U, T # {}, \A y \in T : T \ {y} \in Q
        PROVE  T \in Q
    <3>1. PICK y \in T : TRUE
      BY <2>2
    <3>2. {x} \X T = ({x} \X (T \ {y})) \cup {<<x, y>>}
      BY <3>1
    <3>3. IsFiniteSet({x} \X (T \ {y}))
      BY <2>2, <3>1
    <3>4. IsFiniteSet({x} \X T)
      <4>1. IsFiniteSet(({x} \X (T \ {y})) \cup {<<x, y>>})
        BY <3>3, FS_AddElement
      <4> QED
        BY <3>2, <4>1, Zenon
    <3> QED
      BY <3>4
  <2>3. U \in Q
    <3> HIDE DEF Q
    <3> QED
      BY <2>1, <2>2, SubsetInduction
  <2> QED
    BY <2>3
<1> DEFINE Q == {T \in SUBSET S : IsFiniteSet(T \X U)}
<1>2. {} \in Q
  <2>1. {} \X U = {}
    OBVIOUS
  <2> QED
    BY <2>1, FS_EmptySet
<1>3. ASSUME NEW T \in SUBSET S, T # {}, \A x \in T : T \ {x} \in Q
      PROVE  T \in Q
  <2>1. PICK x \in T : TRUE
    BY <1>3
  <2>2. T \X U = ((T \ {x}) \X U) \cup ({x} \X U)
    BY <2>1
  <2>3. IsFiniteSet((T \ {x}) \X U) /\ IsFiniteSet({x} \X U)
    BY <1>1, <1>3, <2>1
  <2>4. IsFiniteSet(T \X U)
    <3>1. IsFiniteSet(((T \ {x}) \X U) \cup ({x} \X U))
      BY <2>3, FS_Union
    <3> QED
      BY <2>2, <3>1, Zenon
  <2> QED
    BY <2>4
<1>4. S \in Q
  <2> HIDE DEF Q
  <2> QED
    BY <1>2, <1>3, SubsetInduction
<1> QED
  BY <1>4

\* The element a fold takes first, and the function the fold of the library is
\* defined by: the sum of f over every subset of S.
Pick(s) == CHOOSE x \in s : TRUE

Partial(f, S, g) ==
  g = [s \in SUBSET S |-> IF s = {} THEN 0 ELSE f[Pick(s)] + g[s \ {Pick(s)}]]

PartialSums(f, S) == CHOOSE g : Partial(f, S, g)

\* The sum of the community modules is that function at S.
LEMMA SumIsPartial ==
  ASSUME NEW f, NEW S
  PROVE  SumFunctionOnSet(f, S) = PartialSums(f, S)[S]
BY DEF SumFunctionOnSet, FoldFunctionOnSet, MapThenFoldSet, PartialSums, Partial, Pick

\* Pick is an element, and the function unfolds at a set that is not empty.
LEMMA PickIn ==
  ASSUME NEW s, s # {}
  PROVE  Pick(s) \in s
BY DEF Pick

LEMMA PartialAt ==
  ASSUME NEW f, NEW S, NEW g, Partial(f, S, g), NEW s \in SUBSET S, s # {}
  PROVE  g[s] = f[Pick(s)] + g[s \ {Pick(s)}]
BY DEF Partial

\* Two such functions agree on a set both are defined for.
LEMMA PartialUnique ==
  ASSUME NEW f, NEW S, IsFiniteSet(S), NEW U, S \subseteq U,
         NEW g, Partial(f, S, g), NEW h, Partial(f, U, h)
  PROVE  g[S] = h[S]
<1> DEFINE Q == {T \in SUBSET S : g[T] = h[T]}
<1>1. {} \in Q
  BY DEF Partial
<1>2. ASSUME NEW T \in SUBSET S, T # {}, \A x \in T : T \ {x} \in Q
      PROVE  T \in Q
  <2>1. /\ g[T] = f[Pick(T)] + g[T \ {Pick(T)}]
        /\ h[T] = f[Pick(T)] + h[T \ {Pick(T)}]
    BY <1>2 DEF Partial
  <2>2. Pick(T) \in T
    BY <1>2, PickIn
  <2> QED
    BY <2>1, <2>2, <1>2
<1>3. S \in Q
  <2> HIDE DEF Q
  <2> QED
    BY <1>1, <1>2, SubsetInduction
<1> QED
  BY <1>3

\* There is such a function for every finite set, so CHOOSE finds one.
LEMMA PartialExists ==
  ASSUME NEW f, NEW S, IsFiniteSet(S)
  PROVE  Partial(f, S, PartialSums(f, S))
<1> DEFINE Has(T) == \E g : Partial(f, T, g)
           Q == {T \in SUBSET S : \A U \in SUBSET T : Has(U)}
<1>1. {} \in Q
  <2>1. Partial(f, {}, [s \in SUBSET {} |-> 0])
    BY DEF Partial
  <2> QED
    BY <2>1
<1>2. ASSUME NEW T \in SUBSET S, T # {}, \A x \in T : T \ {x} \in Q
      PROVE  T \in Q
  <2> DEFINE Below(s) == PartialSums(f, s)[s]
             G == [s \in SUBSET T |->
                     IF s = {} THEN 0 ELSE f[Pick(s)] + Below(s \ {Pick(s)})]
  <2>1. ASSUME NEW U \in SUBSET T, U # T PROVE Has(U)
    <3>1. PICK x \in T : x \notin U
      BY <2>1
    <3> QED
      BY <1>2, <3>1
  <2>2. ASSUME NEW U \in SUBSET T, U # T
        PROVE  Partial(f, U, PartialSums(f, U)) /\ IsFiniteSet(U)
    BY <2>1, <2>2, FS_Subset DEF PartialSums
  <2>3. ASSUME NEW s \in SUBSET T, s # {}
        PROVE  G[s \ {Pick(s)}] = Below(s \ {Pick(s)})
    <3> DEFINE u == s \ {Pick(s)}
               v == u \ {Pick(u)}
    <3>1. Pick(s) \in s /\ u \in SUBSET T /\ u # T
      BY <2>3, PickIn
    <3>2. CASE u = {}
      BY <3>1, <3>2, <2>2 DEF Partial
    <3>3. CASE u # {}
      <4>1. Pick(u) \in u /\ v \in SUBSET T /\ v # T
        BY <3>1, <3>3, PickIn
      <4>2. PartialSums(f, v)[v] = PartialSums(f, u)[v]
        <5> HIDE DEF u, v
        <5>1. v \subseteq u
          BY DEF v
        <5> QED
          BY <4>1, <3>1, <2>2, <5>1, PartialUnique
      <4>3. PartialSums(f, u)[u] = f[Pick(u)] + PartialSums(f, u)[v]
        <5>1. Partial(f, u, PartialSums(f, u)) /\ u # {} /\ u \in SUBSET u
          BY <3>1, <3>3, <2>2
        <5> HIDE DEF u
        <5> QED
          BY <5>1, PartialAt
      <4>4. G[u] = f[Pick(u)] + Below(v)
        BY <3>1, <3>3
      <4> QED
        BY <4>2, <4>3, <4>4
    <3> QED
      BY <3>2, <3>3
  <2>4. Partial(f, T, G)
    BY <2>3 DEF Partial
  <2>5. Has(T)
    BY <2>4
  <2> QED
    BY <2>1, <2>5
<1>3. S \in Q
  <2> HIDE DEF Q
  <2> QED
    BY <1>1, <1>2, SubsetInduction
<1>4. Has(S)
  BY <1>3
<1> QED
  BY <1>4 DEF PartialSums

\* A sum over nothing is zero.
LEMMA SumEmpty ==
  ASSUME NEW f
  PROVE  SumFunctionOnSet(f, {}) = 0
<1>1. Partial(f, {}, PartialSums(f, {}))
  BY PartialExists, FS_EmptySet
<1> QED
  BY <1>1, SumIsPartial DEF Partial

\* A sum is its first element and the sum of the rest.
LEMMA SumPick ==
  ASSUME NEW f, NEW S, IsFiniteSet(S), S # {}
  PROVE  SumFunctionOnSet(f, S) = f[Pick(S)] + SumFunctionOnSet(f, S \ {Pick(S)})
<1> DEFINE R == S \ {Pick(S)}
<1>1. Partial(f, S, PartialSums(f, S)) /\ Partial(f, R, PartialSums(f, R)) /\ IsFiniteSet(R)
  BY PartialExists, FS_Subset
<1>2. PartialSums(f, S)[S] = f[Pick(S)] + PartialSums(f, S)[R]
  BY <1>1 DEF Partial
<1>3. PartialSums(f, R)[R] = PartialSums(f, S)[R]
  <2>1. R \subseteq S
    OBVIOUS
  <2> HIDE DEF R
  <2> QED
    BY <1>1, <2>1, PartialUnique
<1> QED
  BY <1>2, <1>3, SumIsPartial

\* A sum of integers is an integer.
LEMMA SumInt ==
  ASSUME NEW f, NEW S, IsFiniteSet(S), \A x \in S : f[x] \in Int
  PROVE  SumFunctionOnSet(f, S) \in Int
<1> DEFINE Q == {T \in SUBSET S : SumFunctionOnSet(f, T) \in Int}
<1>1. {} \in Q
  BY SumEmpty
<1>2. ASSUME NEW T \in SUBSET S, T # {}, \A x \in T : T \ {x} \in Q
      PROVE  T \in Q
  <2>1. Pick(T) \in T /\ IsFiniteSet(T)
    BY <1>2, PickIn, FS_Subset
  <2>2. f[Pick(T)] \in Int /\ SumFunctionOnSet(f, T \ {Pick(T)}) \in Int
    BY <2>1, <1>2
  <2>3. SumFunctionOnSet(f, T) = f[Pick(T)] + SumFunctionOnSet(f, T \ {Pick(T)})
    BY <2>1, <1>2, SumPick
  <2> QED
    BY <2>2, <2>3
<1>3. S \in Q
  <2> HIDE DEF Q
  <2> QED
    BY <1>1, <1>2, SubsetInduction
<1> QED
  BY <1>3

\* A sum is any one of its elements and the sum of the rest.
LEMMA SumSplit ==
  ASSUME NEW f, NEW S, IsFiniteSet(S), \A x \in S : f[x] \in Int, NEW x \in S
  PROVE  SumFunctionOnSet(f, S) = f[x] + SumFunctionOnSet(f, S \ {x})
<1> DEFINE Sum(T) == SumFunctionOnSet(f, T)
           Q == {T \in SUBSET S : \A y \in T : Sum(T) = f[y] + Sum(T \ {y})}
<1>0. ASSUME NEW T \in SUBSET S PROVE Sum(T) \in Int /\ IsFiniteSet(T)
  BY SumInt, FS_Subset
<1>1. {} \in Q
  OBVIOUS
<1>2. ASSUME NEW T \in SUBSET S, T # {}, \A y \in T : T \ {y} \in Q
      PROVE  T \in Q
  <2> DEFINE c == Pick(T)
  <2>1. c \in T /\ Sum(T) = f[c] + Sum(T \ {c})
    BY <1>2, <1>0, PickIn, SumPick
  <2> HIDE DEF c
  <2>2. ASSUME NEW y \in T, y # c PROVE Sum(T) = f[y] + Sum(T \ {y})
    <3>1. Sum(T \ {c}) = f[y] + Sum((T \ {c}) \ {y})
      BY <1>2, <2>1, <2>2
    <3>2. Sum(T \ {y}) = f[c] + Sum((T \ {y}) \ {c})
      BY <1>2, <2>1, <2>2
    <3>3. (T \ {y}) \ {c} = (T \ {c}) \ {y}
      OBVIOUS
    <3> DEFINE rest == Sum((T \ {c}) \ {y})
    <3>4. f[y] \in Int /\ f[c] \in Int /\ rest \in Int
      BY <1>0, <2>1
    <3>5. Sum(T) = f[c] + (f[y] + rest)
      BY <2>1, <3>1
    <3>6. Sum(T \ {y}) = f[c] + rest
      BY <3>2, <3>3
    <3>7. f[c] + (f[y] + rest) = f[y] + (f[c] + rest)
      <4> HIDE DEF rest
      <4> QED
        BY <3>4
    <3> QED
      BY <3>5, <3>6, <3>7
  <2> QED
    BY <2>1, <2>2
<1>3. S \in Q
  <2> HIDE DEF Q
  <2> QED
    BY <1>1, <1>2, SubsetInduction
<1> QED
  BY <1>3
-----------------------------------------------------------------------------
\* A sum depends on the values of the function on the set alone.
LEMMA SumSame ==
  ASSUME NEW f, NEW g, NEW S, IsFiniteSet(S), \A x \in S : f[x] = g[x]
  PROVE  SumFunctionOnSet(f, S) = SumFunctionOnSet(g, S)
<1> DEFINE Q == {T \in SUBSET S : SumFunctionOnSet(f, T) = SumFunctionOnSet(g, T)}
<1>1. {} \in Q
  BY SumEmpty
<1>2. ASSUME NEW T \in SUBSET S, T # {}, \A x \in T : T \ {x} \in Q
      PROVE  T \in Q
  <2>1. Pick(T) \in T /\ IsFiniteSet(T)
    BY <1>2, PickIn, FS_Subset
  <2>2. SumFunctionOnSet(f, T \ {Pick(T)}) = SumFunctionOnSet(g, T \ {Pick(T)})
    BY <1>2, <2>1
  <2>3. f[Pick(T)] = g[Pick(T)]
    BY <2>1
  <2>4. SumFunctionOnSet(f, T) = SumFunctionOnSet(g, T)
    BY <1>2, <2>1, <2>2, <2>3, SumPick
  <2> QED
    BY <2>4
<1>3. S \in Q
  <2> HIDE DEF Q
  <2> QED
    BY <1>1, <1>2, SubsetInduction
<1> QED
  BY <1>3

\* A sum over one element is its value.
LEMMA SumOne ==
  ASSUME NEW f, NEW x, f[x] \in Int
  PROVE  SumFunctionOnSet(f, {x}) = f[x]
<1>1. IsFiniteSet({x}) /\ {x} \ {x} = {}
  BY FS_Singleton
<1>2. SumFunctionOnSet(f, {x}) = f[x] + SumFunctionOnSet(f, {x} \ {x})
  BY <1>1, SumSplit
<1> QED
  BY <1>1, <1>2, SumEmpty

\* A new element adds its value.
LEMMA SumInsert ==
  ASSUME NEW f, NEW S, IsFiniteSet(S), NEW x, x \notin S,
         \A y \in S \cup {x} : f[y] \in Int
  PROVE  SumFunctionOnSet(f, S \cup {x}) = SumFunctionOnSet(f, S) + f[x]
<1>1. IsFiniteSet(S \cup {x}) /\ (S \cup {x}) \ {x} = S
  BY FS_AddElement
<1>2. SumFunctionOnSet(f, S \cup {x}) = f[x] + SumFunctionOnSet(f, S)
  BY <1>1, SumSplit
<1>3. f[x] \in Int /\ SumFunctionOnSet(f, S) \in Int
  BY SumInt
<1> QED
  BY <1>2, <1>3

\* A sum of which one value changes, changes by the difference.
LEMMA SumUpdate ==
  ASSUME NEW f, NEW g, NEW S, IsFiniteSet(S), NEW x \in S,
         \A y \in S : f[y] \in Int /\ g[y] \in Int,
         \A y \in S \ {x} : f[y] = g[y]
  PROVE  SumFunctionOnSet(g, S) = SumFunctionOnSet(f, S) - f[x] + g[x]
<1> DEFINE R == S \ {x}
<1>1. IsFiniteSet(R)
  BY FS_Subset
<1>2. /\ SumFunctionOnSet(f, S) = f[x] + SumFunctionOnSet(f, R)
      /\ SumFunctionOnSet(g, S) = g[x] + SumFunctionOnSet(g, R)
  BY SumSplit
<1>3. SumFunctionOnSet(f, R) = SumFunctionOnSet(g, R)
  BY <1>1, SumSame
<1>4. f[x] \in Int /\ g[x] \in Int /\ SumFunctionOnSet(f, R) \in Int
  BY <1>1, SumInt
<1> HIDE DEF R
<1> QED
  BY <1>2, <1>3, <1>4

\* The sum over two disjoint sets is the sum of the two.
LEMMA SumDisjoint ==
  ASSUME NEW f, NEW S, IsFiniteSet(S), NEW U, IsFiniteSet(U), S \cap U = {},
         \A x \in S \cup U : f[x] \in Int
  PROVE  SumFunctionOnSet(f, S \cup U) = SumFunctionOnSet(f, S) + SumFunctionOnSet(f, U)
<1> DEFINE Sum(T) == SumFunctionOnSet(f, T)
           Q == {T \in SUBSET S : Sum(T \cup U) = Sum(T) + Sum(U)}
<1>0. ASSUME NEW T \in SUBSET S
      PROVE  /\ IsFiniteSet(T) /\ IsFiniteSet(T \cup U)
             /\ Sum(T) \in Int /\ Sum(U) \in Int /\ Sum(T \cup U) \in Int
  <2>1. IsFiniteSet(T) /\ IsFiniteSet(T \cup U)
    BY FS_Subset, FS_Union
  <2> QED
    BY <2>1, SumInt
<1>1. {} \in Q
  <2>1. {} \cup U = U /\ Sum({}) = 0 /\ Sum(U) \in Int
    BY <1>0, SumEmpty
  <2>2. Sum({} \cup U) = Sum({}) + Sum(U)
    <3>1. Sum({} \cup U) = Sum(U)
      BY <2>1
    <3> HIDE DEF Sum
    <3> QED
      BY <2>1, <3>1
  <2> QED
    BY <2>2
<1>2. ASSUME NEW T \in SUBSET S, T # {}, \A x \in T : T \ {x} \in Q
      PROVE  T \in Q
  <2>1. PICK x \in T : TRUE
    BY <1>2
  <2>2. (T \cup U) \ {x} = (T \ {x}) \cup U
    BY <2>1
  <2>3. /\ Sum(T) = f[x] + Sum(T \ {x})
        /\ Sum(T \cup U) = f[x] + Sum((T \ {x}) \cup U)
    BY <1>0, <2>1, <2>2, SumSplit
  <2>4. Sum((T \ {x}) \cup U) = Sum(T \ {x}) + Sum(U)
    BY <1>2, <2>1
  <2>5. f[x] \in Int /\ Sum(T \ {x}) \in Int /\ Sum(U) \in Int
    BY <1>0, <2>1
  <2>6. Sum(T \cup U) = Sum(T) + Sum(U)
    <3> HIDE DEF Sum
    <3> QED
      BY <2>3, <2>4, <2>5
  <2> QED
    BY <2>6
<1>3. S \in Q
  <2> HIDE DEF Q
  <2> QED
    BY <1>1, <1>2, SubsetInduction
<1> QED
  BY <1>3

\* An inequality between multiples of the values holds between the same
\* multiples of the sums.
LEMMA SumScaled ==
  ASSUME NEW f, NEW g, NEW S, IsFiniteSet(S), NEW a \in Int, NEW b \in Int,
         \A x \in S : f[x] \in Int /\ g[x] \in Int /\ a * f[x] <= b * g[x]
  PROVE  a * SumFunctionOnSet(f, S) <= b * SumFunctionOnSet(g, S)
<1> DEFINE F(T) == SumFunctionOnSet(f, T)
           G(T) == SumFunctionOnSet(g, T)
           Q == {T \in SUBSET S : a * F(T) <= b * G(T)}
<1>0. ASSUME NEW T \in SUBSET S PROVE IsFiniteSet(T) /\ F(T) \in Int /\ G(T) \in Int
  BY FS_Subset, SumInt
<1>1. {} \in Q
  BY SumEmpty
<1>2. ASSUME NEW T \in SUBSET S, T # {}, \A x \in T : T \ {x} \in Q
      PROVE  T \in Q
  <2>1. PICK x \in T : TRUE
    BY <1>2
  <2>2. F(T) = f[x] + F(T \ {x}) /\ G(T) = g[x] + G(T \ {x})
    BY <1>0, <2>1, SumSplit
  <2>3. a * F(T \ {x}) <= b * G(T \ {x}) /\ a * f[x] <= b * g[x]
    BY <1>2, <2>1
  <2>4. /\ f[x] \in Int /\ g[x] \in Int
        /\ F(T \ {x}) \in Int /\ G(T \ {x}) \in Int
    BY <1>0, <2>1
  <2>5. a * F(T) <= b * G(T)
    <3> HIDE DEF F, G
    <3>1. ASSUME NEW u \in Int, NEW v \in Int, NEW w \in Int, NEW z \in Int,
                 a * u <= b * v, a * w <= b * z
          PROVE  a * (u + w) <= b * (v + z)
      <4>1. a * (u + w) = a * u + a * w /\ b * (v + z) = b * v + b * z
        OBVIOUS
      <4>2. a * u \in Int /\ a * w \in Int /\ b * v \in Int /\ b * z \in Int
        OBVIOUS
      <4> QED
        BY <3>1, <4>1, <4>2
    <3> QED
      BY <2>2, <2>3, <2>4, <3>1
  <2> QED
    BY <2>5
<1>3. S \in Q
  <2> HIDE DEF Q
  <2> QED
    BY <1>1, <1>2, SubsetInduction
<1> QED
  BY <1>3

\* Smaller values have a smaller sum.
LEMMA SumAtMost ==
  ASSUME NEW f, NEW g, NEW S, IsFiniteSet(S),
         \A x \in S : f[x] \in Int /\ g[x] \in Int /\ f[x] <= g[x]
  PROVE  SumFunctionOnSet(f, S) <= SumFunctionOnSet(g, S)
<1>1. \A x \in S : 1 * f[x] <= 1 * g[x]
  OBVIOUS
<1>2. 1 * SumFunctionOnSet(f, S) <= 1 * SumFunctionOnSet(g, S)
  BY <1>1, SumScaled
<1>3. SumFunctionOnSet(f, S) \in Int /\ SumFunctionOnSet(g, S) \in Int
  BY SumInt
<1> QED
  BY <1>2, <1>3

\* A sum of zeros is zero.
LEMMA SumZero ==
  ASSUME NEW f, NEW S, IsFiniteSet(S), \A x \in S : f[x] = 0
  PROVE  SumFunctionOnSet(f, S) = 0
<1> DEFINE g == [x \in S |-> 1]
<1>1. \A x \in S : f[x] \in Int /\ g[x] \in Int /\ 1 * f[x] <= 0 * g[x] /\ 0 * g[x] <= 1 * f[x]
  OBVIOUS
<1>2. SumFunctionOnSet(f, S) \in Int /\ SumFunctionOnSet(g, S) \in Int
  BY <1>1, SumInt
<1>3. 1 * SumFunctionOnSet(f, S) <= 0 * SumFunctionOnSet(g, S)
  BY <1>1, SumScaled
<1>4. 0 * SumFunctionOnSet(g, S) <= 1 * SumFunctionOnSet(f, S)
  BY <1>1, SumScaled
<1> HIDE DEF g
<1> QED
  BY <1>2, <1>3, <1>4

\* A sum of naturals is a natural.
LEMMA SumNat ==
  ASSUME NEW f, NEW S, IsFiniteSet(S), \A x \in S : f[x] \in Nat
  PROVE  SumFunctionOnSet(f, S) \in Nat
<1> DEFINE g == [x \in S |-> 0]
<1>1. SumFunctionOnSet(g, S) = 0
  BY SumZero
<1>2. \A x \in S : g[x] \in Int /\ f[x] \in Int /\ g[x] <= f[x]
  OBVIOUS
<1>3. SumFunctionOnSet(g, S) <= SumFunctionOnSet(f, S)
  BY <1>2, SumAtMost
<1>4. SumFunctionOnSet(f, S) \in Int
  BY SumInt
<1> QED
  BY <1>1, <1>3, <1>4

\* The sum of the sums of two functions.
LEMMA SumPlus ==
  ASSUME NEW f, NEW g, NEW h, NEW S, IsFiniteSet(S),
         \A x \in S : f[x] \in Int /\ g[x] \in Int /\ h[x] = f[x] + g[x]
  PROVE  SumFunctionOnSet(h, S) = SumFunctionOnSet(f, S) + SumFunctionOnSet(g, S)
<1> DEFINE F(T) == SumFunctionOnSet(f, T)
           G(T) == SumFunctionOnSet(g, T)
           H(T) == SumFunctionOnSet(h, T)
           Q == {T \in SUBSET S : H(T) = F(T) + G(T)}
<1>0. ASSUME NEW T \in SUBSET S PROVE IsFiniteSet(T) /\ F(T) \in Int /\ G(T) \in Int
  BY FS_Subset, SumInt
<1>1. {} \in Q
  BY SumEmpty
<1>2. ASSUME NEW T \in SUBSET S, T # {}, \A x \in T : T \ {x} \in Q
      PROVE  T \in Q
  <2>1. PICK x \in T : TRUE
    BY <1>2
  <2>2. F(T) = f[x] + F(T \ {x}) /\ G(T) = g[x] + G(T \ {x}) /\ H(T) = h[x] + H(T \ {x})
    <3>1. \A y \in T : f[y] \in Int /\ g[y] \in Int /\ h[y] \in Int
      OBVIOUS
    <3> QED
      BY <1>0, <2>1, <3>1, SumSplit
  <2>3. H(T \ {x}) = F(T \ {x}) + G(T \ {x}) /\ h[x] = f[x] + g[x]
    BY <1>2, <2>1
  <2>4. /\ f[x] \in Int /\ g[x] \in Int
        /\ F(T \ {x}) \in Int /\ G(T \ {x}) \in Int
    BY <1>0, <2>1
  <2>5. H(T) = F(T) + G(T)
    <3> HIDE DEF F, G, H
    <3> QED
      BY <2>2, <2>3, <2>4
  <2> QED
    BY <2>5
<1>3. S \in Q
  <2> HIDE DEF Q
  <2> QED
    BY <1>1, <1>2, SubsetInduction
<1> QED
  BY <1>3

\* Sums of the same values in another order are equal.
LEMMA SumMoved ==
  ASSUME NEW S, IsFiniteSet(S), NEW U, NEW h \in [S -> U],
         \A x, y \in S : h[x] = h[y] => x = y, \A u \in U : \E x \in S : h[x] = u,
         NEW f, NEW g, \A x \in S : f[x] \in Int /\ f[x] = g[h[x]]
  PROVE  SumFunctionOnSet(f, S) = SumFunctionOnSet(g, U)
<1> DEFINE To(T) == {h[x] : x \in T}
           Q == {T \in SUBSET S : /\ IsFiniteSet(To(T))
                                 /\ SumFunctionOnSet(f, T) = SumFunctionOnSet(g, To(T))}
<1>1. {} \in Q
  <2>1. To({}) = {}
    OBVIOUS
  <2>2. IsFiniteSet(To({})) /\ SumFunctionOnSet(f, {}) = SumFunctionOnSet(g, To({}))
    BY <2>1, SumEmpty, FS_EmptySet
  <2> QED
    BY <2>2
<1>2. ASSUME NEW T \in SUBSET S, T # {}, \A x \in T : T \ {x} \in Q
      PROVE  T \in Q
  <2>1. PICK x \in T : TRUE
    BY <1>2
  <2> DEFINE R == T \ {x}
  <2>2. /\ To(T) = To(R) \cup {h[x]} /\ h[x] \notin To(R)
        /\ T = R \cup {x} /\ x \notin R
    BY <2>1
  <2>3. /\ IsFiniteSet(R) /\ IsFiniteSet(To(R))
        /\ SumFunctionOnSet(f, R) = SumFunctionOnSet(g, To(R))
    BY <1>2, <2>1, FS_Subset
  <2>4. (\A y \in R \cup {x} : f[y] \in Int) /\ \A u \in To(R) \cup {h[x]} : g[u] \in Int
    BY <2>1
  <2>5. f[x] = g[h[x]]
    BY <2>1
  <2> HIDE DEF R, To
  <2>6. SumFunctionOnSet(f, R \cup {x}) = SumFunctionOnSet(f, R) + f[x]
    BY <2>2, <2>3, <2>4, SumInsert
  <2>7. SumFunctionOnSet(g, To(R) \cup {h[x]}) = SumFunctionOnSet(g, To(R)) + g[h[x]]
    BY <2>2, <2>3, <2>4, SumInsert
  <2>8. IsFiniteSet(To(R) \cup {h[x]})
    BY <2>3, FS_AddElement
  <2>9. IsFiniteSet(To(T)) /\ SumFunctionOnSet(f, T) = SumFunctionOnSet(g, To(T))
    BY <2>2, <2>3, <2>5, <2>6, <2>7, <2>8
  <2> QED
    BY <2>9
<1>3. S \in Q
  <2> HIDE DEF Q
  <2> QED
    BY <1>1, <1>2, SubsetInduction
<1>4. To(S) = U
  OBVIOUS
<1> QED
  BY <1>3, <1>4

\* Fewer naturals have a smaller sum.
LEMMA SumSubset ==
  ASSUME NEW f, NEW S, IsFiniteSet(S), NEW T \in SUBSET S, \A x \in S : f[x] \in Nat
  PROVE  SumFunctionOnSet(f, T) <= SumFunctionOnSet(f, S)
<1> DEFINE R == S \ T
<1>1. IsFiniteSet(T) /\ IsFiniteSet(R) /\ T \cap R = {} /\ T \cup R = S
  BY FS_Subset
<1>2. SumFunctionOnSet(f, T) \in Nat /\ SumFunctionOnSet(f, R) \in Nat
  BY <1>1, SumNat
<1>3. SumFunctionOnSet(f, T \cup R) = SumFunctionOnSet(f, T) + SumFunctionOnSet(f, R)
  BY <1>1, SumDisjoint
<1>4. SumFunctionOnSet(f, S) = SumFunctionOnSet(f, T) + SumFunctionOnSet(f, R)
  BY <1>1, <1>3
<1> HIDE DEF R
<1> QED
  BY <1>2, <1>4

\* No natural of a sum is more than the sum.
LEMMA SumElement ==
  ASSUME NEW f, NEW S, IsFiniteSet(S), NEW x \in S, \A y \in S : f[y] \in Nat
  PROVE  f[x] <= SumFunctionOnSet(f, S)
<1>1. SumFunctionOnSet(f, {x}) <= SumFunctionOnSet(f, S)
  BY SumSubset
<1> QED
  BY <1>1, SumOne

\* A quotient that is rounded down fits as often as the divisor says.
LEMMA QuotientFits ==
  ASSUME NEW a \in Nat, NEW b \in Nat, NEW t \in Nat \ {0}
  PROVE  /\ (a * b) \div t \in Nat
         /\ t * ((a * b) \div t) <= a * b
<1>1. a * b \in Nat
  OBVIOUS
<1>2. ASSUME NEW n \in Nat PROVE n \div t \in Nat /\ t * (n \div t) <= n
  OBVIOUS
<1> QED
  BY <1>1, <1>2

\* Shares of a whole that are proportional to parts of a total, each rounded
\* down, do not add up to more than the whole.
LEMMA SharesFit ==
  ASSUME NEW share, NEW part, NEW S, IsFiniteSet(S), NEW whole \in Nat,
         NEW total \in Nat \ {0}, SumFunctionOnSet(part, S) <= total,
         \A x \in S : /\ part[x] \in Nat /\ share[x] \in Nat
                      /\ total * share[x] <= whole * part[x]
  PROVE  SumFunctionOnSet(share, S) <= whole
<1>1. total * SumFunctionOnSet(share, S) <= whole * SumFunctionOnSet(part, S)
  <2>1. /\ total \in Int /\ whole \in Int
        /\ \A x \in S : share[x] \in Int /\ part[x] \in Int
                       /\ total * share[x] <= whole * part[x]
    OBVIOUS
  <2> QED
    BY ONLY <2>1, IsFiniteSet(S), SumScaled
<1>2. SumFunctionOnSet(share, S) \in Nat /\ SumFunctionOnSet(part, S) \in Nat
  BY SumNat
<1>3. ASSUME NEW s \in Nat, NEW p \in Nat, p <= total, total * s <= whole * p
      PROVE  s <= whole
  <2>1. whole * p <= whole * total
    <3>1. whole * total = whole * p + whole * (total - p) /\ whole * (total - p) \in Nat
      BY <1>3
    <3> QED
      BY <3>1
  <2>2. total * s <= total * whole
    <3>1. whole * total = total * whole
      OBVIOUS
    <3> QED
      BY <1>3, <2>1, <3>1
  <2>3. ASSUME s >= whole + 1 PROVE FALSE
    <3>1. total * s = total * whole + total * (s - whole) /\ total * (s - whole) \in Nat
      BY <2>3
    <3>2. total * (s - whole) >= 1
      BY <2>3
    <3> QED
      BY <2>2, <3>1, <3>2
  <2> QED
    BY <2>3
<1> QED
  BY <1>1, <1>2, <1>3
=============================================================================
