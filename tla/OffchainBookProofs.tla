------------------------- MODULE OffchainBookProofs -------------------------
(***************************************************************************)
(* Lemmas about the ledger and the order book of the legacy engine, for    *)
(* any wallets, orders, prices and amounts: what each operation of module  *)
(* OffchainLedger and OffchainBook does to the money, and that matching    *)
(* leaves nothing to match.  Module OffchainProofs proves the properties   *)
(* of the engine from them.                                                *)
(*                                                                         *)
(* The code walks its orders, levels and duels in loops, which the modules *)
(* write as folds.  A fold over a list stays in a set as long as each step *)
(* does (FoldExists and what follows it), so a loop keeps whatever one     *)
(* pass of it keeps: each lemma about a loop names the set of the states   *)
(* the loop may reach.                                                     *)
(*                                                                         *)
(* The money of the books is a sum over the wallets plus the treasury,     *)
(* less what was minted (Holdings), that of the orders a sum over their    *)
(* locks (OrdersHold). Each operation changes them by a stated amount. A   *)
(* trade may charge a buyer up to a unit more than its lock: OrdersSlack   *)
(* counts the closed buys, each of which may have done so once.            *)
(***************************************************************************)
EXTENDS OffchainMarket, SumProofs, SequenceTheorems

-----------------------------------------------------------------------------
(* Folds                                                                     *)

\* Induction over the naturals for a set Q, as SubsetInduction is for subsets.
LEMMA NatSetInduction ==
  ASSUME NEW Q, 0 \in Q, \A n \in Nat : n \in Q => n + 1 \in Q
  PROVE  Nat \subseteq Q
<1> DEFINE Bad == Nat \ Q
<1> SUFFICES ASSUME Bad # {} PROVE FALSE
  OBVIOUS
<1>1. PICK n \in Bad : \A k \in Bad : <<k, n>> \notin OpToRel(<, Nat)
  <2>1. Bad \subseteq Nat
    OBVIOUS
  <2> HIDE DEF Bad
  <2> QED
    BY <2>1, WFMin, NatLessThanWellFounded
<1>2. n # 0 /\ n \in Nat
  OBVIOUS
<1>3. n - 1 \in Nat /\ <<n - 1, n>> \in OpToRel(<, Nat)
  BY <1>2 DEF OpToRel
<1>4. n - 1 \in Q
  BY <1>1, <1>3
<1>5. (n - 1) + 1 \in Q
  BY <1>3, <1>4
<1> QED
  BY <1>2, <1>5

\* A fold takes the last element of what it has, until nothing is left.
IsFold(S, base, step, last, g) ==
  /\ g[{}] = base
  /\ \A s \in SUBSET S : s # {} => g[s] = step[<<g[s \ {last[s]}], last[s]>>]

\* There is such a fold for every finite set and every step that stays in A.
LEMMA FoldExists ==
  ASSUME NEW S, IsFiniteSet(S), NEW A, NEW base \in A, NEW step \in [A \X S -> A],
         NEW last, \A s \in SUBSET S : s # {} => last[s] \in s
  PROVE  \E g \in [SUBSET S -> A] : IsFold(S, base, step, last, g)
<1> DEFINE Small(n) == {s \in SUBSET S : Cardinality(s) <= n}
           Fits(n, g) == /\ g \in [Small(n) -> A]
                         /\ g[{}] = base
                         /\ \A s \in Small(n) :
                              s # {} => g[s] = step[<<g[s \ {last[s]}], last[s]>>]
           Q == {n \in Nat : \E g : Fits(n, g)}
<1>1. ASSUME NEW s \in SUBSET S
      PROVE  IsFiniteSet(s) /\ Cardinality(s) \in Nat
  BY FS_Subset, FS_CardinalityType
<1>a. ASSUME NEW s \in SUBSET S, Cardinality(s) <= 0 PROVE s = {}
  <2>1. Cardinality(s) = 0
    BY <1>1, <1>a
  <2> QED
    BY <1>1, <2>1, FS_EmptySet
<1>b. ASSUME NEW n \in Nat, NEW s \in Small(n + 1), s # {}
      PROVE  s \ {last[s]} \in Small(n) /\ last[s] \in S
  <2>1. last[s] \in s /\ IsFiniteSet(s) /\ Cardinality(s) \in Nat /\ Cardinality(s) <= n + 1
    BY <1>1, <1>b
  <2>2. Cardinality(s \ {last[s]}) = Cardinality(s) - 1
    BY <2>1, FS_RemoveElement
  <2> QED
    BY <2>1, <2>2
<1>c. ASSUME NEW n \in Nat PROVE {} \in Small(n) /\ Small(n) \subseteq Small(n + 1)
  <2>1. Cardinality({}) = 0
    BY FS_EmptySet
  <2>2. ASSUME NEW s \in Small(n) PROVE s \in Small(n + 1)
    <3>1. Cardinality(s) \in Nat
      BY <1>1
    <3> QED
      BY <3>1
  <2> QED
    BY <2>1, <2>2
<1>2. 0 \in Q
  <2> DEFINE g == [s \in Small(0) |-> base]
  <2>1. {} \in Small(0) /\ \A s \in Small(0) : s = {}
    BY <1>a, <1>c
  <2>2. Fits(0, g)
    BY <2>1
  <2> QED
    BY <2>2
<1>3. ASSUME NEW n \in Nat, n \in Q PROVE n + 1 \in Q
  <2>1. PICK g : Fits(n, g)
    BY <1>3
  <2> DEFINE h == [s \in Small(n + 1) |->
                     IF s \in Small(n) THEN g[s] ELSE step[<<g[s \ {last[s]}], last[s]>>]]
  <2>2. Small(n) \subseteq Small(n + 1) /\ {} \in Small(n)
    BY <1>c
  <2>3. ASSUME NEW s \in Small(n + 1), s # {}
        PROVE  s \ {last[s]} \in Small(n) /\ last[s] \in S
    BY <1>b, <2>3
  <2>4. ASSUME NEW s \in Small(n + 1) PROVE h[s] \in A
    <3>1. CASE s \in Small(n)
      BY <3>1, <2>1
    <3>2. CASE s \notin Small(n)
      <4>1. s # {}
        BY <3>2, <2>2
      <4>2. g[s \ {last[s]}] \in A /\ last[s] \in S
        BY <4>1, <2>1, <2>3
      <4>3. h[s] = step[<<g[s \ {last[s]}], last[s]>>]
        BY <3>2
      <4> HIDE DEF h
      <4> QED
        BY <4>2, <4>3
    <3> QED
      BY <3>1, <3>2
  <2>5. h[{}] = base
    BY <2>1, <2>2
  <2>6. ASSUME NEW s \in Small(n + 1), s # {}
        PROVE  h[s] = step[<<h[s \ {last[s]}], last[s]>>]
    <3>1. h[s \ {last[s]}] = g[s \ {last[s]}]
      BY <2>2, <2>3, <2>6
    <3>2. h[s] = step[<<g[s \ {last[s]}], last[s]>>]
      BY <2>1, <2>6
    <3> QED
      BY <3>1, <3>2
  <2>7. h \in [Small(n + 1) -> A]
    BY <2>4
  <2>8. Fits(n + 1, h)
    <3> HIDE DEF h, Small
    <3> QED
      BY <2>5, <2>6, <2>7
  <2> HIDE DEF h, Fits
  <2> QED
    BY <2>8
<1>4. Nat \subseteq Q
  <2> HIDE DEF Q
  <2> QED
    BY <1>2, <1>3, NatSetInduction
<1>5. PICK g : Fits(Cardinality(S), g)
  <2>1. Cardinality(S) \in Nat
    BY FS_CardinalityType
  <2> QED
    BY <1>4, <2>1
<1>6. Small(Cardinality(S)) = SUBSET S
  <2>1. ASSUME NEW s \in SUBSET S PROVE Cardinality(s) <= Cardinality(S)
    BY FS_Subset
  <2> QED
    BY <2>1
<1> QED
  BY <1>5, <1>6 DEF IsFold

\* A finite set of integers that is not empty has a largest element.
LEMMA MaxIn ==
  ASSUME NEW S, IsFiniteSet(S), S \subseteq Int, S # {}
  PROVE  Max(S) \in S /\ \A k \in S : k <= Max(S)
<1> DEFINE Has(T) == \E n \in T : \A k \in T : n >= k
           Q == {T \in SUBSET S : T = {} \/ Has(T)}
<1>1. ASSUME NEW T \in SUBSET S, T # {}, \A x \in T : T \ {x} \in Q
      PROVE  Has(T)
  <2>1. PICK x \in T : TRUE
    BY <1>1
  <2>2. CASE T \ {x} = {}
    BY <2>1, <2>2
  <2>3. CASE Has(T \ {x})
    <3>1. PICK n \in T \ {x} : \A k \in T \ {x} : n >= k
      BY <2>3
    <3>2. CASE n >= x
      BY <3>1, <3>2
    <3>3. CASE x >= n
      BY <2>1, <3>1, <3>3
    <3> QED
      BY <2>1, <3>1, <3>2, <3>3
  <2> QED
    BY <1>1, <2>1, <2>2, <2>3
<1>2. S \in Q
  <2>1. {} \in Q
    OBVIOUS
  <2>2. ASSUME NEW T \in SUBSET S, T # {}, \A x \in T : T \ {x} \in Q PROVE T \in Q
    BY <1>1, <2>2
  <2> HIDE DEF Q
  <2> QED
    BY <2>1, <2>2, SubsetInduction
<1>3. PICK n \in S : \A k \in S : n >= k
  BY <1>2
<1> QED
  BY <1>3 DEF Max

\* What every step of a fold keeps, the fold keeps.
LEMMA FoldKeeps ==
  ASSUME NEW S, IsFiniteSet(S), NEW A, NEW last, NEW g, g[{}] \in A,
         \A s \in SUBSET S : s # {} => last[s] \in s,
         \A s \in SUBSET S : s # {} /\ g[s \ {last[s]}] \in A => g[s] \in A
  PROVE  g[S] \in A
<1> DEFINE Q == {s \in SUBSET S : g[s] \in A}
<1>1. {} \in Q
  OBVIOUS
<1>2. ASSUME NEW s \in SUBSET S, s # {}, \A k \in s : s \ {k} \in Q PROVE s \in Q
  BY <1>2
<1>3. S \in Q
  <2> HIDE DEF Q
  <2> QED
    BY <1>1, <1>2, SubsetInduction
<1> QED
  BY <1>3

\* A loop over 1..n is a fold that takes the largest index it has.
LEMMA LastIn ==
  ASSUME NEW n \in Nat, NEW s \in SUBSET (1..n), s # {}
  PROVE  Max(s) \in s /\ Max(s) \in 1..n
<1>1. IsFiniteSet(1..n) /\ 1..n \subseteq Int
  BY FS_Interval
<1>2. IsFiniteSet(s)
  BY <1>1, FS_Subset
<1> QED
  BY <1>1, <1>2, MaxIn

IsLoop(n, x, step, g) ==
  /\ g[{}] = x
  /\ \A s \in SUBSET (1..n) : s # {} => g[s] = step[<<g[s \ {Max(s)}], Max(s)>>]

LEMMA LoopExists ==
  ASSUME NEW n \in Nat, NEW A, NEW x \in A, NEW step \in [A \X (1..n) -> A]
  PROVE  \E g \in [SUBSET (1..n) -> A] : IsLoop(n, x, step, g)
<1> DEFINE S == 1..n
           last == [s \in SUBSET S |-> Max(s)]
<1>0. IsFiniteSet(S)
  BY FS_Interval
<1>1. ASSUME NEW s \in SUBSET S, s # {} PROVE last[s] \in s
  BY <1>1, LastIn
<1>a. step \in [A \X S -> A]
  OBVIOUS
<1>2. PICK g \in [SUBSET S -> A] : IsFold(S, x, step, last, g)
  <2> HIDE DEF last, S
  <2> QED
    BY <1>0, <1>1, <1>a, FoldExists
<1>3. \A s \in SUBSET (1..n) : s # {} => g[s] = step[<<g[s \ {last[s]}], last[s]>>]
  BY <1>2 DEF IsFold
<1>4. g[{}] = x
  BY <1>2 DEF IsFold
<1>5. IsLoop(n, x, step, g)
  BY <1>3, <1>4 DEF IsLoop
<1> QED
  BY <1>2, <1>5

LEMMA LoopKeeps ==
  ASSUME NEW n \in Nat, NEW A, NEW g, g[{}] \in A,
         \A s \in SUBSET (1..n) : s # {} /\ g[s \ {Max(s)}] \in A => g[s] \in A
  PROVE  g[1..n] \in A
<1> DEFINE S == 1..n
           last == [s \in SUBSET S |-> Max(s)]
<1>0. IsFiniteSet(S)
  BY FS_Interval
<1>1. ASSUME NEW s \in SUBSET S, s # {} PROVE last[s] \in s
  BY <1>1, LastIn
<1>2. \A s \in SUBSET S : s # {} /\ g[s \ {last[s]}] \in A => g[s] \in A
  OBVIOUS
<1> HIDE DEF last, S
<1>3. g[S] \in A
  BY <1>0, <1>1, <1>2, FoldKeeps
<1> QED
  BY <1>3 DEF S

\* What one try keeps, a pass over the orders keeps.
LEMMA FillPassIn ==
  ASSUME NEW A, NEW m, NEW x \in A, NEW n \in Nat, DOMAIN x.orders = 1..n,
         \A a \in A, i \in 1..n : TryFill(m, a, i) \in A
  PROVE  FillPass(m, x) \in A
<1> DEFINE ids == [i \in DOMAIN x.orders |-> i]
           Body(g) == [s \in SUBSET (DOMAIN ids) |->
                        IF s = {} THEN x
                        ELSE TryFill(m, g[s \ {Max(s)}], ids[Max(s)])]
           F == CHOOSE g : g = Body(g)
           step == [p \in A \X (1..n) |-> TryFill(m, p[1], p[2])]
<1>1. FillPass(m, x) = F[DOMAIN ids]
  BY DEF FillPass, FoldLeftDomain, FoldLeft, MapThenFoldSet
<1>2. DOMAIN ids = 1..n /\ \A s \in SUBSET (1..n) : s # {} => ids[Max(s)] = Max(s)
  BY LastIn
<1>3. PICK g \in [SUBSET (1..n) -> A] : IsLoop(n, x, step, g)
  <2>1. step \in [A \X (1..n) -> A]
    OBVIOUS
  <2> HIDE DEF step, ids
  <2> QED
    BY <2>1, LoopExists
<1>4. g = Body(g)
  <2>1. ASSUME NEW s \in SUBSET (1..n), s # {}
        PROVE  g[s] = TryFill(m, g[s \ {Max(s)}], ids[Max(s)])
    <3>1. g[s] = step[<<g[s \ {Max(s)}], Max(s)>>]
      BY <1>3, <2>1 DEF IsLoop
    <3>2. Max(s) \in 1..n /\ g[s \ {Max(s)}] \in A /\ ids[Max(s)] = Max(s)
      BY <1>2, <1>3, <2>1, LastIn
    <3> QED
      BY <3>1, <3>2
  <2> HIDE DEF ids
  <2> QED
    BY <1>2, <1>3, <2>1 DEF IsLoop
<1>5. F = Body(F)
  <2> HIDE DEF Body
  <2> QED
    BY <1>4
<1> HIDE DEF F, ids
<1>6. ASSUME NEW s \in SUBSET (1..n), s # {}, F[s \ {Max(s)}] \in A PROVE F[s] \in A
  <2>1. Max(s) \in 1..n /\ ids[Max(s)] = Max(s)
    BY <1>2, <1>6, LastIn
  <2>2. F[s] = TryFill(m, F[s \ {Max(s)}], ids[Max(s)])
    BY <1>2, <1>5, <1>6
  <2> QED
    BY <1>6, <2>1, <2>2
<1>7. F[{}] \in A
  BY <1>2, <1>5
<1>8. F[1..n] \in A
  BY <1>6, <1>7, LoopKeeps
<1> QED
  BY <1>1, <1>2, <1>8

\* What a pass keeps, the passes keep.
LEMMA FillPassesIn ==
  ASSUME NEW A, NEW m, NEW x \in A, NEW n \in Nat, DOMAIN x.orders = 1..n,
         \A a \in A, i \in 1..n : FillPass(m, a) \in A
  PROVE  FillPasses(m, x) \in A
<1> DEFINE ids == [i \in DOMAIN x.orders |-> i]
           Body(g) == [s \in SUBSET (DOMAIN ids) |->
                        IF s = {} THEN x
                        ELSE FillPass(m, g[s \ {Max(s)}])]
           F == CHOOSE g : g = Body(g)
           step == [p \in A \X (1..n) |-> FillPass(m, p[1])]
<1>1. FillPasses(m, x) = F[DOMAIN ids]
  BY DEF FillPasses, FoldLeftDomain, FoldLeft, MapThenFoldSet
<1>2. DOMAIN ids = 1..n /\ \A s \in SUBSET (1..n) : s # {} => ids[Max(s)] = Max(s)
  BY LastIn
<1>3. PICK g \in [SUBSET (1..n) -> A] : IsLoop(n, x, step, g)
  <2>1. step \in [A \X (1..n) -> A]
    OBVIOUS
  <2> HIDE DEF step, ids
  <2> QED
    BY <2>1, LoopExists
<1>4. g = Body(g)
  <2>1. ASSUME NEW s \in SUBSET (1..n), s # {}
        PROVE  g[s] = FillPass(m, g[s \ {Max(s)}])
    <3>1. g[s] = step[<<g[s \ {Max(s)}], Max(s)>>]
      BY <1>3, <2>1 DEF IsLoop
    <3>2. Max(s) \in 1..n /\ g[s \ {Max(s)}] \in A /\ ids[Max(s)] = Max(s)
      BY <1>2, <1>3, <2>1, LastIn
    <3> QED
      BY <3>1, <3>2
  <2> HIDE DEF ids
  <2> QED
    BY <1>2, <1>3, <2>1 DEF IsLoop
<1>5. F = Body(F)
  <2> HIDE DEF Body
  <2> QED
    BY <1>4
<1> HIDE DEF F, ids
<1>6. ASSUME NEW s \in SUBSET (1..n), s # {}, F[s \ {Max(s)}] \in A PROVE F[s] \in A
  <2>1. Max(s) \in 1..n /\ ids[Max(s)] = Max(s)
    BY <1>2, <1>6, LastIn
  <2>2. F[s] = FillPass(m, F[s \ {Max(s)}])
    BY <1>2, <1>5, <1>6
  <2> QED
    BY <1>6, <2>1, <2>2
<1>7. F[{}] \in A
  BY <1>2, <1>5
<1>8. F[1..n] \in A
  BY <1>6, <1>7, LoopKeeps
<1> QED
  BY <1>1, <1>2, <1>8

\* What one refund keeps, the refunds keep.
LEMMA RefundAllIn ==
  ASSUME NEW A, NEW m, NEW x \in A, NEW n \in Nat, DOMAIN x.duels = 1..n,
         \A a \in A, i \in 1..n : RefundUnmatched(m, a, i) \in A
  PROVE  RefundAll(m, x) \in A
<1> DEFINE ids == [i \in DOMAIN x.duels |-> i]
           Body(g) == [s \in SUBSET (DOMAIN ids) |->
                        IF s = {} THEN x
                        ELSE RefundUnmatched(m, g[s \ {Max(s)}], ids[Max(s)])]
           F == CHOOSE g : g = Body(g)
           step == [p \in A \X (1..n) |-> RefundUnmatched(m, p[1], p[2])]
<1>1. RefundAll(m, x) = F[DOMAIN ids]
  BY DEF RefundAll, FoldLeftDomain, FoldLeft, MapThenFoldSet
<1>2. DOMAIN ids = 1..n /\ \A s \in SUBSET (1..n) : s # {} => ids[Max(s)] = Max(s)
  BY LastIn
<1>3. PICK g \in [SUBSET (1..n) -> A] : IsLoop(n, x, step, g)
  <2>1. step \in [A \X (1..n) -> A]
    OBVIOUS
  <2> HIDE DEF step, ids
  <2> QED
    BY <2>1, LoopExists
<1>4. g = Body(g)
  <2>1. ASSUME NEW s \in SUBSET (1..n), s # {}
        PROVE  g[s] = RefundUnmatched(m, g[s \ {Max(s)}], ids[Max(s)])
    <3>1. g[s] = step[<<g[s \ {Max(s)}], Max(s)>>]
      BY <1>3, <2>1 DEF IsLoop
    <3>2. Max(s) \in 1..n /\ g[s \ {Max(s)}] \in A /\ ids[Max(s)] = Max(s)
      BY <1>2, <1>3, <2>1, LastIn
    <3> QED
      BY <3>1, <3>2
  <2> HIDE DEF ids
  <2> QED
    BY <1>2, <1>3, <2>1 DEF IsLoop
<1>5. F = Body(F)
  <2> HIDE DEF Body
  <2> QED
    BY <1>4
<1> HIDE DEF F, ids
<1>6. ASSUME NEW s \in SUBSET (1..n), s # {}, F[s \ {Max(s)}] \in A PROVE F[s] \in A
  <2>1. Max(s) \in 1..n /\ ids[Max(s)] = Max(s)
    BY <1>2, <1>6, LastIn
  <2>2. F[s] = RefundUnmatched(m, F[s \ {Max(s)}], ids[Max(s)])
    BY <1>2, <1>5, <1>6
  <2> QED
    BY <1>6, <2>1, <2>2
<1>7. F[{}] \in A
  BY <1>2, <1>5
<1>8. F[1..n] \in A
  BY <1>6, <1>7, LoopKeeps
<1> QED
  BY <1>1, <1>2, <1>8

\* What one settlement keeps, the settlements keep.
LEMMA SettleAllIn ==
  ASSUME NEW A, NEW m, NEW x \in A, NEW n \in Nat, DOMAIN x.duels = 1..n,
         \A a \in A, i \in 1..n : SettleMatched(m, a, i) \in A
  PROVE  SettleAll(m, x) \in A
<1> DEFINE ids == [i \in DOMAIN x.duels |-> i]
           Body(g) == [s \in SUBSET (DOMAIN ids) |->
                        IF s = {} THEN x
                        ELSE SettleMatched(m, g[s \ {Max(s)}], ids[Max(s)])]
           F == CHOOSE g : g = Body(g)
           step == [p \in A \X (1..n) |-> SettleMatched(m, p[1], p[2])]
<1>1. SettleAll(m, x) = F[DOMAIN ids]
  BY DEF SettleAll, FoldLeftDomain, FoldLeft, MapThenFoldSet
<1>2. DOMAIN ids = 1..n /\ \A s \in SUBSET (1..n) : s # {} => ids[Max(s)] = Max(s)
  BY LastIn
<1>3. PICK g \in [SUBSET (1..n) -> A] : IsLoop(n, x, step, g)
  <2>1. step \in [A \X (1..n) -> A]
    OBVIOUS
  <2> HIDE DEF step, ids
  <2> QED
    BY <2>1, LoopExists
<1>4. g = Body(g)
  <2>1. ASSUME NEW s \in SUBSET (1..n), s # {}
        PROVE  g[s] = SettleMatched(m, g[s \ {Max(s)}], ids[Max(s)])
    <3>1. g[s] = step[<<g[s \ {Max(s)}], Max(s)>>]
      BY <1>3, <2>1 DEF IsLoop
    <3>2. Max(s) \in 1..n /\ g[s \ {Max(s)}] \in A /\ ids[Max(s)] = Max(s)
      BY <1>2, <1>3, <2>1, LastIn
    <3> QED
      BY <3>1, <3>2
  <2> HIDE DEF ids
  <2> QED
    BY <1>2, <1>3, <2>1 DEF IsLoop
<1>5. F = Body(F)
  <2> HIDE DEF Body
  <2> QED
    BY <1>4
<1> HIDE DEF F, ids
<1>6. ASSUME NEW s \in SUBSET (1..n), s # {}, F[s \ {Max(s)}] \in A PROVE F[s] \in A
  <2>1. Max(s) \in 1..n /\ ids[Max(s)] = Max(s)
    BY <1>2, <1>6, LastIn
  <2>2. F[s] = SettleMatched(m, F[s \ {Max(s)}], ids[Max(s)])
    BY <1>2, <1>5, <1>6
  <2> QED
    BY <1>6, <2>1, <2>2
<1>7. F[{}] \in A
  BY <1>2, <1>5
<1>8. F[1..n] \in A
  BY <1>6, <1>7, LoopKeeps
<1> QED
  BY <1>1, <1>2, <1>8

-----------------------------------------------------------------------------
(* The two loops over the far side of the book                               *)

\* A set of orders that is not empty has a worst one.
LEMMA WorstIn ==
  ASSUME NEW os, NEW side, NEW S, IsFiniteSet(S), S \subseteq Nat, S # {},
         \A i \in S : os[i].price \in Nat
  PROVE  Worst(os, side, S) \in S
<1> DEFINE Has(T) == \E i \in T : \A j \in T \ {i} : Better(os, side, j, i)
           Q == {T \in SUBSET S : T = {} \/ Has(T)}
<1>1. ASSUME NEW T \in SUBSET S, T # {}, \A x \in T : T \ {x} \in Q
      PROVE  Has(T)
  <2>1. PICK x \in T : TRUE
    BY <1>1
  <2>2. CASE T \ {x} = {}
    BY <2>1, <2>2
  <2>3. CASE Has(T \ {x})
    <3>1. PICK w \in T \ {x} : \A j \in (T \ {x}) \ {w} : Better(os, side, j, w)
      BY <2>3
    <3>2. /\ x \in Nat /\ w \in Nat /\ x # w /\ os[x].price \in Nat /\ os[w].price \in Nat
          /\ \A j \in T : j \in Nat /\ os[j].price \in Nat
      BY <2>1, <3>1
    <3>3. CASE Better(os, side, x, w)
      BY <3>1, <3>3
    <3>4. CASE ~Better(os, side, x, w)
      <4>1. Better(os, side, w, x)
        BY <3>2, <3>4 DEF Better
      <4>2. ASSUME NEW j \in T \ {x} PROVE Better(os, side, j, x)
        <5>1. CASE j = w
          BY <4>1, <5>1
        <5>2. CASE j # w
          <6>1. Better(os, side, j, w)
            BY <3>1, <4>2, <5>2
          <6> QED
            BY <3>2, <4>1, <6>1 DEF Better
        <5> QED
          BY <5>1, <5>2
      <4> QED
        BY <2>1, <4>2
    <3> QED
      BY <3>3, <3>4
  <2> QED
    BY <1>1, <2>1, <2>2, <2>3
<1>2. S \in Q
  <2>1. {} \in Q
    OBVIOUS
  <2>2. ASSUME NEW T \in SUBSET S, T # {}, \A x \in T : T \ {x} \in Q PROVE T \in Q
    BY <1>1, <2>2
  <2> HIDE DEF Q
  <2> QED
    BY <2>1, <2>2, SubsetInduction
<1>3. Has(S)
  BY <1>2
<1> QED
  BY <1>3 DEF Worst

Unthrown(x) == [x EXCEPT !.threw = FALSE]

\* The makers of an order, and a set that no fill with them leaves.
LoopStays(x, i, S, base, A) ==
  /\ IsFiniteSet(S) /\ S \subseteq Nat
  /\ S = OppositeOrders(x.orders, x.orders[i].owner, x.orders[i].side, x.orders[i].price)
  /\ \A k \in S : x.orders[k].price \in Nat
  /\ base = Unthrown(x) /\ base \in A
  /\ \A a \in A, k \in S : FillNext(a, i, k) \in A

\* g is what the loop has made of the exchange after some of the makers.
LoopRuns(x, i, S, base, g) ==
  /\ g[{}] = base
  /\ \A s \in SUBSET S : s # {} => \E k \in s : g[s] = FillNext(g[s \ {k}], i, k)
  /\ matchLynxOrder(x, i) = g[S]

\* The matching loop fills its makers one after another, each of them once.
LEMMA MatchLoop ==
  ASSUME NEW x, NEW i, NEW S, NEW base, NEW A, LoopStays(x, i, S, base, A)
  PROVE  \E g \in [SUBSET S -> A] : LoopRuns(x, i, S, base, g)
<1>a. /\ IsFiniteSet(S) /\ S \subseteq Nat
      /\ S = OppositeOrders(x.orders, x.orders[i].owner, x.orders[i].side, x.orders[i].price)
      /\ \A k \in S : x.orders[k].price \in Nat
      /\ base = Unthrown(x) /\ base \in A
  BY DEF LoopStays
<1>b. \A a \in A, k \in S : FillNext(a, i, k) \in A
  BY DEF LoopStays
<1> DEFINE side == x.orders[i].side
           W(s) == Worst(x.orders, side, s)
           Body(g) == [s \in SUBSET S |-> IF s = {} THEN base
                                        ELSE FillNext(g[s \ {W(s)}], i, W(s))]
           F == CHOOSE g : g = Body(g)
           step == [p \in A \X S |-> FillNext(p[1], i, p[2])]
           last == [s \in SUBSET S |-> W(s)]
<1>1. matchLynxOrder(x, i) = F[S]
  BY <1>a DEF matchLynxOrder, Unthrown, FoldBestFirst, MapThenFoldSet
<1>2. ASSUME NEW s \in SUBSET S, s # {} PROVE W(s) \in s /\ last[s] = W(s)
  <2>1. IsFiniteSet(s)
    BY <1>a, FS_Subset
  <2> QED
    BY <1>a, <1>2, <2>1, WorstIn
<1>3. PICK g \in [SUBSET S -> A] : IsFold(S, base, step, last, g)
  <2>1. step \in [A \X S -> A] /\ base \in A
    BY <1>a, <1>b
  <2>2. ASSUME NEW s \in SUBSET S, s # {} PROVE last[s] \in s
    BY <1>2, <2>2
  <2> HIDE DEF step, last
  <2> QED
    BY <1>a, <2>1, <2>2, FoldExists
<1> HIDE DEF W
<1>4. ASSUME NEW s \in SUBSET S, s # {}
      PROVE  g[s] = FillNext(g[s \ {W(s)}], i, W(s)) /\ g[s] \in A
  <2>1. g[s] = step[<<g[s \ {last[s]}], last[s]>>]
    BY <1>3, <1>4 DEF IsFold
  <2>2. W(s) \in S /\ g[s \ {W(s)}] \in A /\ last[s] = W(s)
    BY <1>2, <1>3, <1>4
  <2> QED
    BY <1>b, <1>3, <2>1, <2>2
<1>5. g = Body(g)
  BY <1>3, <1>4 DEF IsFold
<1>6. F = Body(F)
  <2> HIDE DEF Body
  <2> QED
    BY <1>5
<1> HIDE DEF F
<1>7. ASSUME NEW s \in SUBSET S, s # {} PROVE F[s] = FillNext(F[s \ {W(s)}], i, W(s))
  BY <1>6, <1>7
<1>8. ASSUME NEW s \in SUBSET S PROVE F[s] \in A
  <2> DEFINE Q == {t \in SUBSET s : F[t] \in A}
  <2>1. {} \in Q
    BY <1>a, <1>6
  <2>2. ASSUME NEW t \in SUBSET s, t # {}, \A k \in t : t \ {k} \in Q PROVE t \in Q
    <3>1. W(t) \in t /\ t \in SUBSET S
      BY <1>2, <2>2
    <3>2. F[t] = FillNext(F[t \ {W(t)}], i, W(t))
      BY <1>7, <2>2, <3>1
    <3>3. F[t \ {W(t)}] \in A
      BY <2>2, <3>1
    <3>4. W(t) \in S
      BY <3>1
    <3>5. F[t] \in A
      BY <1>b, <3>2, <3>3, <3>4
    <3> QED
      BY <2>2, <3>5
  <2>3. s \in Q
    <3>1. IsFiniteSet(s)
      BY <1>a, FS_Subset
    <3> HIDE DEF Q
    <3> QED
      BY <2>1, <2>2, <3>1, SubsetInduction
  <2> QED
    BY <2>3
<1>9. F \in [SUBSET S -> A]
  BY <1>6, <1>8
<1>10. F[{}] = base
  BY <1>6
<1>11. ASSUME NEW s \in SUBSET S, s # {} PROVE \E k \in s : F[s] = FillNext(F[s \ {k}], i, k)
  BY <1>2, <1>7, <1>11
<1> QED
  BY <1>1, <1>9, <1>10, <1>11 DEF LoopRuns

-----------------------------------------------------------------------------
(* What the store is made of                                                 *)

Wallet == [balance : [Currency -> Int], staked : Nat, rewards : [Currency -> Int]]
Treasury == [SOL : Int, LYNX : Int, lynxForInitialSale : Int,
             lynxBurned : Int, lynxTotalMinted : Int, protocolDuelSol : Int]
BooksSet == [wallets : [Wallets -> Wallet], treasury : Treasury]

\* What the wallets and the treasury of some books have to show for what was
\* brought in: what HeldInWallets and treasury count, less what was minted.
WalletHolds(b, w, c) ==
  b.wallets[w].balance[c] + b.wallets[w].rewards[c] + IF c = "LYNX" THEN b.wallets[w].staked ELSE 0
Holdings(b, c) ==
  SumFunctionOnSet([w \in Wallets |-> WalletHolds(b, w, c)], Wallets)
  + b.treasury[c] - IF c = "LYNX" THEN getCirculatingSupply(b) ELSE 0

LEMMA WalletsFinite == IsFiniteSet(Wallets) /\ DOMAIN WalletSeq \subseteq Nat /\ IsFiniteSet(DOMAIN WalletSeq)
<1>1. WalletSeq \in Seq(Wallets)
  BY LedgerAssumption DEF Wallets
<1>2. PICK n \in Nat : DOMAIN WalletSeq = 1..n
  BY <1>1, SeqDef
<1>3. IsFiniteSet(1..n)
  BY FS_Interval
<1>4. WalletSeq \in Surjection(1..n, Wallets)
  BY <1>1, <1>2 DEF Wallets, Range, Surjection
<1>5. IsFiniteSet(Wallets)
  BY <1>3, <1>4, FS_Surjection
<1> QED
  BY <1>2, <1>3, <1>5

LEMMA WalletHoldsInt ==
  ASSUME NEW b \in BooksSet, NEW w \in Wallets, NEW c \in Currency
  PROVE  WalletHolds(b, w, c) \in Int
<1>1. b.wallets[w] \in Wallet
  BY DEF BooksSet
<1>2. b.wallets[w].balance[c] \in Int /\ b.wallets[w].rewards[c] \in Int /\ b.wallets[w].staked \in Int
  BY <1>1 DEF Wallet
<1> QED
  BY <1>2 DEF WalletHolds

LEMMA HoldingsInt ==
  ASSUME NEW b \in BooksSet, NEW c \in Currency
  PROVE  Holdings(b, c) \in Int /\ b.treasury[c] \in Int /\ getCirculatingSupply(b) \in Int
<1>1. SumFunctionOnSet([w \in Wallets |-> WalletHolds(b, w, c)], Wallets) \in Int
  BY WalletsFinite, WalletHoldsInt, SumInt
<1>2. b.treasury \in Treasury
  BY DEF BooksSet
<1>3. b.treasury[c] \in Int /\ getCirculatingSupply(b) \in Int
  BY <1>2 DEF Treasury, Currency, getCirculatingSupply
<1> QED
  BY <1>1, <1>3 DEF Holdings

\* One wallet of the books replaced by another.
LEMMA WalletReplaced ==
  ASSUME NEW b \in BooksSet, NEW w \in Wallets, NEW v \in Wallet
  PROVE  LET a == [b EXCEPT !.wallets[w] = v]
         IN  /\ a \in BooksSet
             /\ \A c \in Currency :
                  Holdings(a, c) = Holdings(b, c) - WalletHolds(b, w, c) + WalletHolds(a, w, c)
             /\ a.wallets[w] = v /\ a.treasury = b.treasury
             /\ \A u \in Wallets \ {w} : a.wallets[u] = b.wallets[u]
<1> DEFINE a == [b EXCEPT !.wallets[w] = v]
<1>1. a \in BooksSet
  BY DEF BooksSet
<1>2. a.wallets[w] = v /\ a.treasury = b.treasury
      /\ \A u \in Wallets \ {w} : a.wallets[u] = b.wallets[u]
  BY DEF BooksSet
<1> HIDE DEF a
<1>3. ASSUME NEW c \in Currency
      PROVE  Holdings(a, c) = Holdings(b, c) - WalletHolds(b, w, c) + WalletHolds(a, w, c)
  <2> DEFINE f == [u \in Wallets |-> WalletHolds(b, u, c)]
             g == [u \in Wallets |-> WalletHolds(a, u, c)]
  <2>1. \A u \in Wallets : f[u] \in Int /\ g[u] \in Int
    BY <1>1, WalletHoldsInt
  <2>2. \A u \in Wallets \ {w} : f[u] = g[u]
    BY <1>2 DEF WalletHolds
  <2>3. f[w] = WalletHolds(b, w, c) /\ g[w] = WalletHolds(a, w, c)
    OBVIOUS
  <2>4. Holdings(b, c) = SumFunctionOnSet(f, Wallets) + b.treasury[c]
                         - IF c = "LYNX" THEN getCirculatingSupply(b) ELSE 0
    BY DEF Holdings
  <2>5. Holdings(a, c) = SumFunctionOnSet(g, Wallets) + b.treasury[c]
                         - IF c = "LYNX" THEN getCirculatingSupply(b) ELSE 0
    BY <1>2 DEF Holdings, getCirculatingSupply
  <2>6. b.treasury[c] \in Int /\ getCirculatingSupply(b) \in Int
    BY HoldingsInt
  <2> HIDE DEF f, g
  <2>7. SumFunctionOnSet(g, Wallets) = SumFunctionOnSet(f, Wallets) - f[w] + g[w]
    BY <2>1, <2>2, WalletsFinite, SumUpdate
  <2>8. SumFunctionOnSet(f, Wallets) \in Int /\ f[w] \in Int /\ g[w] \in Int
    BY <2>1, WalletsFinite, SumInt
  <2> QED
    BY <2>3, <2>4, <2>5, <2>6, <2>7, <2>8
<1> QED
  BY <1>1, <1>2, <1>3 DEF a

\* A wallet's balance goes up by an amount, or down, and nothing else changes.
LEMMA CreditFits ==
  ASSUME NEW b \in BooksSet, NEW w \in Wallets, NEW c \in Currency, NEW amount \in Int
  PROVE  /\ credit(b, w, c, amount) \in BooksSet
         /\ credit(b, w, c, amount).treasury = b.treasury
         /\ \A d \in Currency : Holdings(credit(b, w, c, amount), d)
                                = Holdings(b, d) + (IF d = c THEN amount ELSE 0)
<1> DEFINE u == b.wallets[w]
           v == [u EXCEPT !.balance[c] = @ + amount]
           a == [b EXCEPT !.wallets[w] = v]
<1>1. u \in Wallet /\ u.balance[c] \in Int
  BY DEF BooksSet, Wallet
<1>2. v \in Wallet /\ v.staked = u.staked /\ v.rewards = u.rewards
      /\ \A d \in Currency : v.balance[d] = u.balance[d] + (IF d = c THEN amount ELSE 0)
  BY <1>1 DEF Wallet
<1>3. credit(b, w, c, amount) = a
  BY DEF credit, BooksSet
<1> HIDE DEF v
<1>4. /\ a \in BooksSet /\ a.wallets[w] = v /\ a.treasury = b.treasury
      /\ \A d \in Currency :
           Holdings(a, d) = Holdings(b, d) - WalletHolds(b, w, d) + WalletHolds(a, w, d)
  BY <1>2, WalletReplaced
<1> HIDE DEF a
<1>5. ASSUME NEW d \in Currency
      PROVE  Holdings(a, d) = Holdings(b, d) + (IF d = c THEN amount ELSE 0)
  <2>1. u.balance[d] \in Int /\ u.rewards[d] \in Int /\ u.staked \in Int
    BY <1>1 DEF Wallet
  <2>2. v.balance[d] = u.balance[d] + (IF d = c THEN amount ELSE 0)
        /\ v.rewards[d] = u.rewards[d] /\ v.staked = u.staked
    BY <1>2
  <2>3. WalletHolds(a, w, d) = WalletHolds(b, w, d) + (IF d = c THEN amount ELSE 0)
    BY <1>4, <2>1, <2>2 DEF WalletHolds
  <2>4. WalletHolds(b, w, d) \in Int /\ Holdings(b, d) \in Int
    BY WalletHoldsInt, HoldingsInt
  <2> QED
    BY <1>4, <2>3, <2>4
<1> QED
  BY <1>3, <1>4, <1>5

LEMMA DebitFits ==
  ASSUME NEW b \in BooksSet, NEW w \in Wallets, NEW c \in Currency, NEW amount \in Int
  PROVE  /\ debit(b, w, c, amount) \in BooksSet
         /\ debit(b, w, c, amount).treasury = b.treasury
         /\ \A d \in Currency : Holdings(debit(b, w, c, amount), d)
                                = Holdings(b, d) - (IF d = c THEN amount ELSE 0)
<1> DEFINE minus == 0 - amount
<1>1. b.wallets[w].balance[c] \in Int
  BY DEF BooksSet, Wallet
<1>2. b.wallets[w].balance[c] - amount = b.wallets[w].balance[c] + minus
  BY <1>1
<1>3. debit(b, w, c, amount) = credit(b, w, c, minus)
  BY <1>2 DEF debit, credit
<1>4. minus \in Int /\ \A d \in Currency : Holdings(b, d) \in Int
  BY HoldingsInt
<1> HIDE DEF minus
<1>5. /\ credit(b, w, c, minus) \in BooksSet /\ credit(b, w, c, minus).treasury = b.treasury
      /\ \A d \in Currency : Holdings(credit(b, w, c, minus), d)
                             = Holdings(b, d) + (IF d = c THEN minus ELSE 0)
  BY <1>4, CreditFits
<1> QED
  BY <1>3, <1>4, <1>5 DEF minus

-----------------------------------------------------------------------------
(* Roundings and shares                                                      *)

\* roundAmount is within half a unit of the quotient.
LEMMA RoundFits ==
  ASSUME NEW n \in Nat, NEW d \in Nat \ {0}
  PROVE  /\ roundAmount(n, d) \in Nat
         /\ 2 * (d * roundAmount(n, d)) <= 2 * n + d
         /\ 2 * n - d <= 2 * (d * roundAmount(n, d))
<1> DEFINE x == 2 * n + d
           y == 2 * d
           q == x \div y
<1>1. x \in Nat /\ y \in Nat \ {0}
  OBVIOUS
<1>2. roundAmount(n, d) = q
  BY DEF roundAmount
<1> HIDE DEF x, y
<1>3. q \in Nat /\ y * q <= x /\ x < y * (q + 1)
  BY <1>1
<1> HIDE DEF q
<1>4. y * q = 2 * (d * q) /\ y * (q + 1) = 2 * (d * q) + 2 * d /\ d * q \in Int
  BY <1>3 DEF y
<1> DEFINE p == d * q
<1>5. p \in Int /\ 2 * p <= x /\ x < 2 * p + 2 * d
  BY <1>3, <1>4
<1> HIDE DEF p
<1>6. 2 * p <= 2 * n + d /\ 2 * n - d <= 2 * p
  BY <1>5 DEF x
<1> QED
  BY <1>2, <1>3, <1>6 DEF p

LEMMA PercentFits ==
  ASSUME NEW amount \in Nat, NEW rate \in Nat
  PROVE  /\ Percent(amount, rate) \in Nat
         /\ 200 * Percent(amount, rate) <= 2 * amount * rate + 100
         /\ 2 * amount * rate - 100 <= 200 * Percent(amount, rate)
<1> DEFINE n == amount * rate
<1>1. n \in Nat
  OBVIOUS
<1>2. 2 * amount * rate = 2 * n
  OBVIOUS
<1> HIDE DEF n
<1>3. /\ roundAmount(n, 100) \in Nat
      /\ 2 * (100 * roundAmount(n, 100)) <= 2 * n + 100
      /\ 2 * n - 100 <= 2 * (100 * roundAmount(n, 100))
  BY <1>1, RoundFits
<1>4. Percent(amount, rate) = roundAmount(n, 100)
  BY DEF Percent, n
<1> QED
  BY <1>1, <1>2, <1>3, <1>4

\* Of a stake something is left when its burn is taken.
LEMMA BurnFits ==
  ASSUME NEW c \in Currency, NEW amount \in Nat
  PROVE  /\ Burn(c, amount) \in Nat /\ Burn(c, amount) <= amount
         /\ amount > 0 => Burn(c, amount) < amount
         /\ c = "SOL" => Burn(c, amount) = 0
<1>1. /\ Percent(amount, 15) \in Nat
      /\ 200 * Percent(amount, 15) <= 2 * amount * 15 + 100
  BY PercentFits
<1> QED
  BY <1>1 DEF Burn, LYNX_EVENT_BURN, Currency

\* A sum by owner is the sum.
LEMMA SumByOwner ==
  ASSUME NEW S, IsFiniteSet(S), NEW W, IsFiniteSet(W),
         NEW f, \A k \in S : f[k] \in Int, NEW own, \A k \in S : own[k] \in W
  PROVE  LET Of(w) == SumFunctionOnSet(f, {k \in S : own[k] = w})
         IN  /\ \A w \in W : Of(w) \in Int
             /\ SumFunctionOnSet([w \in W |-> Of(w)], W) = SumFunctionOnSet(f, S)
<1> DEFINE Part(T, w) == SumFunctionOnSet(f, {k \in T : own[k] = w})
           G(T) == [w \in W |-> Part(T, w)]
           Q == {T \in SUBSET S : SumFunctionOnSet(G(T), W) = SumFunctionOnSet(f, T)}
<1>1. ASSUME NEW T \in SUBSET S, NEW w \in W
      PROVE  Part(T, w) \in Int /\ IsFiniteSet(T) /\ IsFiniteSet({k \in T : own[k] = w})
  <2>1. IsFiniteSet(T) /\ IsFiniteSet({k \in T : own[k] = w})
    BY FS_Subset
  <2> QED
    BY <2>1, SumInt
<1>2. {} \in Q
  <2>1. ASSUME NEW w \in W PROVE Part({}, w) = 0
    <3>1. {k \in {} : own[k] = w} = {}
      OBVIOUS
    <3> QED
      BY <3>1, SumEmpty
  <2>2. \A w \in W : G({})[w] = 0
    BY <2>1
  <2> HIDE DEF G
  <2>3. SumFunctionOnSet(G({}), W) = 0
    BY <2>2, SumZero
  <2> QED
    BY <2>3, SumEmpty
<1>3. ASSUME NEW T \in SUBSET S, T # {}, \A x \in T : T \ {x} \in Q PROVE T \in Q
  <2>1. PICK x \in T : TRUE
    BY <1>3
  <2> DEFINE R == T \ {x}
             old == G(R)
             new == G(T)
             w == own[x]
  <2>2. w \in W /\ f[x] \in Int /\ x \in S
    BY <2>1
  <2>3. IsFiniteSet(T) /\ R \in SUBSET S /\ \A k \in T : f[k] \in Int
    BY FS_Subset
  <2>4. SumFunctionOnSet(f, T) = f[x] + SumFunctionOnSet(f, R)
    BY <2>1, <2>3, SumSplit
  <2>5. Part(T, w) = f[x] + Part(R, w)
    <3> DEFINE U == {k \in T : own[k] = w}
    <3>1. IsFiniteSet(U) /\ x \in U /\ U \ {x} = {k \in R : own[k] = w} /\ \A k \in U : f[k] \in Int
      BY <1>1, <2>1, <2>2
    <3> HIDE DEF U
    <3>2. SumFunctionOnSet(f, U) = f[x] + SumFunctionOnSet(f, U \ {x})
      BY <3>1, SumSplit
    <3> QED
      BY <3>1, <3>2 DEF U
  <2>6. ASSUME NEW v \in W \ {w} PROVE Part(T, v) = Part(R, v)
    <3>1. {k \in T : own[k] = v} = {k \in R : own[k] = v}
      BY <2>6
    <3> QED
      BY <3>1
  <2>7. \A v \in W : old[v] = Part(R, v) /\ new[v] = Part(T, v)
                     /\ old[v] \in Int /\ new[v] \in Int
    BY <1>1, <2>3
  <2>8. SumFunctionOnSet(old, W) = SumFunctionOnSet(f, R)
    BY <1>3, <2>1
  <2> HIDE DEF old, new, R, Part
  <2>9. \A v \in W \ {w} : old[v] = new[v]
    BY <2>6, <2>7
  <2>10. SumFunctionOnSet(new, W) = SumFunctionOnSet(old, W) - old[w] + new[w]
    BY <2>2, <2>7, <2>9, SumUpdate
  <2>11. SumFunctionOnSet(f, R) \in Int
    BY <2>3, FS_Subset, SumInt
  <2>12. SumFunctionOnSet(new, W) = SumFunctionOnSet(f, T)
    BY <2>2, <2>4, <2>5, <2>7, <2>8, <2>10, <2>11
  <2> QED
    BY <2>12 DEF new
<1>4. S \in Q
  <2> HIDE DEF Q
  <2> QED
    BY <1>2, <1>3, SubsetInduction
<1> QED
  BY <1>1, <1>4

\* The shares of an amount add up to it.
LEMMA SharesAddUp ==
  ASSUME NEW cake \in Nat, NEW S, IsFiniteSet(S), S \subseteq Nat, S # {},
         NEW parts, \A i \in S : parts[i] \in Nat \ {0}
  PROVE  /\ \A i \in S : SharesOf(cake, S, parts)[i] \in Int
         /\ SumFunctionOnSet(SharesOf(cake, S, parts), S) = cake
<1> DEFINE total == SumFunctionOnSet(parts, S)
           rounded == [i \in S |-> roundAmount(cake * parts[i], total)]
           rest == SumFunctionOnSet(rounded, S \ {Max(S)})
           shares == [i \in S |-> IF i # Max(S) THEN rounded[i] ELSE cake - rest]
<1>1. SharesOf(cake, S, parts) = shares
  BY DEF SharesOf
<1>2. Max(S) \in S
  <2>1. S \subseteq Int
    OBVIOUS
  <2> QED
    BY <2>1, MaxIn
<1>3. total \in Nat \ {0}
  <2>1. parts[Max(S)] \in Nat \ {0} /\ \A i \in S : parts[i] \in Nat /\ parts[i] \in Int
    <3>1. ASSUME NEW i \in S PROVE parts[i] \in Nat \ {0}
      OBVIOUS
    <3>2. \A i \in S : parts[i] \in Nat /\ parts[i] \in Int
      BY <3>1
    <3>3. parts[Max(S)] \in Nat \ {0}
      BY <1>2, <3>1
    <3> QED
      BY <3>2, <3>3
  <2>2. total = parts[Max(S)] + SumFunctionOnSet(parts, S \ {Max(S)})
    BY <1>2, <2>1, SumSplit
  <2>3. SumFunctionOnSet(parts, S \ {Max(S)}) \in Nat
    BY <2>1, FS_Subset, SumNat
  <2> QED
    BY <2>1, <2>2, <2>3
<1> HIDE DEF total
<1>4. ASSUME NEW i \in S PROVE rounded[i] \in Int
  <2>1. cake * parts[i] \in Nat
    <3>1. parts[i] \in Nat
      OBVIOUS
    <3> QED
      BY <3>1
  <2> DEFINE n == cake * parts[i]
  <2> HIDE DEF n
  <2>2. roundAmount(n, total) \in Nat
    BY <1>3, <2>1, RoundFits DEF n
  <2> QED
    BY <2>2 DEF n
<1>5. IsFiniteSet(S \ {Max(S)})
  BY FS_Subset
<1> HIDE DEF rounded
<1>6. rest \in Int
  BY <1>4, <1>5, SumInt
<1>7. SumFunctionOnSet(shares, S \ {Max(S)}) = rest
  <2>1. \A i \in S \ {Max(S)} : shares[i] = rounded[i]
    OBVIOUS
  <2> HIDE DEF shares
  <2> QED
    BY <1>5, <2>1, SumSame
<1>8. \A i \in S : shares[i] \in Int
  BY <1>4, <1>6 DEF shares
<1>9. shares[Max(S)] = cake - rest
  BY <1>2
<1> HIDE DEF shares
<1> HIDE DEF rest
<1>10. SumFunctionOnSet(shares, S) = shares[Max(S)] + SumFunctionOnSet(shares, S \ {Max(S)})
  BY <1>2, <1>8, SumSplit
<1>11. SumFunctionOnSet(shares, S) = cake
  BY <1>6, <1>7, <1>9, <1>10
<1> QED
  BY <1>1, <1>8, <1>11

-----------------------------------------------------------------------------
(* The books under each operation: their type, and what they hold            *)

\* Nothing but a counter or an amount of the treasury changes.
LEMMA TreasuryFits ==
  ASSUME NEW b \in BooksSet, NEW t \in Treasury
  PROVE  LET a == [b EXCEPT !.treasury = t]
         IN  /\ a \in BooksSet
             /\ \A d \in Currency :
                  Holdings(a, d) = Holdings(b, d) + t[d] - b.treasury[d]
                    - (IF d = "LYNX" THEN getCirculatingSupply(a) - getCirculatingSupply(b) ELSE 0)
<1> DEFINE a == [b EXCEPT !.treasury = t]
<1>1. a \in BooksSet /\ a.wallets = b.wallets /\ a.treasury = t
  BY DEF BooksSet
<1> HIDE DEF a
<1>2. ASSUME NEW d \in Currency
      PROVE  Holdings(a, d) = Holdings(b, d) + t[d] - b.treasury[d]
               - (IF d = "LYNX" THEN getCirculatingSupply(a) - getCirculatingSupply(b) ELSE 0)
  <2> DEFINE sum == SumFunctionOnSet([w \in Wallets |-> WalletHolds(b, w, d)], Wallets)
  <2>1. [w \in Wallets |-> WalletHolds(a, w, d)] = [w \in Wallets |-> WalletHolds(b, w, d)]
    BY <1>1 DEF WalletHolds
  <2>2. Holdings(a, d) = sum + a.treasury[d] - (IF d = "LYNX" THEN getCirculatingSupply(a) ELSE 0)
    BY <2>1 DEF Holdings
  <2>3. Holdings(b, d) = sum + b.treasury[d] - (IF d = "LYNX" THEN getCirculatingSupply(b) ELSE 0)
    BY DEF Holdings
  <2>4. /\ a.treasury[d] \in Int /\ b.treasury[d] \in Int
        /\ getCirculatingSupply(a) \in Int /\ getCirculatingSupply(b) \in Int
    BY <1>1, HoldingsInt
  <2>5. sum \in Int
    BY WalletsFinite, WalletHoldsInt, SumInt
  <2> HIDE DEF sum
  <2> QED
    BY <1>1, <2>2, <2>3, <2>4, <2>5
<1> QED
  BY <1>1, <1>2 DEF a

\* A burn raises what the rest of the books must hold by itself.
LEMMA CountBurnFits ==
  ASSUME NEW b \in BooksSet, NEW amount \in Int
  PROVE  /\ CountBurn(b, amount) \in BooksSet
         /\ \A d \in Currency : Holdings(CountBurn(b, amount), d)
                                = Holdings(b, d) + (IF d = "LYNX" THEN amount ELSE 0)
<1> DEFINE t == [b.treasury EXCEPT !.lynxBurned = @ + amount]
           a == [b EXCEPT !.treasury = t]
<1>1. b.treasury \in Treasury
  BY DEF BooksSet
<1>2. /\ t \in Treasury /\ t.lynxBurned = b.treasury.lynxBurned + amount
      /\ t.lynxTotalMinted = b.treasury.lynxTotalMinted
      /\ \A d \in Currency : t[d] = b.treasury[d]
  BY <1>1 DEF Treasury, Currency
<1>3. CountBurn(b, amount) = a
  BY DEF CountBurn, BooksSet
<1>4. a.treasury = t
  BY DEF BooksSet
<1> HIDE DEF t
<1>5. /\ a \in BooksSet
      /\ \A d \in Currency :
           Holdings(a, d) = Holdings(b, d) + t[d] - b.treasury[d]
             - (IF d = "LYNX" THEN getCirculatingSupply(a) - getCirculatingSupply(b) ELSE 0)
  BY <1>2, TreasuryFits
<1> HIDE DEF a
<1>6. getCirculatingSupply(a) = getCirculatingSupply(b) - amount
  <2>1. b.treasury.lynxBurned \in Int /\ b.treasury.lynxTotalMinted \in Int
    BY <1>1 DEF Treasury
  <2> QED
    BY <1>2, <1>4, <2>1 DEF getCirculatingSupply
<1>7. ASSUME NEW d \in Currency
      PROVE  Holdings(a, d) = Holdings(b, d) + (IF d = "LYNX" THEN amount ELSE 0)
  <2>1. Holdings(b, d) \in Int /\ b.treasury[d] \in Int /\ getCirculatingSupply(b) \in Int
        /\ t[d] = b.treasury[d]
    BY <1>2, HoldingsInt
  <2> QED
    BY <1>5, <1>6, <2>1
<1> QED
  BY <1>3, <1>5, <1>7

\* The treasury takes an amount of a currency.
LEMMA TreasuryTakes ==
  ASSUME NEW b \in BooksSet, NEW c \in Currency, NEW amount \in Int
  PROVE  /\ [b EXCEPT !.treasury[c] = @ + amount] \in BooksSet
         /\ [b EXCEPT !.treasury[c] = @ + amount].wallets = b.wallets
         /\ \A d \in Currency : Holdings([b EXCEPT !.treasury[c] = @ + amount], d)
                                = Holdings(b, d) + (IF d = c THEN amount ELSE 0)
<1> DEFINE t == [b.treasury EXCEPT ![c] = @ + amount]
           a == [b EXCEPT !.treasury = t]
<1>1. b.treasury \in Treasury
  BY DEF BooksSet
<1>2. /\ t \in Treasury /\ t.lynxBurned = b.treasury.lynxBurned
      /\ t.lynxTotalMinted = b.treasury.lynxTotalMinted
      /\ \A d \in Currency : t[d] = b.treasury[d] + (IF d = c THEN amount ELSE 0)
  BY <1>1 DEF Treasury, Currency
<1>3. [b EXCEPT !.treasury[c] = @ + amount] = a
  BY DEF BooksSet
<1>4. a.treasury = t /\ a.wallets = b.wallets
  BY DEF BooksSet
<1> HIDE DEF t
<1>5. /\ a \in BooksSet
      /\ \A d \in Currency :
           Holdings(a, d) = Holdings(b, d) + t[d] - b.treasury[d]
             - (IF d = "LYNX" THEN getCirculatingSupply(a) - getCirculatingSupply(b) ELSE 0)
  BY <1>2, TreasuryFits
<1> HIDE DEF a
<1>6. getCirculatingSupply(a) = getCirculatingSupply(b)
  BY <1>2, <1>4 DEF getCirculatingSupply
<1>7. ASSUME NEW d \in Currency
      PROVE  Holdings(a, d) = Holdings(b, d) + (IF d = c THEN amount ELSE 0)
  <2>1. Holdings(b, d) \in Int /\ b.treasury[d] \in Int /\ getCirculatingSupply(b) \in Int
        /\ t[d] = b.treasury[d] + (IF d = c THEN amount ELSE 0)
    BY <1>2, HoldingsInt
  <2> QED
    BY <1>5, <1>6, <2>1
<1> QED
  BY <1>3, <1>4, <1>5, <1>7

\* Every wallet gets something, in balance, rewards or stake.
LEMMA WalletsRaised ==
  ASSUME NEW b \in BooksSet, NEW W \in [Wallets -> Wallet], NEW raise \in [Currency -> [Wallets -> Int]],
         \A w \in Wallets, c \in Currency :
           W[w].balance[c] + W[w].rewards[c] + (IF c = "LYNX" THEN W[w].staked ELSE 0)
             = WalletHolds(b, w, c) + raise[c][w]
  PROVE  LET a == [b EXCEPT !.wallets = W]
         IN  /\ a \in BooksSet /\ a.treasury = b.treasury
             /\ \A c \in Currency :
                  Holdings(a, c) = Holdings(b, c) + SumFunctionOnSet(raise[c], Wallets)
<1> DEFINE a == [b EXCEPT !.wallets = W]
<1>1. a \in BooksSet /\ a.treasury = b.treasury /\ a.wallets = W
  BY DEF BooksSet
<1> HIDE DEF a
<1>2. ASSUME NEW c \in Currency
      PROVE  Holdings(a, c) = Holdings(b, c) + SumFunctionOnSet(raise[c], Wallets)
  <2> DEFINE f == [w \in Wallets |-> WalletHolds(b, w, c)]
             h == [w \in Wallets |-> WalletHolds(a, w, c)]
             g == raise[c]
  <2>1. \A w \in Wallets : f[w] \in Int /\ g[w] \in Int
    BY WalletHoldsInt
  <2>2. \A w \in Wallets : h[w] = f[w] + g[w]
    BY <1>1 DEF WalletHolds
  <2>3. Holdings(b, c) = SumFunctionOnSet(f, Wallets) + b.treasury[c]
                         - IF c = "LYNX" THEN getCirculatingSupply(b) ELSE 0
    BY DEF Holdings
  <2>4. Holdings(a, c) = SumFunctionOnSet(h, Wallets) + b.treasury[c]
                         - IF c = "LYNX" THEN getCirculatingSupply(b) ELSE 0
    BY <1>1 DEF Holdings, getCirculatingSupply
  <2>5. b.treasury[c] \in Int /\ getCirculatingSupply(b) \in Int
    BY HoldingsInt
  <2> HIDE DEF f, g, h
  <2>6. SumFunctionOnSet(h, Wallets) = SumFunctionOnSet(f, Wallets) + SumFunctionOnSet(g, Wallets)
    BY <2>1, <2>2, WalletsFinite, SumPlus
  <2>7. SumFunctionOnSet(f, Wallets) \in Int /\ SumFunctionOnSet(g, Wallets) \in Int
    BY <2>1, WalletsFinite, SumInt
  <2> QED
    BY <2>3, <2>4, <2>5, <2>6, <2>7 DEF g
<1> QED
  BY <1>1, <1>2 DEF a

\* The stakers' rewards take the whole of the fee, or the treasury does.
LEMMA DistributeFits ==
  ASSUME NEW b \in BooksSet, NEW c \in Currency, NEW amount \in Nat
  PROVE  /\ distributeStakingRewards(b, amount, c) \in BooksSet
         /\ \A d \in Currency : Holdings(distributeStakingRewards(b, amount, c), d)
                                = Holdings(b, d) + (IF d = c THEN amount ELSE 0)
<1> DEFINE stakers == {k \in DOMAIN WalletSeq : b.wallets[WalletSeq[k]].staked > 0}
           stakes == [k \in stakers |-> b.wallets[WalletSeq[k]].staked]
           shares == SharesOf(amount, stakers, stakes)
           Of(w) == SumFunctionOnSet(shares, {k \in stakers : WalletSeq[k] = w})
           W == [w \in Wallets |-> [b.wallets[w] EXCEPT !.rewards[c] = @ + Of(w)]]
           raise == [d \in Currency |-> [w \in Wallets |-> IF d = c THEN Of(w) ELSE 0]]
           done == distributeStakingRewards(b, amount, c)
<1>1. CASE stakers = {}
  <2>1. done = [b EXCEPT !.treasury[c] = @ + amount]
    BY <1>1 DEF distributeStakingRewards
  <2> QED
    BY <2>1, TreasuryTakes
<1>2. CASE stakers # {}
  <2>1. done = [b EXCEPT !.wallets = W]
    BY <1>2 DEF distributeStakingRewards, BooksSet
  <2>2. stakers \subseteq Nat /\ IsFiniteSet(stakers)
    BY WalletsFinite, FS_Subset
  <2>3. \A k \in stakers : stakes[k] \in Nat \ {0} /\ WalletSeq[k] \in Wallets
    <3>1. ASSUME NEW k \in stakers PROVE WalletSeq[k] \in Wallets
      BY DEF Wallets, Range
    <3>2. ASSUME NEW k \in stakers PROVE stakes[k] \in Nat \ {0}
      <4>1. b.wallets[WalletSeq[k]].staked \in Nat
        BY <3>1 DEF BooksSet, Wallet
      <4> QED
        BY <4>1
    <3> QED
      BY <3>1, <3>2
  <2> HIDE DEF stakes, stakers
  <2>4. /\ \A k \in stakers : shares[k] \in Int
        /\ SumFunctionOnSet(shares, stakers) = amount
    BY <1>2, <2>2, <2>3, SharesAddUp
  <2> HIDE DEF shares
  <2>5. /\ \A w \in Wallets : Of(w) \in Int
        /\ SumFunctionOnSet([w \in Wallets |-> Of(w)], Wallets) = SumFunctionOnSet(shares, stakers)
    <3>1. IsFiniteSet(Wallets) /\ IsFiniteSet(stakers)
      BY <2>2, WalletsFinite
    <3>2. \A k \in stakers : WalletSeq[k] \in Wallets
      BY <2>3
    <3>3. \A k \in stakers : shares[k] \in Int
      BY <2>4
    <3> QED
      BY <3>1, <3>2, <3>3, SumByOwner
  <2> HIDE DEF Of
  <2>6. \A w \in Wallets : /\ W[w] \in Wallet /\ W[w].staked = b.wallets[w].staked
                           /\ W[w].balance = b.wallets[w].balance
                           /\ \A d \in Currency :
                                W[w].rewards[d] = b.wallets[w].rewards[d] + (IF d = c THEN Of(w) ELSE 0)
    <3>1. ASSUME NEW w \in Wallets PROVE b.wallets[w] \in Wallet /\ Of(w) \in Int
      BY <2>5 DEF BooksSet
    <3> QED
      BY <3>1 DEF Wallet
  <2>7. W \in [Wallets -> Wallet] /\ raise \in [Currency -> [Wallets -> Int]]
    BY <2>5, <2>6
  <2>8. ASSUME NEW w \in Wallets, NEW d \in Currency
        PROVE  W[w].balance[d] + W[w].rewards[d] + (IF d = "LYNX" THEN W[w].staked ELSE 0)
                 = WalletHolds(b, w, d) + raise[d][w]
    <3>1. b.wallets[w].balance[d] \in Int /\ b.wallets[w].rewards[d] \in Int
          /\ b.wallets[w].staked \in Int /\ Of(w) \in Int
      BY <2>5 DEF BooksSet, Wallet
    <3>2. raise[d][w] = IF d = c THEN Of(w) ELSE 0
      OBVIOUS
    <3>3. W[w].rewards[d] = b.wallets[w].rewards[d] + (IF d = c THEN Of(w) ELSE 0)
          /\ W[w].staked = b.wallets[w].staked /\ W[w].balance = b.wallets[w].balance
      BY <2>6
    <3> HIDE DEF W, raise
    <3> QED
      BY <3>1, <3>2, <3>3 DEF WalletHolds
  <2>9. ASSUME NEW d \in Currency
        PROVE  SumFunctionOnSet(raise[d], Wallets) = IF d = c THEN amount ELSE 0
    <3>1. CASE d = c
      <4>1. raise[d] = [w \in Wallets |-> Of(w)]
        BY <3>1
      <4> QED
        BY <2>4, <2>5, <3>1, <4>1
    <3>2. CASE d # c
      <4>1. \A w \in Wallets : raise[d][w] = 0
        BY <3>2
      <4> HIDE DEF raise
      <4> QED
        BY <3>2, <4>1, WalletsFinite, SumZero
    <3> QED
      BY <3>1, <3>2
  <2> DEFINE a == [b EXCEPT !.wallets = W]
  <2> HIDE DEF W, raise
  <2>10. /\ a \in BooksSet
         /\ \A d \in Currency :
              Holdings(a, d) = Holdings(b, d) + SumFunctionOnSet(raise[d], Wallets)
    BY <2>7, <2>8, WalletsRaised
  <2> QED
    BY <2>1, <2>9, <2>10
<1> QED
  BY <1>1, <1>2

\* The two fees of an event.
LEMMA PayEventFeesFit ==
  ASSUME NEW b \in BooksSet, NEW c \in Currency, NEW pot \in Nat
  PROVE  /\ PayEventFees(b, pot, c) \in BooksSet
         /\ \A d \in Currency : Holdings(PayEventFees(b, pot, c), d)
                                = Holdings(b, d) + (IF d = c THEN 2 * Percent(pot, 5) ELSE 0)
<1> DEFINE fee == Percent(pot, 5)
           a == [b EXCEPT !.treasury[c] = @ + fee]
<1>1. fee \in Nat
  BY PercentFits
<1>2. PayEventFees(b, pot, c) = distributeStakingRewards(a, fee, c)
  BY DEF PayEventFees, TREASURY_EVENT_FEE, STAKER_REWARD_FEE
<1> HIDE DEF fee
<1>3. a \in BooksSet /\ \A d \in Currency :
        Holdings(a, d) = Holdings(b, d) + (IF d = c THEN fee ELSE 0)
  BY <1>1, TreasuryTakes
<1> HIDE DEF a
<1>4. /\ distributeStakingRewards(a, fee, c) \in BooksSet
      /\ \A d \in Currency : Holdings(distributeStakingRewards(a, fee, c), d)
                             = Holdings(a, d) + (IF d = c THEN fee ELSE 0)
  BY <1>1, <1>3, DistributeFits
<1>5. \A d \in Currency : Holdings(b, d) \in Int
  BY HoldingsInt
<1> QED
  BY <1>1, <1>2, <1>3, <1>4, <1>5 DEF fee

LEMMA MintRatioNat ==
  ASSUME NEW supply \in Int
  PROVE  getMintRatio(supply) \in Nat
<1>1. supply \div TierUnit \in Int
  BY LedgerAssumption
<1> QED
  BY <1>1 DEF getMintRatio, LYNX_MINT_TIERS, LYNX_MINT_RATIO_FLOOR

-----------------------------------------------------------------------------
(* Orders                                                                    *)

Closed == {"FILLED", "CANCELLED"}
Resting == {"OPEN", "PARTIAL_FILLED"}

\* An order rests as long as something of it remains.  A sale holds in its
\* lock what remains of it, and so does an entry order of a market.
OrderFits(o) ==
  /\ o.status \in Resting => o.remaining > 0
  /\ o.status = "FILLED" => o.remaining = 0 /\ (o.locked # NoLock => o.locked = o.spent)
  /\ o.pair = Pair =>
       /\ o.lockedCurrency = IF o.side = "BUY" THEN "SOL" ELSE "LYNX"
       /\ o.side = "BUY" => o.locked # NoLock
       /\ o.side = "SELL" /\ o.status \in Resting /\ o.locked # NoLock
          => o.locked = o.spent + o.remaining
  /\ o.pair # Pair =>
       /\ o.side = "BUY" /\ o.locked # NoLock /\ o.position \in Position
       /\ o.status \in Resting => o.locked = o.remaining /\ o.spent = 0

OrderRecord ==
  [pair : Markets \cup {Pair}, owner : Wallets, side : {"BUY", "SELL"},
   position : Position \cup {"NONE"}, amount : Nat, remaining : Nat, price : Nat,
   status : Resting \cup Closed, lockedCurrency : Currency,
   locked : Nat \cup {NoLock}, spent : Nat]
Order == {o \in OrderRecord : OrderFits(o)}
TradeRecord == [amount : Nat, price : Nat]
ExchangeSet == [books : BooksSet, orders : Seq(Order), trades : Seq(TradeRecord), threw : BOOLEAN]

\* What an order holds of a currency, and the unit a buyer may end above its lock.
OrderHolds(o, c) ==
  IF o.status \in Closed THEN 0
  ELSE IF o.locked = NoLock THEN IF c = "LYNX" THEN o.remaining ELSE 0
  ELSE IF o.lockedCurrency = c THEN o.locked - o.spent ELSE 0
OrderSlack(o, c) ==
  IF o.side = "BUY" /\ o.pair = Pair /\ o.status \in Closed /\ c = "SOL" THEN 1 ELSE 0

OrdersHold(os, c) == SumFunctionOnSet([i \in DOMAIN os |-> OrderHolds(os[i], c)], DOMAIN os)
OrdersSlack(os, c) == SumFunctionOnSet([i \in DOMAIN os |-> OrderSlack(os[i], c)], DOMAIN os)

LEMMA OrderTypes ==
  ASSUME NEW o \in Order
  PROVE  /\ o \in OrderRecord /\ OrderFits(o)
         /\ o.pair \in Markets \cup {Pair} /\ o.owner \in Wallets /\ o.side \in {"BUY", "SELL"}
         /\ o.position \in Position \cup {"NONE"} /\ o.amount \in Nat /\ o.remaining \in Nat
         /\ o.price \in Nat /\ o.status \in Resting \cup Closed /\ o.lockedCurrency \in Currency
         /\ o.locked \in Nat \cup {NoLock} /\ o.spent \in Nat
         /\ o.status \in Resting <=> o.status \notin Closed
BY DEF Order, OrderRecord, Resting, Closed

LEMMA OrderHoldsInt ==
  ASSUME NEW o \in Order, NEW c \in Currency
  PROVE  OrderHolds(o, c) \in Int /\ OrderSlack(o, c) \in Nat
<1>1. o.remaining \in Nat /\ o.locked \in Nat \cup {NoLock} /\ o.spent \in Nat
  BY OrderTypes
<1> QED
  BY <1>1 DEF OrderHolds, OrderSlack

LEMMA OrdersFinite ==
  ASSUME NEW S, NEW os \in Seq(S)
  PROVE  /\ DOMAIN os = 1..Len(os) /\ Len(os) \in Nat /\ IsFiniteSet(DOMAIN os) /\ DOMAIN os \subseteq Nat
         /\ \A i \in DOMAIN os : os[i] \in S
<1>1. DOMAIN os = 1..Len(os) /\ Len(os) \in Nat
  BY LenProperties
<1>2. IsFiniteSet(1..Len(os))
  BY <1>1, FS_Interval
<1>3. \A i \in DOMAIN os : os[i] \in S
  BY <1>1, ElementOfSeq
<1> QED
  BY <1>1, <1>2, <1>3

LEMMA OrdersHoldInt ==
  ASSUME NEW os \in Seq(Order), NEW c \in Currency
  PROVE  OrdersHold(os, c) \in Int /\ OrdersSlack(os, c) \in Nat
<1>1. IsFiniteSet(DOMAIN os) /\ \A i \in DOMAIN os : os[i] \in Order
  BY OrdersFinite
<1>2. \A i \in DOMAIN os : OrderHolds(os[i], c) \in Int /\ OrderSlack(os[i], c) \in Nat
  BY <1>1, OrderHoldsInt
<1>3. OrdersHold(os, c) \in Int
  BY <1>1, <1>2, SumInt DEF OrdersHold
<1>4. OrdersSlack(os, c) \in Nat
  BY <1>1, <1>2, SumNat DEF OrdersSlack
<1> QED
  BY <1>3, <1>4

\* One order changes.
LEMMA OrderReplacedTypes ==
  ASSUME NEW os \in Seq(Order), NEW i \in DOMAIN os, NEW o \in Order,
         NEW new, new = [os EXCEPT ![i] = o]
  PROVE  /\ new \in Seq(Order) /\ DOMAIN new = DOMAIN os /\ Len(new) = Len(os)
         /\ new[i] = o /\ \A j \in DOMAIN os \ {i} : new[j] = os[j]
<1>1. DOMAIN os = 1..Len(os) /\ IsFiniteSet(DOMAIN os) /\ \A j \in DOMAIN os : os[j] \in Order
  BY OrdersFinite
<1>2. /\ new \in Seq(Order) /\ Len(new) = Len(os) /\ DOMAIN new = DOMAIN os
      /\ new[i] = o /\ \A j \in DOMAIN os \ {i} : new[j] = os[j]
  <2>1. i \in 1..Len(os)
    BY <1>1
  <2>2. new \in Seq(Order) /\ Len(new) = Len(os)
    BY <2>1, ExceptSeq
  <2> QED
    BY <2>2
<1> QED
  BY <1>2

LEMMA HoldsReplaced ==
  ASSUME NEW c \in Currency, NEW os \in Seq(Order), NEW i \in DOMAIN os, NEW o \in Order,
         NEW new, new = [os EXCEPT ![i] = o]
  PROVE  /\ OrdersHold(new, c) = OrdersHold(os, c) - OrderHolds(os[i], c) + OrderHolds(o, c)
         /\ OrdersSlack(new, c) = OrdersSlack(os, c) - OrderSlack(os[i], c) + OrderSlack(o, c)
<1>1. DOMAIN os = 1..Len(os) /\ IsFiniteSet(DOMAIN os) /\ \A j \in DOMAIN os : os[j] \in Order
  BY OrdersFinite
<1>2. /\ new \in Seq(Order) /\ Len(new) = Len(os) /\ DOMAIN new = DOMAIN os
      /\ new[i] = o /\ \A j \in DOMAIN os \ {i} : new[j] = os[j]
  BY OrderReplacedTypes
<1>3. OrdersHold(new, c) = OrdersHold(os, c) - OrderHolds(os[i], c) + OrderHolds(o, c)
  <2> DEFINE f == [j \in DOMAIN os |-> OrderHolds(os[j], c)]
             g == [j \in DOMAIN os |-> OrderHolds(new[j], c)]
  <2>1. \A j \in DOMAIN os : f[j] \in Int /\ g[j] \in Int
    BY <1>1, <1>2, OrderHoldsInt
  <2>2. \A j \in DOMAIN os \ {i} : f[j] = g[j]
    BY <1>2
  <2>3. f[i] = OrderHolds(os[i], c) /\ g[i] = OrderHolds(o, c)
    BY <1>2
  <2>4. OrdersHold(os, c) = SumFunctionOnSet(f, DOMAIN os)
    BY DEF OrdersHold
  <2>5. OrdersHold(new, c) = SumFunctionOnSet(g, DOMAIN os)
    BY <1>2 DEF OrdersHold
  <2> HIDE DEF f, g
  <2> QED
    BY <1>1, <2>1, <2>2, <2>3, <2>4, <2>5, SumUpdate
<1>4. OrdersSlack(new, c) = OrdersSlack(os, c) - OrderSlack(os[i], c) + OrderSlack(o, c)
  <2> DEFINE f == [j \in DOMAIN os |-> OrderSlack(os[j], c)]
             g == [j \in DOMAIN os |-> OrderSlack(new[j], c)]
  <2>1. \A j \in DOMAIN os : f[j] \in Int /\ g[j] \in Int
    BY <1>1, <1>2, OrderHoldsInt
  <2>2. \A j \in DOMAIN os \ {i} : f[j] = g[j]
    BY <1>2
  <2>3. f[i] = OrderSlack(os[i], c) /\ g[i] = OrderSlack(o, c)
    BY <1>2
  <2>4. OrdersSlack(os, c) = SumFunctionOnSet(f, DOMAIN os)
    BY DEF OrdersSlack
  <2>5. OrdersSlack(new, c) = SumFunctionOnSet(g, DOMAIN os)
    BY <1>2 DEF OrdersSlack
  <2> HIDE DEF f, g
  <2> QED
    BY <1>1, <2>1, <2>2, <2>3, <2>4, <2>5, SumUpdate
<1> QED
  BY <1>3, <1>4

LEMMA OrderReplaced ==
  ASSUME NEW os \in Seq(Order), NEW i \in DOMAIN os, NEW o \in Order,
         NEW new, new = [os EXCEPT ![i] = o]
  PROVE  /\ new \in Seq(Order) /\ DOMAIN new = DOMAIN os /\ Len(new) = Len(os)
         /\ new[i] = o /\ \A j \in DOMAIN os \ {i} : new[j] = os[j]
         /\ \A c \in Currency :
              /\ OrdersHold(new, c) = OrdersHold(os, c) - OrderHolds(os[i], c) + OrderHolds(o, c)
              /\ OrdersSlack(new, c) = OrdersSlack(os, c) - OrderSlack(os[i], c) + OrderSlack(o, c)
<1>1. /\ new \in Seq(Order) /\ Len(new) = Len(os) /\ DOMAIN new = DOMAIN os
      /\ new[i] = o /\ \A j \in DOMAIN os \ {i} : new[j] = os[j]
  BY OrderReplacedTypes
<1>2. ASSUME NEW c \in Currency
      PROVE  /\ OrdersHold(new, c) = OrdersHold(os, c) - OrderHolds(os[i], c) + OrderHolds(o, c)
             /\ OrdersSlack(new, c) = OrdersSlack(os, c) - OrderSlack(os[i], c) + OrderSlack(o, c)
  BY HoldsReplaced
<1> QED
  BY <1>1, <1>2

\* One order more.
LEMMA OrderAppendedTypes ==
  ASSUME NEW os \in Seq(Order), NEW o \in Order, NEW new, new = Append(os, o), NEW n, n = Len(os) + 1
  PROVE  /\ new \in Seq(Order) /\ Len(new) = n /\ DOMAIN new = DOMAIN os \cup {n}
         /\ n \notin DOMAIN os /\ n \in DOMAIN new
         /\ new[n] = o /\ \A j \in DOMAIN os : new[j] = os[j]
<1>1. DOMAIN os = 1..Len(os) /\ Len(os) \in Nat /\ IsFiniteSet(DOMAIN os)
      /\ \A j \in DOMAIN os : os[j] \in Order
  BY OrdersFinite
<1>2. /\ new \in Seq(Order) /\ Len(new) = n /\ new[n] = o
      /\ \A j \in 1..Len(os) : new[j] = os[j]
  BY AppendProperties
<1>3. DOMAIN new = 1..n
  BY <1>2, LenProperties
<1>4. n \notin DOMAIN os /\ DOMAIN new = DOMAIN os \cup {n}
  BY <1>1, <1>3
<1> QED
  BY <1>1, <1>2, <1>4

LEMMA HoldsAppended ==
  ASSUME NEW c \in Currency, NEW os \in Seq(Order), NEW o \in Order,
         NEW new, new = Append(os, o), NEW n, n = Len(os) + 1
  PROVE  /\ OrdersHold(new, c) = OrdersHold(os, c) + OrderHolds(o, c)
         /\ OrdersSlack(new, c) = OrdersSlack(os, c) + OrderSlack(o, c)
<1>1. DOMAIN os = 1..Len(os) /\ Len(os) \in Nat /\ IsFiniteSet(DOMAIN os)
      /\ \A j \in DOMAIN os : os[j] \in Order
  BY OrdersFinite
<1>2. /\ new \in Seq(Order) /\ Len(new) = n /\ DOMAIN new = DOMAIN os \cup {n}
      /\ n \notin DOMAIN os /\ n \in DOMAIN new
      /\ new[n] = o /\ \A j \in DOMAIN os : new[j] = os[j]
  BY OrderAppendedTypes
<1>4. n \notin DOMAIN os /\ DOMAIN new = DOMAIN os \cup {n}
  BY <1>2
<1>5. OrdersHold(new, c) = OrdersHold(os, c) + OrderHolds(o, c)
  <2> DEFINE D == DOMAIN os
             f == [j \in D |-> OrderHolds(os[j], c)]
             g == [j \in D \cup {n} |-> OrderHolds(new[j], c)]
  <2>1. \A j \in D : f[j] \in Int /\ g[j] \in Int /\ f[j] = g[j]
    BY <1>1, <1>2, OrderHoldsInt
  <2>2. g[n] = OrderHolds(o, c) /\ g[n] \in Int
    BY <1>2, OrderHoldsInt
  <2>3. OrdersHold(os, c) = SumFunctionOnSet(f, D)
    BY DEF OrdersHold
  <2>4. OrdersHold(new, c) = SumFunctionOnSet(g, D \cup {n})
    BY <1>4 DEF OrdersHold
  <2>5. IsFiniteSet(D) /\ n \notin D
    BY <1>1, <1>4
  <2> HIDE DEF f, g, D
  <2>6. SumFunctionOnSet(g, D \cup {n}) = SumFunctionOnSet(g, D) + g[n]
    BY <2>1, <2>2, <2>5, SumInsert
  <2>7. SumFunctionOnSet(g, D) = SumFunctionOnSet(f, D)
    BY <2>1, <2>5, SumSame
  <2> QED
    BY <2>2, <2>3, <2>4, <2>6, <2>7
<1>6. OrdersSlack(new, c) = OrdersSlack(os, c) + OrderSlack(o, c)
  <2> DEFINE D == DOMAIN os
             f == [j \in D |-> OrderSlack(os[j], c)]
             g == [j \in D \cup {n} |-> OrderSlack(new[j], c)]
  <2>1. \A j \in D : f[j] \in Int /\ g[j] \in Int /\ f[j] = g[j]
    BY <1>1, <1>2, OrderHoldsInt
  <2>2. g[n] = OrderSlack(o, c) /\ g[n] \in Int
    BY <1>2, OrderHoldsInt
  <2>3. OrdersSlack(os, c) = SumFunctionOnSet(f, D)
    BY DEF OrdersSlack
  <2>4. OrdersSlack(new, c) = SumFunctionOnSet(g, D \cup {n})
    BY <1>4 DEF OrdersSlack
  <2>5. IsFiniteSet(D) /\ n \notin D
    BY <1>1, <1>4
  <2> HIDE DEF f, g, D
  <2>6. SumFunctionOnSet(g, D \cup {n}) = SumFunctionOnSet(g, D) + g[n]
    BY <2>1, <2>2, <2>5, SumInsert
  <2>7. SumFunctionOnSet(g, D) = SumFunctionOnSet(f, D)
    BY <2>1, <2>5, SumSame
  <2> QED
    BY <2>2, <2>3, <2>4, <2>6, <2>7
<1> QED
  BY <1>5, <1>6

-----------------------------------------------------------------------------
(* One fill                                                                  *)

\* What no fill changes of an order.
SameOrder(o, p) ==
  /\ p.pair = o.pair /\ p.owner = o.owner /\ p.side = o.side /\ p.position = o.position
  /\ p.price = o.price /\ p.lockedCurrency = o.lockedCurrency /\ p.amount = o.amount
  /\ p.locked = NoLock <=> o.locked = NoLock

\* An order that a fill has paid and reduced, and what becomes of it when its
\* lock is released.
Consumed(o, paid, amount) == Reduce(consumeLockedAmount(o, paid), amount)
Released(o) ==
  IF o.status # "FILLED" \/ o.locked = NoLock THEN o ELSE [o EXCEPT !.locked = o.spent]
LockLeft(o) ==
  IF o.status = "FILLED" /\ o.locked # NoLock /\ o.locked > o.spent THEN o.locked - o.spent ELSE 0

\* How far a buyer has spent more than it locked.
Overspent(o) == o.pair = Pair /\ o.side = "BUY" /\ o.spent > o.locked + 1

LEMMA ConsumedIs ==
  ASSUME NEW o \in Order, NEW paid \in Nat, NEW amount \in Nat, amount <= o.remaining
  PROVE  LET q == Consumed(o, paid, amount)
         IN  /\ q \in OrderRecord /\ SameOrder(o, q)
             /\ q.locked = o.locked
             /\ q.spent = IF o.locked = NoLock THEN o.spent ELSE o.spent + paid
             /\ q.remaining = o.remaining - amount
             /\ q.status = IF o.remaining = amount THEN "FILLED" ELSE "PARTIAL_FILLED"
<1>1. o \in OrderRecord /\ o.spent \in Nat /\ o.remaining \in Nat
  BY OrderTypes
<1>2. PICK r : r = consumeLockedAmount(o, paid)
  OBVIOUS
<1>3. /\ r \in OrderRecord /\ SameOrder(o, r) /\ r.locked = o.locked /\ r.remaining = o.remaining
      /\ r.spent = IF o.locked = NoLock THEN o.spent ELSE o.spent + paid
  <2>1. CASE o.locked = NoLock
    BY <1>1, <1>2, <2>1 DEF consumeLockedAmount, SameOrder
  <2>2. CASE o.locked # NoLock
    BY <1>1, <1>2, <2>2 DEF consumeLockedAmount, SameOrder, OrderRecord
  <2> QED
    BY <2>1, <2>2
<1>4. PICK q : q = Reduce(r, amount)
  OBVIOUS
<1>5. /\ q \in OrderRecord /\ SameOrder(r, q) /\ q.locked = r.locked /\ q.spent = r.spent
      /\ q.remaining = r.remaining - amount
      /\ q.status = IF r.remaining = amount THEN "FILLED" ELSE "PARTIAL_FILLED"
  <2>1. PICK left : left = r.remaining - amount
    OBVIOUS
  <2>2. PICK status : status = IF r.remaining = amount THEN "FILLED" ELSE "PARTIAL_FILLED"
    OBVIOUS
  <2>3. left \in Nat /\ status \in Resting \cup Closed
    BY <1>1, <1>3, <2>1, <2>2 DEF Resting, Closed
  <2>4. q = [r EXCEPT !.remaining = left, !.status = status]
    BY <1>4, <2>1, <2>2 DEF Reduce
  <2>5. q \in OrderRecord /\ q.remaining = left /\ q.status = status
        /\ q.locked = r.locked /\ q.spent = r.spent /\ SameOrder(r, q)
    BY <1>3, <2>3, <2>4 DEF OrderRecord, SameOrder
  <2> QED
    BY <2>1, <2>2, <2>5
<1>6. q = Consumed(o, paid, amount)
  BY <1>2, <1>4 DEF Consumed
<1> QED
  BY <1>3, <1>5, <1>6 DEF SameOrder

LEMMA ReleasedIs ==
  ASSUME NEW q \in OrderRecord
  PROVE  /\ Released(q) \in OrderRecord /\ SameOrder(q, Released(q))
         /\ Released(q).remaining = q.remaining /\ Released(q).status = q.status
         /\ Released(q).spent = q.spent
         /\ Released(q).locked = IF q.status # "FILLED" \/ q.locked = NoLock THEN q.locked ELSE q.spent
         /\ LockLeft(q) \in Nat
<1>1. q.spent \in Nat /\ q.locked \in Nat \cup {NoLock}
  BY DEF OrderRecord
<1>2. LockLeft(q) \in Nat
  BY <1>1 DEF LockLeft
<1>3. CASE q.status # "FILLED" \/ q.locked = NoLock
  BY <1>2, <1>3 DEF Released, SameOrder
<1>4. CASE ~(q.status # "FILLED" \/ q.locked = NoLock)
  <2>1. q.spent # NoLock
    BY <1>1, BookAssumption
  <2>2. PICK r : r = [q EXCEPT !.locked = q.spent]
    OBVIOUS
  <2>3. Released(q) = r
    BY <1>4, <2>2 DEF Released
  <2>4. r \in OrderRecord /\ r.locked = q.spent /\ r.remaining = q.remaining /\ r.status = q.status
        /\ r.spent = q.spent /\ SameOrder(q, r)
    BY <1>1, <1>4, <2>1, <2>2 DEF OrderRecord, SameOrder
  <2> QED
    BY <1>2, <1>4, <2>3, <2>4
<1> QED
  BY <1>3, <1>4

\* A fill leaves a sound order, and the order gives up what it pays.
LEMMA AfterFill ==
  ASSUME NEW o \in Order, NEW paid \in Nat, NEW amount \in Nat, amount <= o.remaining,
         o.pair = Pair, o.status # "CANCELLED",
         o.side = "SELL" => paid = amount, amount = 0 => paid = 0
  PROVE  LET q == Consumed(o, paid, amount)
             p == Released(q)
         IN  /\ q \in OrderRecord /\ p \in Order /\ SameOrder(o, p)
             /\ p.remaining = o.remaining - amount /\ p.status \in {"FILLED", "PARTIAL_FILLED"}
             /\ ~Overspent(q) => ~Overspent(p)
             /\ o.side = "SELL" => \A c \in Currency :
                  /\ OrderHolds(p, c) - OrderHolds(o, c) + (IF c = "LYNX" THEN LockLeft(q) ELSE 0)
                       = 0 - (IF c = "LYNX" THEN amount ELSE 0)
                  /\ OrderSlack(p, c) = 0 /\ OrderSlack(o, c) = 0
             /\ o.side = "BUY" /\ ~Overspent(q) => \A c \in Currency :
                  LET more == OrderHolds(p, c) - OrderHolds(o, c)
                              + (IF c = "SOL" THEN LockLeft(q) + paid ELSE 0)
                  IN  0 <= more /\ more <= OrderSlack(p, c) - OrderSlack(o, c)
<1>1. PICK q : q = Consumed(o, paid, amount)
  OBVIOUS
<1>2. PICK p : p = Released(q)
  OBVIOUS
<1>3. /\ o \in OrderRecord /\ OrderFits(o) /\ o.remaining \in Nat /\ o.spent \in Nat
      /\ o.locked \in Nat \cup {NoLock} /\ o.side \in {"BUY", "SELL"}
      /\ o.status \in {"OPEN", "PARTIAL_FILLED", "FILLED"}
  BY OrderTypes DEF Resting, Closed
<1>4. /\ q \in OrderRecord /\ SameOrder(o, q) /\ q.locked = o.locked
      /\ q.spent = (IF o.locked = NoLock THEN o.spent ELSE o.spent + paid)
      /\ q.remaining = o.remaining - amount
      /\ q.status = (IF o.remaining = amount THEN "FILLED" ELSE "PARTIAL_FILLED")
  BY <1>1, ConsumedIs
<1>5. /\ p \in OrderRecord /\ SameOrder(q, p) /\ p.remaining = q.remaining /\ p.status = q.status
      /\ p.spent = q.spent
      /\ p.locked = (IF q.status # "FILLED" \/ q.locked = NoLock THEN q.locked ELSE q.spent)
  BY <1>2, <1>4, ReleasedIs
<1>6. SameOrder(o, p)
  BY <1>4, <1>5 DEF SameOrder
<1>7. /\ p.pair = Pair /\ p.side = o.side /\ p.lockedCurrency = o.lockedCurrency
      /\ p.locked = NoLock <=> o.locked = NoLock
      /\ q.pair = Pair /\ q.side = o.side
  BY <1>4, <1>6 DEF SameOrder
<1>8. p.status = "FILLED" => p.remaining = 0
  BY <1>3, <1>4, <1>5
<1>9. p.status \in Resting => p.remaining > 0
  BY <1>3, <1>4, <1>5 DEF Resting
<1>10. /\ o.lockedCurrency = (IF o.side = "BUY" THEN "SOL" ELSE "LYNX")
       /\ o.side = "BUY" => o.locked # NoLock
       /\ o.side = "SELL" /\ o.status \in Resting /\ o.locked # NoLock
          => o.locked = o.spent + o.remaining
       /\ o.status \in Resting => o.remaining > 0
       /\ o.status = "FILLED" => o.remaining = 0 /\ (o.locked # NoLock => o.locked = o.spent)
  BY <1>3 DEF OrderFits
<1>11. p.side = "SELL" /\ p.status \in Resting /\ p.locked # NoLock => p.locked = p.spent + p.remaining
  <2> SUFFICES ASSUME p.side = "SELL", p.status \in Resting, p.locked # NoLock
               PROVE  p.locked = p.spent + p.remaining
    OBVIOUS
  <2>1. p.status = "PARTIAL_FILLED" /\ o.remaining # amount
    BY <1>3, <1>4, <1>5 DEF Resting
  <2>2. o.status \in Resting
    BY <1>3, <1>10, <2>1 DEF Resting
  <2>3. o.locked # NoLock /\ o.locked = o.spent + o.remaining /\ paid = amount
    BY <1>7, <1>10, <2>2
  <2>4. p.locked = o.locked /\ p.spent = o.spent + paid /\ p.remaining = o.remaining - amount
    BY <1>4, <1>5, <2>1, <2>3
  <2> QED
    BY <1>3, <2>3, <2>4
<1>12. p.status = "FILLED" /\ p.locked # NoLock => p.locked = p.spent
  BY <1>5, <1>7
<1>13. p \in Order
  BY <1>5, <1>7, <1>8, <1>9, <1>10, <1>11, <1>12 DEF Order, OrderFits
<1>14. p.status \in {"FILLED", "PARTIAL_FILLED"}
  BY <1>4, <1>5
<1>15. ASSUME ~Overspent(q) PROVE ~Overspent(p)
  <2> SUFFICES ASSUME p.side = "BUY" PROVE ~(p.spent > p.locked + 1)
    BY <1>7 DEF Overspent
  <2>1. ~(q.spent > q.locked + 1) /\ q.locked \in Nat /\ q.spent \in Nat
    BY <1>3, <1>4, <1>7, <1>10, <1>15 DEF Overspent
  <2> QED
    BY <1>4, <1>5, <2>1
<1>16. ASSUME o.side = "SELL", NEW c \in Currency
       PROVE  /\ OrderHolds(p, c) - OrderHolds(o, c) + (IF c = "LYNX" THEN LockLeft(q) ELSE 0)
                   = 0 - (IF c = "LYNX" THEN amount ELSE 0)
              /\ OrderSlack(p, c) = 0 /\ OrderSlack(o, c) = 0
  <2>0. OrderSlack(p, c) = 0 /\ OrderSlack(o, c) = 0
    BY <1>7, <1>16 DEF OrderSlack
  <2>1. paid = amount /\ o.lockedCurrency = "LYNX" /\ p.lockedCurrency = "LYNX"
    BY <1>7, <1>10, <1>16
  <2>2. CASE c = "SOL"
    BY <2>0, <2>1, <2>2 DEF OrderHolds
  <2>3. CASE c = "LYNX" /\ o.locked = NoLock
    <3>1. LockLeft(q) = 0 /\ p.locked = NoLock
      BY <1>4, <1>7, <2>3 DEF LockLeft
    <3>2. OrderHolds(o, c) = o.remaining
      BY <1>3, <1>10, <2>3 DEF OrderHolds, Closed, Resting
    <3>3. OrderHolds(p, c) = p.remaining
      BY <1>8, <1>14, <2>3, <3>1 DEF OrderHolds, Closed
    <3> QED
      BY <1>3, <1>4, <1>5, <2>0, <2>3, <3>1, <3>2, <3>3
  <2>4. CASE c = "LYNX" /\ o.locked # NoLock
    <3>1. OrderHolds(o, c) = o.remaining /\ o.locked = o.spent + o.remaining
      BY <1>3, <1>10, <1>16, <2>1, <2>4 DEF OrderHolds, Closed, Resting
    <3>2. q.spent = o.spent + amount /\ q.locked = o.locked
      BY <1>4, <2>1, <2>4
    <3>3. LockLeft(q) = 0
      BY <1>3, <1>4, <3>1, <3>2 DEF LockLeft
    <3>4. OrderHolds(p, c) = p.remaining
      BY <1>7, <1>8, <1>11, <1>14, <1>16, <2>1, <2>4, <1>13, OrderTypes DEF OrderHolds, Closed, Resting
    <3> QED
      BY <1>3, <1>4, <1>5, <2>0, <2>4, <3>1, <3>3, <3>4
  <2> QED
    BY <2>2, <2>3, <2>4 DEF Currency
<1>17. ASSUME o.side = "BUY", ~Overspent(q), NEW c \in Currency
       PROVE  LET more == OrderHolds(p, c) - OrderHolds(o, c)
                          + (IF c = "SOL" THEN LockLeft(q) + paid ELSE 0)
              IN  0 <= more /\ more <= OrderSlack(p, c) - OrderSlack(o, c)
  <2>1. /\ o.locked \in Nat /\ o.locked # NoLock /\ o.lockedCurrency = "SOL"
        /\ p.lockedCurrency = "SOL" /\ p.locked # NoLock
        /\ q.spent = o.spent + paid /\ q.locked = o.locked /\ q.spent <= q.locked + 1
    BY <1>3, <1>4, <1>7, <1>10, <1>17 DEF Overspent
  <2>2. CASE c = "LYNX"
    BY <2>1, <2>2 DEF OrderHolds, OrderSlack
  <2>3. CASE c = "SOL" /\ o.status = "FILLED"
    <3>1. amount = 0 /\ paid = 0 /\ o.locked = o.spent
      BY <1>3, <1>10, <2>1, <2>3
    <3>2. p.status = "FILLED"
      BY <1>3, <1>4, <1>5, <1>10, <2>3, <3>1
    <3>3. LockLeft(q) = 0
      BY <1>3, <2>1, <3>1 DEF LockLeft
    <3>4. OrderHolds(o, c) = 0 /\ OrderHolds(p, c) = 0
      BY <2>3, <3>2 DEF OrderHolds, Closed
    <3>5. OrderSlack(p, c) = OrderSlack(o, c) /\ OrderSlack(o, c) = 1
      BY <1>7, <1>17, <2>3, <3>2 DEF OrderSlack, Closed
    <3> QED
      BY <2>3, <3>1, <3>3, <3>4, <3>5
  <2>4. CASE c = "SOL" /\ o.status # "FILLED"
    <3>1. OrderHolds(o, c) = o.locked - o.spent /\ OrderSlack(o, c) = 0
      BY <1>3, <2>1, <2>4 DEF OrderHolds, OrderSlack, Closed
    <3>2. CASE p.status = "FILLED"
      <4>1. OrderHolds(p, c) = 0 /\ OrderSlack(p, c) = 1
        BY <1>7, <1>17, <2>4, <3>2 DEF OrderHolds, OrderSlack, Closed
      <4>2. LockLeft(q) = IF q.locked > q.spent THEN q.locked - q.spent ELSE 0
        BY <1>5, <2>1, <3>2 DEF LockLeft
      <4> QED
        BY <1>3, <2>1, <2>4, <3>1, <4>1, <4>2
    <3>3. CASE p.status # "FILLED"
      <4>1. p.locked = o.locked /\ p.spent = o.spent + paid
        BY <1>5, <2>1, <3>3
      <4>2. OrderHolds(p, c) = p.locked - p.spent /\ OrderSlack(p, c) = 0
        BY <1>14, <2>1, <2>4, <3>3 DEF OrderHolds, OrderSlack, Closed
      <4>3. LockLeft(q) = 0
        BY <1>5, <3>3 DEF LockLeft
      <4> QED
        BY <1>3, <2>1, <2>4, <3>1, <4>1, <4>2, <4>3
    <3> QED
      BY <3>2, <3>3
  <2> QED
    BY <2>2, <2>3, <2>4 DEF Currency
<1> QED
  BY <1>1, <1>2, <1>4, <1>5, <1>6, <1>13, <1>14, <1>15, <1>16, <1>17

RawExchange ==
  [books : BooksSet, orders : Seq(OrderRecord), trades : Seq(TradeRecord), threw : BOOLEAN]

LEMMA ExchangeIsRaw == ExchangeSet \subseteq RawExchange
<1>1. Order \subseteq OrderRecord
  BY DEF Order
<1>2. Seq(Order) \subseteq Seq(OrderRecord)
  BY <1>1
<1> QED
  BY <1>2 DEF ExchangeSet, RawExchange

\* What an order does not need any more of its lock goes back to its owner.
LEMMA ReleaseUnusedIs ==
  ASSUME NEW z \in RawExchange, NEW i \in DOMAIN z.orders
  PROVE  LET y == releaseUnusedLock(z, i)
             o == z.orders[i]
         IN  /\ y \in RawExchange /\ y.trades = z.trades /\ y.threw = z.threw
             /\ y.orders = [z.orders EXCEPT ![i] = Released(o)]
             /\ \A d \in Currency :
                  Holdings(y.books, d) = Holdings(z.books, d)
                                         + (IF d = o.lockedCurrency THEN LockLeft(o) ELSE 0)
<1> DEFINE o == z.orders[i]
           y == releaseUnusedLock(z, i)
<1>1. /\ z.orders \in Seq(OrderRecord) /\ z.books \in BooksSet
      /\ z.trades \in Seq(TradeRecord) /\ z.threw \in BOOLEAN
      /\ z = [books |-> z.books, orders |-> z.orders, trades |-> z.trades, threw |-> z.threw]
  BY DEF RawExchange
<1>2. i \in 1..Len(z.orders) /\ o \in OrderRecord
  BY <1>1, OrdersFinite
<1>3. o.locked \in Nat \cup {NoLock} /\ o.spent \in Nat /\ o.owner \in Wallets /\ o.lockedCurrency \in Currency
  BY <1>2 DEF OrderRecord
<1>4. \A d \in Currency : Holdings(z.books, d) \in Int
  BY <1>1, HoldingsInt
<1>5. CASE o.status # "FILLED" \/ o.locked = NoLock
  <2>1. y = z /\ Released(o) = o /\ LockLeft(o) = 0
    BY <1>5 DEF releaseUnusedLock, Released, LockLeft
  <2>2. z.orders = [z.orders EXCEPT ![i] = o]
    BY <1>1, <1>2
  <2> HIDE DEF y, o
  <2> QED
    BY <1>1, <1>4, <2>1, <2>2 DEF o, y
<1>6. CASE ~(o.status # "FILLED" \/ o.locked = NoLock)
  <2>1. PICK refund : refund = IF o.locked > o.spent THEN o.locked - o.spent ELSE 0
    OBVIOUS
  <2>2. LockLeft(o) = refund /\ refund \in Nat /\ o.locked \in Nat
    BY <1>3, <1>6, <2>1 DEF LockLeft
  <2>3. PICK books : books = credit(z.books, o.owner, o.lockedCurrency, refund)
    OBVIOUS
  <2>4. books \in BooksSet /\ \A d \in Currency :
          Holdings(books, d) = Holdings(z.books, d) + (IF d = o.lockedCurrency THEN refund ELSE 0)
    BY <1>1, <1>3, <2>2, <2>3, CreditFits
  <2>5. y = [z EXCEPT !.books = credit(@, o.owner, o.lockedCurrency, refund),
                      !.orders[i].locked = o.spent]
    BY <1>6, <2>1 DEF releaseUnusedLock
  <2>6. PICK r : r = Released(o)
    OBVIOUS
  <2>7. r = [o EXCEPT !.locked = o.spent]
    BY <1>6, <2>6 DEF Released
  <2>8. PICK os : os = [z.orders EXCEPT ![i] = r]
    OBVIOUS
  <2>9. os = [z.orders EXCEPT ![i].locked = o.spent]
    BY <1>1, <1>2, <2>7, <2>8
  <2>10. y = [z EXCEPT !.books = books, !.orders = os]
    BY <1>1, <2>3, <2>5, <2>9
  <2>11. r \in OrderRecord
    BY <1>2, <2>6, ReleasedIs
  <2>12. os \in Seq(OrderRecord)
    BY <1>1, <1>2, <2>8, <2>11, ExceptSeq
  <2>13. y \in RawExchange /\ y.books = books /\ y.orders = os /\ y.trades = z.trades /\ y.threw = z.threw
    <3> HIDE DEF y
    <3> QED
      BY <1>1, <2>4, <2>10, <2>12 DEF RawExchange
  <2> HIDE DEF y
  <2> QED
    BY <2>2, <2>4, <2>6, <2>8, <2>13 DEF y
<1> QED
  BY <1>5, <1>6

\* What an order holds of a currency and the books together, and at most.
Holds(x, c) == Holdings(x.books, c) + OrdersHold(x.orders, c)

CanMeet(x, t, k) ==
  /\ t \in DOMAIN x.orders /\ k \in DOMAIN x.orders /\ t # k
  /\ x.orders[t].pair = Pair /\ x.orders[k].pair = Pair
  /\ x.orders[k].side = Opposite(x.orders[t].side)
  /\ x.orders[t].status # "CANCELLED" /\ x.orders[k].status # "CANCELLED"
  /\ x.threw = FALSE

\* A fill changes two orders and nothing else of the book.
FillsTwo(x, y, t, k) ==
  /\ y \in ExchangeSet /\ Len(y.orders) = Len(x.orders)
  /\ \A j \in DOMAIN x.orders \ {t, k} : y.orders[j] = x.orders[j]
  /\ \A j \in {t, k} : /\ SameOrder(x.orders[j], y.orders[j])
                       /\ y.orders[j].status # "CANCELLED"

\* Money moves between the books and the two orders, and none is lost: a buyer
\* whose order ends may be a unit above its lock.
Balances(x, y) ==
  \A c \in Currency :
    /\ Holds(x, c) <= Holds(y, c)
    /\ Holds(y, c) - OrdersSlack(y.orders, c) <= Holds(x, c) - OrdersSlack(x.orders, c)

LEMMA FillFits ==
  ASSUME NEW x \in ExchangeSet, NEW t, NEW k, CanMeet(x, t, k)
  PROVE  LET y == Fill(x, t, k)
         IN  /\ FillsTwo(x, y, t, k)
             /\ y.threw = FALSE => /\ y.orders[t].remaining = 0 \/ y.orders[k].remaining = 0
                                   /\ ~Overspent(y.orders[t]) /\ ~Overspent(y.orders[k])
                                   /\ Balances(x, y)
<1> DEFINE b == IF x.orders[t].side = "BUY" THEN t ELSE k
           s == IF b = t THEN k ELSE t
           a == IF x.orders[t].remaining < x.orders[k].remaining
                THEN x.orders[t].remaining ELSE x.orders[k].remaining
           n == roundAmount(a * x.orders[k].price, PriceUnit)
           paid == [x EXCEPT
                 !.books = credit(credit(@, x.orders[b].owner, "LYNX", a),
                                  x.orders[s].owner, "SOL", n),
                 !.orders[b] = consumeLockedAmount(@, n)]
           done == [paid EXCEPT
                 !.orders[s] = Reduce(consumeLockedAmount(@, a), a),
                 !.orders[b] = Reduce(@, a),
                 !.trades = Append(@, [amount |-> a, price |-> x.orders[k].price])]
           y == Fill(x, t, k)
<1>1. y = IF LockExceeded(paid.orders[b]) THEN [paid EXCEPT !.threw = TRUE]
          ELSE releaseUnusedLock(releaseUnusedLock(done, t), k)
  BY DEF Fill
<1>2. b = IF x.orders[t].side = "BUY" THEN t ELSE k
  OBVIOUS
<1>3. s = IF b = t THEN k ELSE t
  OBVIOUS
<1>6. a = IF x.orders[t].remaining < x.orders[k].remaining
          THEN x.orders[t].remaining ELSE x.orders[k].remaining
  OBVIOUS
<1>7. n = roundAmount(a * x.orders[k].price, PriceUnit)
  OBVIOUS
<1>20. paid = [x EXCEPT
                 !.books = credit(credit(@, x.orders[b].owner, "LYNX", a),
                                  x.orders[s].owner, "SOL", n),
                 !.orders[b] = consumeLockedAmount(@, n)]
  OBVIOUS
<1>25. done = [paid EXCEPT
                 !.orders[s] = Reduce(consumeLockedAmount(@, a), a),
                 !.orders[b] = Reduce(@, a),
                 !.trades = Append(@, [amount |-> a, price |-> x.orders[k].price])]
  OBVIOUS
<1> HIDE DEF b, s, a, n, paid, done, y
<1>4. PICK ob : ob = x.orders[b]
  OBVIOUS
<1>5. PICK os : os = x.orders[s]
  OBVIOUS
<1>8. PICK books : books = credit(credit(x.books, ob.owner, "LYNX", a), os.owner, "SOL", n)
  OBVIOUS
<1>9. PICK r : r = consumeLockedAmount(ob, n)
  OBVIOUS
<1>10. /\ x.books \in BooksSet /\ x.orders \in Seq(Order) /\ x.trades \in Seq(TradeRecord)
       /\ x.threw = FALSE
       /\ x = [books |-> x.books, orders |-> x.orders, trades |-> x.trades, threw |-> x.threw]
  BY DEF ExchangeSet, CanMeet
<1>11. /\ DOMAIN x.orders = 1..Len(x.orders) /\ Len(x.orders) \in Nat
       /\ \A j \in DOMAIN x.orders : x.orders[j] \in Order
  BY <1>10, OrdersFinite
<1>12. t \in DOMAIN x.orders /\ k \in DOMAIN x.orders /\ t # k
  BY DEF CanMeet
<1>13. /\ {b, s} = {t, k} /\ b # s /\ b \in DOMAIN x.orders /\ s \in DOMAIN x.orders
       /\ ob \in Order /\ os \in Order /\ x.orders[t] \in Order /\ x.orders[k] \in Order
  BY <1>2, <1>3, <1>4, <1>5, <1>11, <1>12
<1>14. x.orders[t].side \in {"BUY", "SELL"} /\ x.orders[k].side \in {"BUY", "SELL"}
  BY <1>13, OrderTypes
<1>15. /\ ob.side = "BUY" /\ os.side = "SELL" /\ ob.pair = Pair /\ os.pair = Pair
       /\ ob.status # "CANCELLED" /\ os.status # "CANCELLED"
  BY <1>2, <1>3, <1>4, <1>5, <1>12, <1>14 DEF CanMeet, Opposite
<1>16. /\ ob.owner \in Wallets /\ os.owner \in Wallets /\ ob.remaining \in Nat /\ os.remaining \in Nat
       /\ ob.spent \in Nat /\ ob.locked \in Nat \cup {NoLock}
       /\ ob.status \in Resting \cup Closed
       /\ x.orders[t].remaining \in Nat /\ x.orders[k].remaining \in Nat /\ x.orders[k].price \in Nat
  BY <1>13, OrderTypes
<1>17. a \in Nat /\ a <= ob.remaining /\ a <= os.remaining
       /\ (a = x.orders[t].remaining \/ a = x.orders[k].remaining)
  BY <1>2, <1>3, <1>4, <1>5, <1>6, <1>16
<1>18. n \in Nat /\ (a = 0 => n = 0)
  <2> DEFINE m == a * x.orders[k].price
  <2>1. m \in Nat /\ (a = 0 => m = 0)
    BY <1>16, <1>17
  <2> HIDE DEF m
  <2>2. PriceUnit \in Nat \ {0}
    BY LedgerAssumption
  <2>3. roundAmount(m, PriceUnit) \in Nat
        /\ 2 * (PriceUnit * roundAmount(m, PriceUnit)) <= 2 * m + PriceUnit
    BY <2>1, <2>2, RoundFits
  <2>4. m = 0 => roundAmount(m, PriceUnit) = 0
    <3> SUFFICES ASSUME m = 0, roundAmount(m, PriceUnit) >= 1 PROVE FALSE
      BY <2>3
    <3> DEFINE q == roundAmount(m, PriceUnit)
    <3>1. q \in Nat /\ q >= 1
      BY <2>3
    <3> HIDE DEF q
    <3>2. PriceUnit * q >= PriceUnit /\ PriceUnit * q \in Int
      BY <2>2, <3>1
    <3> QED
      BY <2>2, <2>3, <3>2 DEF q
  <2> QED
    BY <1>7, <2>1, <2>3, <2>4 DEF m
<1>19. books \in BooksSet /\ \A c \in Currency :
         Holdings(books, c) = Holdings(x.books, c)
           + (IF c = "LYNX" THEN a ELSE 0) + (IF c = "SOL" THEN n ELSE 0)
  <2>a. PICK lynx : lynx = "LYNX"
    OBVIOUS
  <2>b. PICK sol : sol = "SOL"
    OBVIOUS
  <2>1. PICK one : one = credit(x.books, ob.owner, lynx, a)
    OBVIOUS
  <2>2. a \in Int /\ n \in Int /\ lynx \in Currency /\ sol \in Currency
    BY <1>17, <1>18, <2>a, <2>b DEF Currency
  <2>c. ob.owner \in Wallets /\ os.owner \in Wallets /\ x.books \in BooksSet
    BY <1>10, <1>16
  <2>3. one \in BooksSet /\ \A c \in Currency :
          Holdings(one, c) = Holdings(x.books, c) + (IF c = lynx THEN a ELSE 0)
    BY <2>1, <2>2, <2>c, CreditFits
  <2>4. books = credit(one, os.owner, sol, n)
    BY <1>8, <2>1, <2>a, <2>b
  <2>5. books \in BooksSet /\ \A c \in Currency :
          Holdings(books, c) = Holdings(one, c) + (IF c = sol THEN n ELSE 0)
    <3>1. one \in BooksSet
      BY <2>3
    <3> QED
      BY <2>2, <2>4, <2>c, <3>1, CreditFits
  <2> QED
    BY <2>3, <2>5, <2>a, <2>b
<1>21. ob.locked \in Nat /\ ob.locked # NoLock
  BY <1>13, <1>15, <1>16, OrderTypes DEF OrderFits
<1>22. r = [ob EXCEPT !.spent = @ + n]
  BY <1>9, <1>21 DEF consumeLockedAmount
<1>23. r \in OrderRecord /\ r.spent = ob.spent + n /\ r.locked = ob.locked /\ SameOrder(ob, r)
       /\ r.status = ob.status /\ r.remaining = ob.remaining
  <2>1. ob \in OrderRecord /\ ob.spent + n \in Nat
    BY <1>13, <1>16, <1>18, OrderTypes
  <2> QED
    BY <1>22, <2>1 DEF OrderRecord, SameOrder
<1>24. paid.orders[b] = r /\ paid.books = books /\ paid.trades = x.trades /\ paid.threw = x.threw
       /\ paid.orders = [x.orders EXCEPT ![b] = r]
       /\ paid = [books |-> books, orders |-> [x.orders EXCEPT ![b] = r], trades |-> x.trades,
                  threw |-> x.threw]
  <2>1. paid = [x EXCEPT !.books = books, !.orders = [x.orders EXCEPT ![b] = r]]
    BY <1>4, <1>5, <1>8, <1>9, <1>10, <1>13, <1>20
  <2> QED
    BY <1>10, <1>13, <2>1
<1>26. y = IF LockExceeded(r) THEN [paid EXCEPT !.threw = TRUE]
           ELSE releaseUnusedLock(releaseUnusedLock(done, t), k)
  BY <1>1, <1>24
<1>27. CASE LockExceeded(r)
  <2>1. r.spent > r.locked + 1
    BY <1>27 DEF LockExceeded
  <2>2. ob.status # "FILLED"
    <3> SUFFICES ASSUME ob.status = "FILLED" PROVE FALSE
      OBVIOUS
    <3>1. ob.remaining = 0 /\ ob.locked = ob.spent
      BY <1>13, <1>21, OrderTypes DEF OrderFits
    <3> QED
      BY <1>17, <1>18, <1>21, <1>23, <2>1, <3>1
  <2>3. r \in Order
    <3>1. OrderFits(ob)
      BY <1>13, OrderTypes
    <3> QED
      BY <1>15, <1>23, <2>2, <3>1 DEF Order, OrderFits, SameOrder
  <2>4. /\ paid.orders \in Seq(Order) /\ Len(paid.orders) = Len(x.orders)
        /\ \A j \in DOMAIN x.orders \ {b} : paid.orders[j] = x.orders[j]
    BY <1>10, <1>13, <1>24, <2>3, OrderReplaced
  <2>5. y = [paid EXCEPT !.threw = TRUE]
    BY <1>26, <1>27
  <2>6. y \in ExchangeSet /\ y.orders = paid.orders /\ y.threw = TRUE
    BY <1>10, <1>19, <1>24, <2>4, <2>5 DEF ExchangeSet
  <2>7. FillsTwo(x, y, t, k)
    <3>1. \A j \in {t, k} : SameOrder(x.orders[j], y.orders[j]) /\ y.orders[j].status # "CANCELLED"
      <4>1. SameOrder(x.orders[b], y.orders[b]) /\ y.orders[b].status # "CANCELLED"
        BY <1>4, <1>15, <1>23, <1>24, <2>6
      <4>2. SameOrder(x.orders[s], y.orders[s]) /\ y.orders[s].status # "CANCELLED"
        BY <1>5, <1>13, <1>15, <2>4, <2>6 DEF SameOrder
      <4> QED
        BY <1>13, <4>1, <4>2
    <3> QED
      BY <1>13, <2>4, <2>6, <3>1 DEF FillsTwo
  <2> QED
    BY <2>6, <2>7 DEF y
<1>28. CASE ~LockExceeded(r)
  <2>1. PICK qb : qb = Consumed(ob, n, a)
    OBVIOUS
  <2>2. PICK qs : qs = Consumed(os, a, a)
    OBVIOUS
  <2>3. PICK pb : pb = Released(qb)
    OBVIOUS
  <2>4. PICK ps : ps = Released(qs)
    OBVIOUS
  <2>5. /\ qb.spent = r.spent /\ qb.locked = r.locked /\ qb.side = "BUY"
    BY <1>13, <1>15, <1>17, <1>18, <1>21, <1>23, <2>1, ConsumedIs DEF SameOrder
  <2>6. ~Overspent(qb)
    BY <1>21, <1>23, <1>28, <2>5 DEF Overspent, LockExceeded
  <2>7. /\ qb \in OrderRecord /\ pb \in Order /\ SameOrder(ob, pb)
        /\ pb.remaining = ob.remaining - a /\ pb.status \in {"FILLED", "PARTIAL_FILLED"}
        /\ ~Overspent(pb)
        /\ \A c \in Currency :
             LET more == OrderHolds(pb, c) - OrderHolds(ob, c)
                         + (IF c = "SOL" THEN LockLeft(qb) + n ELSE 0)
             IN  0 <= more /\ more <= OrderSlack(pb, c) - OrderSlack(ob, c)
    BY <1>13, <1>15, <1>17, <1>18, <2>1, <2>3, <2>6, AfterFill
  <2>8. /\ qs \in OrderRecord /\ ps \in Order /\ SameOrder(os, ps)
        /\ ps.remaining = os.remaining - a /\ ps.status \in {"FILLED", "PARTIAL_FILLED"}
        /\ \A c \in Currency :
             /\ OrderHolds(ps, c) - OrderHolds(os, c) + (IF c = "LYNX" THEN LockLeft(qs) ELSE 0)
                  = 0 - (IF c = "LYNX" THEN a ELSE 0)
             /\ OrderSlack(ps, c) = 0 /\ OrderSlack(os, c) = 0
    BY <1>13, <1>15, <1>17, <2>2, <2>4, AfterFill
  <2>9. ~Overspent(ps)
    BY <1>15, <2>8 DEF Overspent, SameOrder
  <2>10. /\ qb.lockedCurrency = "SOL" /\ qs.lockedCurrency = "LYNX"
    <3>1. ob.lockedCurrency = "SOL" /\ os.lockedCurrency = "LYNX"
      BY <1>13, <1>15, OrderTypes DEF OrderFits
    <3>2. qb.lockedCurrency = ob.lockedCurrency
      BY <1>13, <1>17, <1>18, <2>1, ConsumedIs DEF SameOrder
    <3>3. qs.lockedCurrency = os.lockedCurrency
      BY <1>13, <1>17, <2>2, ConsumedIs DEF SameOrder
    <3> QED
      BY <3>1, <3>2, <3>3
  <2>11. PICK one : one = [x.orders EXCEPT ![b] = qb]
    OBVIOUS
  <2>12. PICK two : two = [one EXCEPT ![s] = qs]
    OBVIOUS
  <2>13. PICK trade : trade = [amount |-> a, price |-> x.orders[k].price]
    OBVIOUS
  <2>14. done = [books |-> books, orders |-> two, trades |-> Append(x.trades, trade), threw |-> x.threw]
    <3>1. [[paid.orders EXCEPT ![s] = Reduce(consumeLockedAmount(@, a), a)] EXCEPT ![b] = Reduce(@, a)] = two
      <4>1. DOMAIN two = DOMAIN x.orders /\ DOMAIN paid.orders = DOMAIN x.orders
        BY <1>24, <2>11, <2>12
      <4>2. qb = Reduce(r, a) /\ qs = Reduce(consumeLockedAmount(os, a), a)
        BY <1>9, <2>1, <2>2 DEF Consumed
      <4>3. paid.orders[s] = os /\ paid.orders[b] = r
        BY <1>5, <1>13, <1>24
      <4>4. PICK w : w = [[paid.orders EXCEPT ![s] = Reduce(consumeLockedAmount(@, a), a)]
                            EXCEPT ![b] = Reduce(@, a)]
        OBVIOUS
      <4>5. w = [[paid.orders EXCEPT ![s] = qs] EXCEPT ![b] = qb]
        BY <1>13, <4>1, <4>2, <4>3, <4>4
      <4>6. w = two
        <5>1. paid.orders = [x.orders EXCEPT ![b] = r] /\ b # s /\ b \in DOMAIN x.orders
          BY <1>13, <1>24
        <5>2. x.orders \in [DOMAIN x.orders -> Order]
          BY <1>11, <1>10
        <5> QED
          BY <2>11, <2>12, <4>5, <5>1, <5>2
      <4> QED
        BY <4>4, <4>6
    <3>2. PICK po : po = paid.orders
      OBVIOUS
    <3>3. paid = [books |-> books, orders |-> po, trades |-> x.trades, threw |-> x.threw]
      BY <1>24, <3>2
    <3>v. PICK v : v = Reduce(consumeLockedAmount(po[s], a), a)
      OBVIOUS
    <3>4. PICK po2 : po2 = [po EXCEPT ![s] = v]
      OBVIOUS
    <3>u. PICK u : u = Reduce(po2[b], a)
      OBVIOUS
    <3>5. PICK po3 : po3 = [po2 EXCEPT ![b] = u]
      OBVIOUS
    <3>a. PICK p1 : p1 = [paid EXCEPT !.orders[s] = Reduce(consumeLockedAmount(@, a), a)]
      OBVIOUS
    <3>b. p1 = [books |-> books, orders |-> po2, trades |-> x.trades, threw |-> x.threw]
      <4>1. p1 = [paid EXCEPT !.orders[s] = v]
        BY <3>3, <3>a, <3>v
      <4> QED
        BY <3>3, <3>4, <4>1
    <3>c. PICK p2 : p2 = [p1 EXCEPT !.orders[b] = Reduce(@, a)]
      OBVIOUS
    <3>d. p2 = [books |-> books, orders |-> po3, trades |-> x.trades, threw |-> x.threw]
      <4>1. p2 = [p1 EXCEPT !.orders[b] = u]
        BY <3>b, <3>c, <3>u
      <4> QED
        BY <3>5, <3>b, <4>1
    <3>6. done = [p2 EXCEPT !.trades = Append(@, trade)]
      <4>1. done = [paid EXCEPT !.orders[s] = v, !.orders[b] = u, !.trades = Append(x.trades, trade)]
        BY <1>13, <1>24, <1>25, <2>13, <3>2, <3>3, <3>4, <3>u, <3>v
      <4>2. p1 = [paid EXCEPT !.orders[s] = v]
        BY <3>3, <3>a, <3>v
      <4>3. p2 = [p1 EXCEPT !.orders[b] = u]
        BY <3>b, <3>c, <3>u
      <4>4. p2.trades = x.trades
        BY <3>d
      <4>5. done = [p2 EXCEPT !.trades = Append(x.trades, trade)]
        BY <4>1, <4>2, <4>3, Zenon
      <4> QED
        BY <4>4, <4>5
    <3>7. po3 = two
      BY <3>1, <3>2, <3>4, <3>5, <3>u, <3>v
    <3> QED
      BY <3>6, <3>7, <3>d
  <2>15. two \in Seq(OrderRecord) /\ Len(two) = Len(x.orders) /\ DOMAIN two = DOMAIN x.orders
         /\ two[b] = qb /\ two[s] = qs
         /\ \A j \in DOMAIN x.orders \ {b, s} : two[j] = x.orders[j]
    <3>1. x.orders \in Seq(OrderRecord)
      BY <1>10, ExchangeIsRaw DEF RawExchange
    <3>2. one \in Seq(OrderRecord) /\ Len(one) = Len(x.orders)
      BY <1>11, <1>13, <2>7, <2>11, <3>1, ExceptSeq
    <3>3. two \in Seq(OrderRecord) /\ Len(two) = Len(x.orders)
      BY <1>11, <1>13, <2>8, <2>12, <3>2, ExceptSeq
    <3> QED
      BY <1>13, <2>11, <2>12, <3>3
  <2>16. Append(x.trades, trade) \in Seq(TradeRecord)
    <3>1. trade \in TradeRecord
      BY <1>16, <1>17, <2>13 DEF TradeRecord
    <3> QED
      BY <1>10, <3>1, AppendProperties
  <2>17. done \in RawExchange /\ done.books = books /\ done.orders = two /\ done.threw = FALSE
    BY <1>10, <1>19, <2>14, <2>15, <2>16 DEF RawExchange
  <2>18. PICK z : z = releaseUnusedLock(done, t)
    OBVIOUS
  <2>19. /\ z \in RawExchange /\ z.threw = FALSE
         /\ z.orders = [two EXCEPT ![t] = Released(two[t])]
         /\ \A d \in Currency :
              Holdings(z.books, d) = Holdings(books, d)
                + (IF d = two[t].lockedCurrency THEN LockLeft(two[t]) ELSE 0)
    <3>1. t \in DOMAIN done.orders
      BY <1>12, <2>15, <2>17
    <3> QED
      BY <2>17, <2>18, <3>1, ReleaseUnusedIs
  <2>20. z.orders[k] = two[k] /\ k \in DOMAIN z.orders
    BY <1>12, <2>15, <2>19
  <2>21. /\ y \in RawExchange /\ y.threw = FALSE
         /\ y.orders = [z.orders EXCEPT ![k] = Released(two[k])]
         /\ \A d \in Currency :
              Holdings(y.books, d) = Holdings(z.books, d)
                + (IF d = two[k].lockedCurrency THEN LockLeft(two[k]) ELSE 0)
    <3>1. y = releaseUnusedLock(z, k)
      BY <1>26, <1>28, <2>18
    <3>2. z \in RawExchange /\ k \in DOMAIN z.orders /\ z.orders[k] = two[k]
      BY <2>19, <2>20
    <3>3. /\ y \in RawExchange /\ y.threw = z.threw
          /\ y.orders = [z.orders EXCEPT ![k] = Released(z.orders[k])]
          /\ \A d \in Currency :
               Holdings(y.books, d) = Holdings(z.books, d)
                 + (IF d = z.orders[k].lockedCurrency THEN LockLeft(z.orders[k]) ELSE 0)
      BY <3>1, <3>2, ReleaseUnusedIs
    <3> QED
      BY <2>19, <3>2, <3>3
  <2>22. PICK first : first = [x.orders EXCEPT ![b] = pb]
    OBVIOUS
  <2>23. /\ first \in Seq(Order) /\ DOMAIN first = DOMAIN x.orders /\ Len(first) = Len(x.orders)
         /\ first[b] = pb /\ \A j \in DOMAIN x.orders \ {b} : first[j] = x.orders[j]
         /\ \A c \in Currency :
              /\ OrdersHold(first, c) = OrdersHold(x.orders, c) - OrderHolds(ob, c) + OrderHolds(pb, c)
              /\ OrdersSlack(first, c) = OrdersSlack(x.orders, c) - OrderSlack(ob, c) + OrderSlack(pb, c)
    BY <1>4, <1>10, <1>13, <2>7, <2>22, OrderReplaced
  <2>24. PICK last : last = [first EXCEPT ![s] = ps]
    OBVIOUS
  <2>25. /\ last \in Seq(Order) /\ DOMAIN last = DOMAIN x.orders /\ Len(last) = Len(x.orders)
         /\ last[s] = ps /\ \A j \in DOMAIN x.orders \ {s} : last[j] = first[j]
         /\ \A c \in Currency :
              /\ OrdersHold(last, c) = OrdersHold(first, c) - OrderHolds(os, c) + OrderHolds(ps, c)
              /\ OrdersSlack(last, c) = OrdersSlack(first, c) - OrderSlack(os, c) + OrderSlack(ps, c)
    <3>1. first[s] = os /\ s \in DOMAIN first
      BY <1>5, <1>13, <2>23
    <3>2. first \in Seq(Order) /\ ps \in Order
      BY <2>8, <2>23
    <3>3. /\ last \in Seq(Order) /\ DOMAIN last = DOMAIN first /\ Len(last) = Len(first)
          /\ last[s] = ps /\ \A j \in DOMAIN first \ {s} : last[j] = first[j]
          /\ \A c \in Currency :
               /\ OrdersHold(last, c) = OrdersHold(first, c) - OrderHolds(first[s], c) + OrderHolds(ps, c)
               /\ OrdersSlack(last, c) = OrdersSlack(first, c) - OrderSlack(first[s], c) + OrderSlack(ps, c)
      <4>1. s \in DOMAIN first
        BY <3>1
      <4>2. last \in Seq(Order) /\ Len(last) = Len(first)
        <5>1. s \in 1..Len(first)
          BY <3>2, <4>1, LenProperties
        <5> QED
          BY <2>24, <3>2, <5>1, ExceptSeq
      <4>3. DOMAIN last = DOMAIN first /\ last[s] = ps /\ \A j \in DOMAIN first \ {s} : last[j] = first[j]
        BY <2>24, <4>1
      <4>4. \A c \in Currency :
             /\ OrdersHold(last, c) = OrdersHold(first, c) - OrderHolds(first[s], c) + OrderHolds(ps, c)
             /\ OrdersSlack(last, c) = OrdersSlack(first, c) - OrderSlack(first[s], c) + OrderSlack(ps, c)
        BY <2>24, <3>2, <4>1, HoldsReplaced
      <4> QED
        BY <4>2, <4>3, <4>4
    <3> QED
      BY <2>23, <3>1, <3>3
  <2>26. y.orders = last
    <3>1. DOMAIN y.orders = DOMAIN x.orders
      BY <2>15, <2>19, <2>21
    <3>2. y.orders[b] = pb /\ y.orders[s] = ps
      BY <1>12, <1>13, <2>3, <2>4, <2>15, <2>19, <2>21
    <3>3. \A j \in DOMAIN x.orders \ {b, s} : y.orders[j] = x.orders[j]
      BY <1>13, <2>15, <2>19, <2>21
    <3>4. \A j \in DOMAIN x.orders : y.orders[j] = last[j]
      BY <1>13, <2>23, <2>25, <3>2, <3>3
    <3>5. y.orders \in Seq(OrderRecord) /\ last \in Seq(Order)
      BY <2>21, <2>25 DEF RawExchange
    <3> QED
      BY <2>25, <3>1, <3>4, <3>5
  <2>27. y \in ExchangeSet
    BY <2>21, <2>25, <2>26 DEF RawExchange, ExchangeSet
  <2>28. FillsTwo(x, y, t, k)
    <3>1. SameOrder(x.orders[b], y.orders[b]) /\ y.orders[b].status # "CANCELLED"
      BY <1>4, <1>13, <2>7, <2>23, <2>25, <2>26
    <3>2. SameOrder(x.orders[s], y.orders[s]) /\ y.orders[s].status # "CANCELLED"
      BY <1>5, <2>8, <2>25, <2>26
    <3> QED
      BY <1>13, <2>23, <2>25, <2>26, <2>27, <3>1, <3>2 DEF FillsTwo
  <2>29. /\ y.orders[t].remaining = 0 \/ y.orders[k].remaining = 0
         /\ ~Overspent(y.orders[t]) /\ ~Overspent(y.orders[k])
    <3>1. y.orders[b] = pb /\ y.orders[s] = ps
      BY <1>13, <2>23, <2>25, <2>26
    <3>2. ob.remaining = a \/ os.remaining = a
      BY <1>2, <1>3, <1>4, <1>5, <1>17
    <3>3. pb.remaining = 0 \/ ps.remaining = 0
      BY <1>17, <2>7, <2>8, <3>2
    <3> QED
      BY <1>2, <1>3, <2>7, <2>9, <3>1, <3>3
  <2>30. ASSUME NEW c \in Currency
         PROVE  /\ Holds(x, c) <= Holds(y, c)
                /\ Holds(y, c) - OrdersSlack(y.orders, c) <= Holds(x, c) - OrdersSlack(x.orders, c)
    <3>1. /\ Holdings(x.books, c) \in Int /\ OrdersHold(x.orders, c) \in Int
          /\ OrdersSlack(x.orders, c) \in Int
          /\ OrderHolds(ob, c) \in Int /\ OrderHolds(os, c) \in Int
          /\ OrderHolds(pb, c) \in Int /\ OrderHolds(ps, c) \in Int
          /\ OrderSlack(ob, c) \in Int /\ OrderSlack(pb, c) \in Int
          /\ LockLeft(qb) \in Int /\ LockLeft(qs) \in Int
      <4>1. /\ Holdings(x.books, c) \in Int /\ OrdersHold(x.orders, c) \in Int
            /\ OrdersSlack(x.orders, c) \in Int
        BY <1>10, HoldingsInt, OrdersHoldInt
      <4>2. /\ OrderHolds(ob, c) \in Int /\ OrderHolds(os, c) \in Int
            /\ OrderSlack(ob, c) \in Int
        BY <1>13, OrderHoldsInt
      <4>3. /\ OrderHolds(pb, c) \in Int /\ OrderHolds(ps, c) \in Int
            /\ OrderSlack(pb, c) \in Int
        BY <2>7, <2>8, OrderHoldsInt
      <4>4. LockLeft(qb) \in Int /\ LockLeft(qs) \in Int
        BY <2>7, <2>8, ReleasedIs
      <4> QED
        BY <4>1, <4>2, <4>3, <4>4
    <3>2. Holdings(y.books, c) = Holdings(books, c) + (IF c = "SOL" THEN LockLeft(qb) ELSE 0)
                                 + (IF c = "LYNX" THEN LockLeft(qs) ELSE 0)
      <4>1. \A j \in {t, k} : two[j] \in OrderRecord
        BY <1>13, <2>7, <2>8, <2>15
      <4>2. /\ Holdings(z.books, c) = Holdings(books, c)
                + (IF c = two[t].lockedCurrency THEN LockLeft(two[t]) ELSE 0)
            /\ Holdings(y.books, c) = Holdings(z.books, c)
                + (IF c = two[k].lockedCurrency THEN LockLeft(two[k]) ELSE 0)
        BY <2>19, <2>21
      <4>3. Holdings(books, c) \in Int
        BY <1>19, HoldingsInt
      <4>4. CASE b = t /\ s = k
        BY <2>10, <2>15, <3>1, <4>2, <4>3, <4>4 DEF Currency
      <4>5. CASE b = k /\ s = t
        BY <2>10, <2>15, <3>1, <4>2, <4>3, <4>5 DEF Currency
      <4> QED
        BY <1>2, <1>3, <4>4, <4>5
    <3>3. Holdings(books, c) = Holdings(x.books, c)
            + (IF c = "LYNX" THEN a ELSE 0) + (IF c = "SOL" THEN n ELSE 0)
      BY <1>19
    <3>4. /\ OrdersHold(y.orders, c) = OrdersHold(x.orders, c) - OrderHolds(ob, c) + OrderHolds(pb, c)
                                     - OrderHolds(os, c) + OrderHolds(ps, c)
          /\ OrdersSlack(y.orders, c) = OrdersSlack(x.orders, c) - OrderSlack(ob, c) + OrderSlack(pb, c)
      BY <2>8, <2>23, <2>25, <2>26, <3>1
    <3>5. LET more == OrderHolds(pb, c) - OrderHolds(ob, c)
                      + (IF c = "SOL" THEN LockLeft(qb) + n ELSE 0)
          IN  0 <= more /\ more <= OrderSlack(pb, c) - OrderSlack(ob, c)
      BY <2>7
    <3>6. OrderHolds(ps, c) - OrderHolds(os, c) + (IF c = "LYNX" THEN LockLeft(qs) ELSE 0)
            = 0 - (IF c = "LYNX" THEN a ELSE 0)
      BY <2>8
    <3>7. Holds(x, c) = Holdings(x.books, c) + OrdersHold(x.orders, c)
          /\ Holds(y, c) = Holdings(y.books, c) + OrdersHold(y.orders, c)
      BY DEF Holds
    <3>8. CASE c = "SOL"
      <4>1. /\ Holdings(y.books, c) = Holdings(x.books, c) + n + LockLeft(qb)
            /\ OrderHolds(ps, c) = OrderHolds(os, c)
        <5>1. Holdings(y.books, c) = Holdings(x.books, c) + n + LockLeft(qb)
          BY <1>17, <1>18, <3>1, <3>2, <3>3, <3>8
        <5>2. OrderHolds(ps, c) - OrderHolds(os, c) = 0
          BY <1>17, <3>1, <3>6, <3>8
        <5> QED
          BY <3>1, <5>1, <5>2
      <4>2. /\ 0 <= OrderHolds(pb, c) - OrderHolds(ob, c) + LockLeft(qb) + n
            /\ OrderHolds(pb, c) - OrderHolds(ob, c) + LockLeft(qb) + n
                 <= OrderSlack(pb, c) - OrderSlack(ob, c)
        BY <1>18, <3>1, <3>5, <3>8
      <4> QED
        BY <1>18, <3>1, <3>4, <3>7, <4>1, <4>2
    <3>9. CASE c = "LYNX"
      <4>1. /\ Holdings(y.books, c) = Holdings(x.books, c) + a + LockLeft(qs)
            /\ OrderHolds(ps, c) - OrderHolds(os, c) + LockLeft(qs) = 0 - a
        BY <1>17, <3>1, <3>2, <3>3, <3>6, <3>9
      <4>2. /\ 0 <= OrderHolds(pb, c) - OrderHolds(ob, c)
            /\ OrderHolds(pb, c) - OrderHolds(ob, c) <= OrderSlack(pb, c) - OrderSlack(ob, c)
        BY <3>1, <3>5, <3>9
      <4> QED
        BY <1>17, <3>1, <3>4, <3>7, <4>1, <4>2
    <3> QED
      BY <3>8, <3>9 DEF Currency
  <2>31. Balances(x, y)
    BY <2>30 DEF Balances
  <2> QED
    BY <2>28, <2>29, <2>31 DEF y
<1> QED
  BY <1>27, <1>28

-----------------------------------------------------------------------------
(* Matching an order                                                         *)

Crossing(x, i) == OppositeOrders(x.orders, x.orders[i].owner, x.orders[i].side, x.orders[i].price)

\* What a match may have done to the book: fill the order and those it meets.
Matching(x, i, y) ==
  /\ Len(y.orders) = Len(x.orders)
  /\ \A j \in DOMAIN x.orders :
       /\ SameOrder(x.orders[j], y.orders[j])
       /\ IF j = i \/ j \in Crossing(x, i) THEN y.orders[j].status # "CANCELLED"
          ELSE y.orders[j] = x.orders[j]

\* What it has done when nothing was thrown, after it has met the orders of s.
Matched(x, i, s, y) ==
  y.threw = FALSE =>
    /\ Balances(x, y)
    /\ \A j \in DOMAIN x.orders : ~Overspent(x.orders[j]) => ~Overspent(y.orders[j])
    /\ y.orders[i].remaining = 0 \/ \A k \in s : y.orders[k].remaining = 0

LEMMA HoldsInt ==
  ASSUME NEW x \in ExchangeSet, NEW c \in Currency
  PROVE  Holds(x, c) \in Int /\ OrdersSlack(x.orders, c) \in Nat
<1>1. x.books \in BooksSet /\ x.orders \in Seq(Order)
  BY DEF ExchangeSet
<1>2. Holdings(x.books, c) \in Int /\ OrdersHold(x.orders, c) \in Int /\ OrdersSlack(x.orders, c) \in Nat
  BY <1>1, HoldingsInt, OrdersHoldInt
<1> QED
  BY <1>2 DEF Holds

LEMMA BalancesTransitive ==
  ASSUME NEW x \in ExchangeSet, NEW y \in ExchangeSet, NEW z \in ExchangeSet,
         Balances(x, y), Balances(y, z)
  PROVE  Balances(x, z)
<1>1. ASSUME NEW c \in Currency
      PROVE  /\ Holds(x, c) <= Holds(z, c)
             /\ Holds(z, c) - OrdersSlack(z.orders, c) <= Holds(x, c) - OrdersSlack(x.orders, c)
  <2>1. /\ Holds(x, c) \in Int /\ Holds(y, c) \in Int /\ Holds(z, c) \in Int
        /\ OrdersSlack(x.orders, c) \in Nat /\ OrdersSlack(y.orders, c) \in Nat
        /\ OrdersSlack(z.orders, c) \in Nat
    BY HoldsInt
  <2> QED
    BY <2>1 DEF Balances
<1> QED
  BY <1>1 DEF Balances

LEMMA MatchFits ==
  ASSUME NEW x \in ExchangeSet, NEW i \in DOMAIN x.orders, x.orders[i].pair = Pair,
         x.orders[i].status # "CANCELLED",
         NEW y, y = matchLynxOrder(x, i)
  PROVE  y \in ExchangeSet /\ Matching(x, i, y) /\ Matched(x, i, Crossing(x, i), y)
<1> DEFINE S == Crossing(x, i)
           base == Unthrown(x)
           A == {a \in ExchangeSet : Matching(x, i, a)}
<1>1. /\ x.books \in BooksSet /\ x.orders \in Seq(Order) /\ x.trades \in Seq(TradeRecord)
      /\ x.threw \in BOOLEAN
      /\ x = [books |-> x.books, orders |-> x.orders, trades |-> x.trades, threw |-> x.threw]
  BY DEF ExchangeSet
<1>2. /\ DOMAIN x.orders = 1..Len(x.orders) /\ Len(x.orders) \in Nat /\ IsFiniteSet(DOMAIN x.orders)
      /\ DOMAIN x.orders \subseteq Nat /\ \A j \in DOMAIN x.orders : x.orders[j] \in Order
  BY <1>1, OrdersFinite
<1>3. S \subseteq DOMAIN x.orders /\ i \notin S /\ IsFiniteSet(S) /\ S \subseteq Nat
  <2>1. S \subseteq DOMAIN x.orders /\ i \notin S
    BY DEF Crossing, OppositeOrders
  <2> QED
    BY <1>2, <2>1, FS_Subset
<1>4. ASSUME NEW k \in S
      PROVE  /\ x.orders[k].pair = Pair /\ x.orders[k].side = Opposite(x.orders[i].side)
             /\ x.orders[k].status # "CANCELLED" /\ x.orders[k].price \in Nat
  <2>1. x.orders[k].price \in Nat
    BY <1>2, <1>3, OrderTypes
  <2> QED
    BY <2>1 DEF Crossing, OppositeOrders, IsLive
<1>5. base \in ExchangeSet /\ base.orders = x.orders /\ base.books = x.books /\ base.threw = FALSE
  BY <1>1 DEF ExchangeSet, Unthrown
<1>6. base \in A
  <2>1. \A j \in DOMAIN x.orders : SameOrder(x.orders[j], x.orders[j])
    BY DEF SameOrder
  <2> HIDE DEF base
  <2> QED
    BY <1>4, <1>5, <2>1 DEF Matching
<1>7. ASSUME NEW a \in A, NEW k \in S, a.threw = FALSE
      PROVE  CanMeet(a, i, k)
  <2>1. DOMAIN a.orders = DOMAIN x.orders
    <3>1. Len(a.orders) = Len(x.orders) /\ a.orders \in Seq(Order)
      BY DEF Matching, ExchangeSet
    <3> QED
      BY <1>2, <3>1, OrdersFinite
  <2>2. k \in DOMAIN x.orders /\ k # i
    BY <1>3
  <2>3. /\ SameOrder(x.orders[i], a.orders[i]) /\ a.orders[i].status # "CANCELLED"
        /\ SameOrder(x.orders[k], a.orders[k]) /\ a.orders[k].status # "CANCELLED"
    BY <2>2 DEF Matching
  <2> HIDE DEF A, S
  <2> QED
    BY <1>4, <1>7, <2>1, <2>2, <2>3 DEF CanMeet, SameOrder
<1>8. ASSUME NEW a \in A, NEW k \in S
      PROVE  /\ FillNext(a, i, k) \in A
             /\ ~a.threw /\ a.orders[i].remaining # 0 =>
                  LET b == FillNext(a, i, k)
                  IN  /\ \A j \in DOMAIN x.orders \ {i, k} : b.orders[j] = a.orders[j]
                      /\ b.threw = FALSE => /\ b.orders[i].remaining = 0 \/ b.orders[k].remaining = 0
                                            /\ ~Overspent(b.orders[i]) /\ ~Overspent(b.orders[k])
                                            /\ Balances(a, b)
  <2>1. a.threw \in BOOLEAN /\ a \in ExchangeSet /\ Matching(x, i, a)
    BY DEF ExchangeSet
  <2>2. CASE a.threw \/ a.orders[i].remaining = 0
    BY <2>2 DEF FillNext
  <2>3. CASE a.threw = FALSE /\ a.orders[i].remaining # 0
    <3>1. PICK b : b = Fill(a, i, k)
      OBVIOUS
    <3>2. FillNext(a, i, k) = b
      BY <2>3, <3>1 DEF FillNext
    <3>3. CanMeet(a, i, k)
      BY <1>7, <2>3
    <3>4. /\ FillsTwo(a, b, i, k)
          /\ b.threw = FALSE => /\ b.orders[i].remaining = 0 \/ b.orders[k].remaining = 0
                                /\ ~Overspent(b.orders[i]) /\ ~Overspent(b.orders[k])
                                /\ Balances(a, b)
      BY <2>1, <3>1, <3>3, FillFits
    <3>5. DOMAIN a.orders = DOMAIN x.orders
      <4>1. Len(a.orders) = Len(x.orders) /\ a.orders \in Seq(Order)
        BY <2>1 DEF Matching, ExchangeSet
      <4> QED
        BY <1>2, <4>1, OrdersFinite
    <3>6. \A j \in DOMAIN x.orders \ {i, k} : b.orders[j] = a.orders[j]
      BY <3>4, <3>5 DEF FillsTwo
    <3>7. b \in ExchangeSet /\ Matching(x, i, b)
      <4>1. b \in ExchangeSet /\ Len(b.orders) = Len(x.orders)
        BY <2>1, <3>4 DEF FillsTwo, Matching
      <4>2. ASSUME NEW j \in DOMAIN x.orders
            PROVE  /\ SameOrder(x.orders[j], b.orders[j])
                   /\ IF j = i \/ j \in S THEN b.orders[j].status # "CANCELLED"
                      ELSE b.orders[j] = x.orders[j]
        <5>1. /\ SameOrder(x.orders[j], a.orders[j])
              /\ IF j = i \/ j \in S THEN a.orders[j].status # "CANCELLED"
                 ELSE a.orders[j] = x.orders[j]
          BY <2>1 DEF Matching
        <5>2. CASE j \in {i, k}
          <6>1. SameOrder(a.orders[j], b.orders[j]) /\ b.orders[j].status # "CANCELLED"
            BY <3>4, <5>2 DEF FillsTwo
          <6> QED
            BY <5>1, <5>2, <6>1 DEF SameOrder
        <5>3. CASE j \notin {i, k}
          BY <3>6, <5>1, <5>3
        <5> QED
          BY <5>2, <5>3
      <4> QED
        BY <4>1, <4>2 DEF Matching
    <3> QED
      BY <3>2, <3>4, <3>6, <3>7
  <2> QED
    BY <2>1, <2>2, <2>3
<1>9. PICK g \in [SUBSET S -> A] :
           /\ g[{}] = base
           /\ \A s \in SUBSET S : s # {} => \E k \in s : g[s] = FillNext(g[s \ {k}], i, k)
           /\ y = g[S]
  <2>1. S = OppositeOrders(x.orders, x.orders[i].owner, x.orders[i].side, x.orders[i].price)
    BY DEF Crossing
  <2>3. \A k \in S : x.orders[k].price \in Nat
    BY <1>4
  <2>4. \A a \in A, k \in S : FillNext(a, i, k) \in A
    BY <1>8
  <2> HIDE DEF A, S
  <2>5. base = Unthrown(x)
    OBVIOUS
  <2> HIDE DEF base
  <2>6. LoopStays(x, i, S, base, A)
    BY <1>3, <1>6, <2>1, <2>3, <2>4, <2>5 DEF LoopStays
  <2>7. PICK g \in [SUBSET S -> A] : LoopRuns(x, i, S, base, g)
    BY <2>6, MatchLoop
  <2> QED
    BY <2>7 DEF LoopRuns
<1> DEFINE Q == {s \in SUBSET S : Matched(x, i, s, g[s])}
<1>10. {} \in Q
  <2>1. Balances(x, base)
    <3>1. ASSUME NEW c \in Currency
          PROVE  /\ Holds(x, c) <= Holds(base, c)
                 /\ Holds(base, c) - OrdersSlack(base.orders, c) <= Holds(x, c) - OrdersSlack(x.orders, c)
      <4>1. Holds(base, c) = Holds(x, c) /\ Holds(x, c) \in Int
            /\ OrdersSlack(base.orders, c) = OrdersSlack(x.orders, c) /\ OrdersSlack(x.orders, c) \in Nat
        <5> HIDE DEF base
        <5> QED
          BY <1>5, HoldsInt DEF Holds
      <4> HIDE DEF base
      <4> QED
        BY <4>1
    <3> HIDE DEF base
    <3> QED
      BY <3>1 DEF Balances
  <2> HIDE DEF base
  <2> QED
    BY <1>5, <1>9, <2>1 DEF Matched
<1>11. ASSUME NEW s \in SUBSET S, s # {}, \A k \in s : s \ {k} \in Q PROVE s \in Q
  <2>1. PICK k \in s : g[s] = FillNext(g[s \ {k}], i, k)
    BY <1>9, <1>11
  <2>2. PICK a : a = g[s \ {k}]
    OBVIOUS
  <2>3. PICK b : b = g[s]
    OBVIOUS
  <2>4. a \in A /\ b \in A /\ k \in S /\ b = FillNext(a, i, k)
    BY <1>9, <2>1, <2>2, <2>3
  <2>5. Matched(x, i, s \ {k}, a)
    BY <1>11, <2>2
  <2>6. a \in ExchangeSet /\ b \in ExchangeSet /\ a.threw \in BOOLEAN
    BY <2>4 DEF ExchangeSet
  <2>7. CASE a.threw \/ a.orders[i].remaining = 0
    <3>1. b = a
      BY <2>4, <2>7 DEF FillNext
    <3> QED
      BY <2>3, <2>5, <2>6, <2>7, <3>1 DEF Matched
  <2>8. CASE a.threw = FALSE /\ a.orders[i].remaining # 0
    <3>1. /\ \A j \in DOMAIN x.orders \ {i, k} : b.orders[j] = a.orders[j]
          /\ b.threw = FALSE => /\ b.orders[i].remaining = 0 \/ b.orders[k].remaining = 0
                                /\ ~Overspent(b.orders[i]) /\ ~Overspent(b.orders[k])
                                /\ Balances(a, b)
      BY <1>8, <2>4, <2>8
    <3>2. /\ Balances(x, a)
          /\ \A j \in DOMAIN x.orders : ~Overspent(x.orders[j]) => ~Overspent(a.orders[j])
          /\ \A j \in s \ {k} : a.orders[j].remaining = 0
      BY <2>5, <2>8 DEF Matched
    <3>3. SUFFICES ASSUME b.threw = FALSE
                   PROVE  /\ Balances(x, b)
                          /\ \A j \in DOMAIN x.orders : ~Overspent(x.orders[j]) => ~Overspent(b.orders[j])
                          /\ b.orders[i].remaining = 0 \/ \A j \in s : b.orders[j].remaining = 0
      BY <2>3 DEF Matched
    <3>4. Balances(x, b)
      <4> HIDE DEF A, S
      <4> QED
        BY <2>6, <3>1, <3>2, <3>3, BalancesTransitive
    <3>5. \A j \in DOMAIN x.orders : ~Overspent(x.orders[j]) => ~Overspent(b.orders[j])
      <4> HIDE DEF A, S
      <4> QED
        BY <3>1, <3>2, <3>3
    <3>6. b.orders[i].remaining = 0 \/ \A j \in s : b.orders[j].remaining = 0
      <4>1. \A j \in s \ {k} : j \in DOMAIN x.orders \ {i, k}
        BY <1>3
      <4> HIDE DEF A, S
      <4> QED
        BY <3>1, <3>2, <3>3, <4>1
    <3> QED
      BY <3>4, <3>5, <3>6
  <2> QED
    BY <2>6, <2>7, <2>8
<1>12. S \in Q
  <2> HIDE DEF Q, S, A
  <2> QED
    BY <1>3, <1>10, <1>11, SubsetInduction
<1>13. y \in A
  BY <1>9
<1> QED
  BY <1>9, <1>12, <1>13

-----------------------------------------------------------------------------
(* A book with one order more, matched                                       *)

\* BookUncrossed, of some orders.
Uncrossed(os) ==
  \A i, j \in DOMAIN os :
    ( /\ os[i].pair = Pair /\ os[j].pair = Pair
      /\ IsLive(os[i]) /\ IsLive(os[j])
      /\ os[i].side = "BUY" /\ os[j].side = "SELL"
      /\ os[i].owner # os[j].owner
      /\ os[j].locked # NoLock )
    => os[i].price < os[j].price

\* The books are well formed and, but for an exception, no buyer has spent a
\* unit more than its lock and nothing is left to match.
BookFits(x) ==
  /\ x \in ExchangeSet
  /\ x.threw \/ (Uncrossed(x.orders) /\ \A j \in DOMAIN x.orders : ~Overspent(x.orders[j]))

\* A new order, its lock taken from the owner's wallet.
Placed(x, o, c, y) ==
  /\ y = [books |-> debit(x.books, o.owner, c, o.locked), orders |-> Append(x.orders, o),
          trades |-> x.trades, threw |-> x.threw]
  /\ o \in Order /\ o.status = "OPEN" /\ o.spent = 0 /\ o.locked # NoLock /\ o.lockedCurrency = c
  /\ c \in Currency

LEMMA PlacedFits ==
  ASSUME NEW x \in ExchangeSet, NEW o, NEW c, NEW y, Placed(x, o, c, y)
  PROVE  /\ y \in ExchangeSet /\ Balances(x, y)
         /\ DOMAIN y.orders = DOMAIN x.orders \cup {Len(x.orders) + 1} /\ Len(y.orders) = Len(x.orders) + 1
         /\ Len(x.orders) + 1 \notin DOMAIN x.orders /\ y.orders[Len(x.orders) + 1] = o
         /\ \A j \in DOMAIN x.orders : y.orders[j] = x.orders[j]
         /\ ~Overspent(o) /\ y.threw = x.threw
<1> DEFINE n == Len(x.orders) + 1
<1>1. /\ x.books \in BooksSet /\ x.orders \in Seq(Order) /\ x.trades \in Seq(TradeRecord)
      /\ x.threw \in BOOLEAN
  BY DEF ExchangeSet
<1>2. /\ o \in Order /\ o.owner \in Wallets /\ o.locked \in Nat /\ o.locked # NoLock /\ o.spent = 0
      /\ o.status = "OPEN" /\ o.lockedCurrency = c /\ c \in Currency
  BY OrderTypes DEF Placed
<1>3. PICK b : b = debit(x.books, o.owner, c, o.locked)
  OBVIOUS
<1>4. PICK os : os = Append(x.orders, o)
  OBVIOUS
<1>5. y = [books |-> b, orders |-> os, trades |-> x.trades, threw |-> x.threw]
  BY <1>3, <1>4 DEF Placed
<1>6. b \in BooksSet /\ \A d \in Currency :
        Holdings(b, d) = Holdings(x.books, d) - (IF d = c THEN o.locked ELSE 0)
  BY <1>1, <1>2, <1>3, DebitFits
<1>7. /\ os \in Seq(Order) /\ Len(os) = n /\ DOMAIN os = DOMAIN x.orders \cup {n}
      /\ n \notin DOMAIN x.orders /\ n \in DOMAIN os
      /\ os[n] = o /\ \A j \in DOMAIN x.orders : os[j] = x.orders[j]
      /\ \A d \in Currency :
           /\ OrdersHold(os, d) = OrdersHold(x.orders, d) + OrderHolds(o, d)
           /\ OrdersSlack(os, d) = OrdersSlack(x.orders, d) + OrderSlack(o, d)
  <2>1. n = Len(x.orders) + 1
    OBVIOUS
  <2> HIDE DEF n
  <2>2. PICK xo : xo = x.orders
    OBVIOUS
  <2>3. xo \in Seq(Order) /\ o \in Order /\ os = Append(xo, o) /\ n = Len(xo) + 1
    BY <1>1, <1>2, <1>4, <2>1, <2>2
  <2>4. /\ os \in Seq(Order) /\ Len(os) = n /\ DOMAIN os = DOMAIN xo \cup {n}
        /\ n \notin DOMAIN xo /\ n \in DOMAIN os
        /\ os[n] = o /\ \A j \in DOMAIN xo : os[j] = xo[j]
        /\ \A d \in Currency :
             /\ OrdersHold(os, d) = OrdersHold(xo, d) + OrderHolds(o, d)
             /\ OrdersSlack(os, d) = OrdersSlack(xo, d) + OrderSlack(o, d)
    <3>1. /\ os \in Seq(Order) /\ Len(os) = n /\ DOMAIN os = DOMAIN xo \cup {n}
          /\ n \notin DOMAIN xo /\ n \in DOMAIN os
          /\ os[n] = o /\ \A j \in DOMAIN xo : os[j] = xo[j]
      BY <2>3, OrderAppendedTypes
    <3>2. ASSUME NEW d \in Currency
          PROVE  /\ OrdersHold(os, d) = OrdersHold(xo, d) + OrderHolds(o, d)
                 /\ OrdersSlack(os, d) = OrdersSlack(xo, d) + OrderSlack(o, d)
      BY <2>3, HoldsAppended
    <3> QED
      BY <3>1, <3>2
  <2> QED
    BY <2>2, <2>4
<1>8. y \in ExchangeSet
  BY <1>1, <1>5, <1>6, <1>7 DEF ExchangeSet
<1>9. ASSUME NEW d \in Currency
      PROVE  /\ Holds(x, d) <= Holds(y, d)
             /\ Holds(y, d) - OrdersSlack(y.orders, d) <= Holds(x, d) - OrdersSlack(x.orders, d)
  <2>1. OrderHolds(o, d) = IF d = c THEN o.locked ELSE 0
    BY <1>2 DEF OrderHolds, Closed
  <2>2. OrderSlack(o, d) = 0
    BY <1>2 DEF OrderSlack, Closed
  <2>3. /\ Holds(x, d) = Holdings(x.books, d) + OrdersHold(x.orders, d)
        /\ Holds(y, d) = Holdings(b, d) + OrdersHold(os, d) /\ y.orders = os
    BY <1>5 DEF Holds
  <2>4. /\ Holdings(x.books, d) \in Int /\ OrdersHold(x.orders, d) \in Int
        /\ OrdersSlack(x.orders, d) \in Int
    BY <1>1, HoldingsInt, OrdersHoldInt
  <2>5. /\ Holdings(b, d) = Holdings(x.books, d) - (IF d = c THEN o.locked ELSE 0)
        /\ OrdersHold(os, d) = OrdersHold(x.orders, d) + OrderHolds(o, d)
        /\ OrdersSlack(os, d) = OrdersSlack(x.orders, d) + OrderSlack(o, d)
    BY <1>6, <1>7
  <2> QED
    BY <1>2, <2>1, <2>2, <2>3, <2>4, <2>5
<1>10. Balances(x, y)
  BY <1>9 DEF Balances
<1>11. ~Overspent(o)
  BY <1>2 DEF Overspent
<1> QED
  BY <1>5, <1>7, <1>8, <1>10, <1>11

\* An order of the book placed and matched.
\* Orders of a prediction market stay what they are.
KeepsLocks(x, y) ==
  \A j \in DOMAIN y.orders :
    y.orders[j].pair = Pair \/ (j \in DOMAIN x.orders /\ SameOrder(x.orders[j], y.orders[j]))

\* What a step of the book does.
BookMoves(x, y) ==
  /\ BookFits(y) /\ (y.threw \/ Balances(x, y)) /\ KeepsLocks(x, y)
  /\ x.threw => y.threw

LEMMA SubmitFits ==
  ASSUME NEW x, BookFits(x), NEW o, NEW c, NEW p, Placed(x, o, c, p), o.pair = Pair,
         NEW z, z = matchLynxOrder(p, Len(p.orders)),
         NEW y, y = [books |-> z.books, orders |-> z.orders, trades |-> z.trades,
                     threw |-> z.threw \/ x.threw]
  PROVE  BookMoves(x, y) /\ z \in ExchangeSet
<1>1. /\ x \in ExchangeSet /\ x.threw \in BOOLEAN
      /\ x.threw \/ (Uncrossed(x.orders) /\ \A j \in DOMAIN x.orders : ~Overspent(x.orders[j]))
  BY DEF BookFits, ExchangeSet
<1>2. PICK n : n = Len(x.orders) + 1
  OBVIOUS
<1>3. /\ p \in ExchangeSet /\ Balances(x, p)
      /\ DOMAIN p.orders = DOMAIN x.orders \cup {n} /\ Len(p.orders) = n
      /\ n \notin DOMAIN x.orders /\ p.orders[n] = o
      /\ \A j \in DOMAIN x.orders : p.orders[j] = x.orders[j]
      /\ ~Overspent(o)
  BY <1>1, <1>2, PlacedFits
<1>4. o \in Order /\ o.status = "OPEN" /\ o.locked # NoLock /\ o.price \in Nat
      /\ o.side \in {"BUY", "SELL"}
  BY OrderTypes DEF Placed
<1>5. z \in ExchangeSet /\ Matching(p, n, z) /\ Matched(p, n, Crossing(p, n), z)
  BY <1>3, <1>4, MatchFits
<1>6. /\ z.books \in BooksSet /\ z.orders \in Seq(Order) /\ z.trades \in Seq(TradeRecord)
      /\ z.threw \in BOOLEAN
  BY <1>5 DEF ExchangeSet
<1>7. y \in ExchangeSet /\ y.orders = z.orders /\ y.books = z.books
      /\ y.threw = (z.threw \/ x.threw)
  BY <1>1, <1>6 DEF ExchangeSet
<1>8. DOMAIN z.orders = DOMAIN p.orders
  <2>1. Len(z.orders) = Len(p.orders) /\ z.orders \in Seq(Order) /\ p.orders \in Seq(Order)
    BY <1>3, <1>5 DEF ExchangeSet, Matching
  <2> QED
    BY <2>1, OrdersFinite
<1>11. KeepsLocks(x, y)
  <2>1. ASSUME NEW j \in DOMAIN y.orders
        PROVE  y.orders[j].pair = Pair \/ (j \in DOMAIN x.orders /\ SameOrder(x.orders[j], y.orders[j]))
    <3>1. j \in DOMAIN p.orders /\ SameOrder(p.orders[j], y.orders[j])
      BY <1>5, <1>7, <1>8 DEF Matching
    <3>2. CASE j = n
      BY <1>3, <3>1, <3>2 DEF SameOrder
    <3>3. CASE j # n
      BY <1>3, <3>1, <3>3
    <3> QED
      BY <3>2, <3>3
  <2> QED
    BY <2>1 DEF KeepsLocks
<1>9. CASE z.threw \/ x.threw
  BY <1>5, <1>7, <1>9, <1>11 DEF BookFits, BookMoves
<1>10. CASE z.threw = FALSE /\ x.threw = FALSE
  <2>1. /\ Balances(p, z)
        /\ \A j \in DOMAIN p.orders : ~Overspent(p.orders[j]) => ~Overspent(z.orders[j])
        /\ z.orders[n].remaining = 0 \/ \A k \in Crossing(p, n) : z.orders[k].remaining = 0
    BY <1>5, <1>10 DEF Matched
  <2>2. Balances(x, y)
    <3>1. Balances(x, z)
      BY <1>1, <1>3, <1>5, <2>1, BalancesTransitive
    <3>2. \A d \in Currency : Holds(y, d) = Holds(z, d)
      BY <1>7 DEF Holds
    <3> QED
      BY <1>7, <3>1, <3>2 DEF Balances
  <2>3. \A j \in DOMAIN y.orders : ~Overspent(y.orders[j])
    BY <1>1, <1>3, <1>7, <1>8, <1>10, <2>1
  <2>4. ASSUME NEW j \in DOMAIN p.orders
        PROVE  /\ SameOrder(p.orders[j], y.orders[j])
               /\ j # n /\ IsLive(y.orders[j]) => IsLive(p.orders[j])
    <3>1. /\ SameOrder(p.orders[j], y.orders[j])
          /\ j \in Crossing(p, n) \/ j = n \/ y.orders[j] = p.orders[j]
      BY <1>5, <1>7 DEF Matching
    <3>2. j \in Crossing(p, n) => IsLive(p.orders[j])
      BY DEF Crossing, OppositeOrders
    <3> QED
      BY <3>1, <3>2
  <2>5. ASSUME NEW i \in DOMAIN y.orders, NEW j \in DOMAIN y.orders,
               y.orders[i].pair = Pair, y.orders[j].pair = Pair,
               IsLive(y.orders[i]), IsLive(y.orders[j]),
               y.orders[i].side = "BUY", y.orders[j].side = "SELL",
               y.orders[i].owner # y.orders[j].owner, y.orders[j].locked # NoLock
        PROVE  y.orders[i].price < y.orders[j].price
    <3>1. /\ i \in DOMAIN p.orders /\ j \in DOMAIN p.orders
          /\ SameOrder(p.orders[i], y.orders[i]) /\ SameOrder(p.orders[j], y.orders[j])
      BY <1>7, <1>8, <2>4
    <3>2. /\ p.orders[i].pair = Pair /\ p.orders[j].pair = Pair
          /\ p.orders[i].side = "BUY" /\ p.orders[j].side = "SELL"
          /\ p.orders[i].owner # p.orders[j].owner /\ p.orders[j].locked # NoLock
          /\ p.orders[i].price = y.orders[i].price /\ p.orders[j].price = y.orders[j].price
      BY <2>5, <3>1 DEF SameOrder
    <3>3. p.orders[i].price \in Nat /\ p.orders[j].price \in Nat
      <4>1. p.orders[i] \in Order /\ p.orders[j] \in Order
        BY <1>3, <3>1, OrdersFinite DEF ExchangeSet
      <4> QED
        BY <4>1, OrderTypes
    <3>4. IsLive(y.orders[i]) => y.orders[i].remaining # 0
      <4>1. y.orders[i] \in Order
        BY <1>7, <2>5, OrdersFinite DEF ExchangeSet
      <4> QED
        BY <4>1, OrderTypes DEF IsLive
    <3>5. IsLive(y.orders[j]) => y.orders[j].remaining # 0
      <4>1. y.orders[j] \in Order
        BY <1>7, <2>5, OrdersFinite DEF ExchangeSet
      <4> QED
        BY <4>1, OrderTypes DEF IsLive
    <3>6. CASE i # n /\ j # n
      <4>1. /\ i \in DOMAIN x.orders /\ j \in DOMAIN x.orders
            /\ p.orders[i] = x.orders[i] /\ p.orders[j] = x.orders[j]
        BY <1>3, <3>1, <3>6
      <4>2. IsLive(x.orders[i]) /\ IsLive(x.orders[j])
        BY <2>4, <2>5, <3>1, <3>6, <4>1
      <4>3. Uncrossed(x.orders)
        BY <1>1, <1>10
      <4> QED
        BY <3>2, <4>1, <4>2, <4>3 DEF Uncrossed
    <3>7. CASE i = n
      <4>1. j # n /\ IsLive(p.orders[j])
        BY <2>4, <2>5, <3>1, <3>2, <3>7
      <4>2. j \notin Crossing(p, n)
        BY <1>7, <2>1, <2>5, <3>4, <3>5, <3>7
      <4>3. ~Within("BUY", p.orders[j].price, p.orders[n].price)
        BY <3>1, <3>2, <3>7, <4>1, <4>2 DEF Crossing, OppositeOrders, Opposite
      <4> QED
        BY <3>2, <3>3, <3>7, <4>3 DEF Within
    <3>8. CASE j = n
      <4>1. i # n /\ IsLive(p.orders[i])
        BY <2>4, <2>5, <3>1, <3>2, <3>8
      <4>2. i \notin Crossing(p, n)
        BY <1>7, <2>1, <2>5, <3>4, <3>5, <3>8
      <4>3. ~Within("SELL", p.orders[i].price, p.orders[n].price)
        BY <3>1, <3>2, <3>8, <4>1, <4>2 DEF Crossing, OppositeOrders, Opposite
      <4> QED
        BY <3>2, <3>3, <3>8, <4>3 DEF Within
    <3> QED
      BY <3>6, <3>7, <3>8
  <2>6. Uncrossed(y.orders)
    BY <2>5 DEF Uncrossed
  <2> QED
    BY <1>5, <1>7, <1>10, <1>11, <2>2, <2>3, <2>6 DEF BookFits, BookMoves
<1> QED
  BY <1>1, <1>5, <1>6, <1>9, <1>10

-----------------------------------------------------------------------------
(* The operations on the book                                                *)

LevelSet(amount) == [left : 0..amount, worst : Nat, notional : Nat]

LEMMA WalkLevelIn ==
  ASSUME NEW amount \in Nat, NEW acc \in LevelSet(amount), NEW maker \in Order
  PROVE  WalkLevel(acc, maker) \in LevelSet(amount)
<1>1. acc.left \in 0..amount /\ acc.worst \in Nat /\ acc.notional \in Nat
  BY DEF LevelSet
<1>2. maker.remaining \in Nat /\ maker.price \in Nat
  BY OrderTypes
<1>3. PICK take : take = IF acc.left < maker.remaining THEN acc.left ELSE maker.remaining
  OBVIOUS
<1>4. take \in Nat /\ take <= acc.left /\ acc.left - take \in 0..amount
  BY <1>1, <1>2, <1>3
<1>5. PICK paid : paid = roundAmount(take * maker.price, PriceUnit)
  OBVIOUS
<1>6. paid \in Nat
  <2>1. take * maker.price \in Nat /\ PriceUnit \in Nat \ {0}
    BY <1>2, <1>4, LedgerAssumption
  <2> QED
    BY <1>5, <2>1, RoundFits
<1>7. WalkLevel(acc, maker) =
        IF acc.left = 0 THEN acc
        ELSE [left |-> acc.left - take, worst |-> maker.price, notional |-> acc.notional + paid]
  BY <1>3, <1>5 DEF WalkLevel
<1> QED
  BY <1>1, <1>2, <1>4, <1>6, <1>7 DEF LevelSet

\* What a market order finds on the book.
LEMMA WalkIn ==
  ASSUME orders \in Seq(Order), NEW w, NEW side, NEW amount \in Nat, NEW bound
  PROVE  Walk(w, side, amount, bound) \in LevelSet(amount)
<1> DEFINE S == OppositeOrders(orders, w, side, bound)
           A == LevelSet(amount)
           base == [left |-> amount, worst |-> 0, notional |-> 0]
           W(s) == Worst(orders, side, s)
           Body(g) == [s \in SUBSET S |-> IF s = {} THEN base
                                        ELSE WalkLevel(g[s \ {W(s)}], orders[W(s)])]
           F == CHOOSE g : g = Body(g)
           step == [p \in A \X S |-> WalkLevel(p[1], orders[p[2]])]
           last == [s \in SUBSET S |-> W(s)]
<1>1. Walk(w, side, amount, bound) = F[S]
  BY DEF Walk, FoldBestFirst, MapThenFoldSet
<1>a. /\ S \subseteq DOMAIN orders /\ S \subseteq Nat /\ IsFiniteSet(S)
      /\ \A k \in S : orders[k] \in Order /\ orders[k].price \in Nat
  <2>1. IsFiniteSet(DOMAIN orders) /\ DOMAIN orders \subseteq Nat
        /\ \A k \in DOMAIN orders : orders[k] \in Order
    BY OrdersFinite
  <2>2. S \subseteq DOMAIN orders
    BY DEF OppositeOrders
  <2> HIDE DEF S
  <2>3. IsFiniteSet(S)
    BY <2>1, <2>2, FS_Subset
  <2>4. \A k \in S : orders[k].price \in Nat
    BY <2>1, <2>2, OrderTypes
  <2> QED
    BY <2>1, <2>2, <2>3, <2>4
<1>b. base \in A
  BY DEF LevelSet
<1>c. \A a \in A, k \in S : WalkLevel(a, orders[k]) \in A
  BY <1>a, WalkLevelIn
<1> HIDE DEF S, A, base
<1>2. ASSUME NEW s \in SUBSET S, s # {} PROVE W(s) \in s /\ last[s] = W(s)
  <2>1. IsFiniteSet(s)
    BY <1>a, FS_Subset
  <2> QED
    BY <1>a, <1>2, <2>1, WorstIn
<1>3. PICK g \in [SUBSET S -> A] : IsFold(S, base, step, last, g)
  <2>1. step \in [A \X S -> A] /\ base \in A
    BY <1>b, <1>c
  <2>2. ASSUME NEW s \in SUBSET S, s # {} PROVE last[s] \in s
    BY <1>2, <2>2
  <2> HIDE DEF step, last
  <2> QED
    BY <1>a, <2>1, <2>2, FoldExists
<1> HIDE DEF W
<1>4. ASSUME NEW s \in SUBSET S, s # {}
      PROVE  g[s] = WalkLevel(g[s \ {W(s)}], orders[W(s)]) /\ g[s] \in A
  <2>1. g[s] = step[<<g[s \ {last[s]}], last[s]>>]
    BY <1>3, <1>4 DEF IsFold
  <2>2. W(s) \in S /\ g[s \ {W(s)}] \in A /\ last[s] = W(s)
    BY <1>2, <1>3, <1>4
  <2> QED
    BY <1>3, <2>1, <2>2
<1>5. g = Body(g)
  BY <1>3, <1>4 DEF IsFold
<1>6. F = Body(F)
  <2> HIDE DEF Body
  <2> QED
    BY <1>5
<1> HIDE DEF F
<1>7. ASSUME NEW s \in SUBSET S, s # {} PROVE F[s] = WalkLevel(F[s \ {W(s)}], orders[W(s)])
  BY <1>6, <1>7
<1>8. F[S] \in A
  <2> DEFINE Q == {t \in SUBSET S : F[t] \in A}
  <2>1. {} \in Q
    BY <1>b, <1>6
  <2>2. ASSUME NEW t \in SUBSET S, t # {}, \A k \in t : t \ {k} \in Q PROVE t \in Q
    <3>1. W(t) \in t
      BY <1>2, <2>2
    <3>2. F[t] = WalkLevel(F[t \ {W(t)}], orders[W(t)])
      BY <1>7, <2>2
    <3>3. F[t \ {W(t)}] \in A /\ W(t) \in S
      BY <2>2, <3>1
    <3>4. F[t] \in A
      BY <1>c, <3>2, <3>3
    <3> QED
      BY <2>2, <3>4
  <2>3. S \in Q
    <3> HIDE DEF Q
    <3> QED
      BY <1>a, <2>1, <2>2, SubsetInduction
  <2> QED
    BY <2>3
<1> QED
  BY <1>1, <1>8 DEF A

LEMMA ExchangeTypes ==
  ASSUME Exchange \in ExchangeSet
  PROVE  /\ Books \in BooksSet /\ orders \in Seq(Order) /\ trades \in Seq(TradeRecord)
         /\ threw \in BOOLEAN /\ Exchange.books = Books /\ Exchange.orders = orders
         /\ Exchange.trades = trades /\ Exchange.threw = threw
BY DEF Exchange, ExchangeSet

LEMMA ExchangeBecomes ==
  ASSUME NEW x, x \in ExchangeSet, SetExchange(x)
  PROVE  Exchange' = x
<1>1. /\ x = [books |-> x.books, orders |-> x.orders, trades |-> x.trades, threw |-> x.threw]
      /\ x.books = [wallets |-> x.books.wallets, treasury |-> x.books.treasury]
  BY DEF ExchangeSet, BooksSet
<1>2. /\ wallets' = x.books.wallets /\ treasury' = x.books.treasury
      /\ orders' = x.orders /\ trades' = x.trades /\ threw' = x.threw
  BY DEF SetExchange, SetBooks
<1> QED
  BY <1>1, <1>2 DEF Exchange, Books

\* The order a client's request becomes.
LEMMA NewOrderFits ==
  ASSUME NEW w \in Wallets, NEW side \in {"BUY", "SELL"}, NEW amount \in Nat \ {0}, NEW price \in Nat,
         NEW lock, lock.c = (IF side = "BUY" THEN "SOL" ELSE "LYNX"), lock.amount \in Nat,
         side = "SELL" => lock.amount = amount,
         NEW o, o = NewOrder(w, side, amount, price, lock)
  PROVE  /\ o \in Order /\ o.status = "OPEN" /\ o.spent = 0 /\ o.locked # NoLock
         /\ o.lockedCurrency = lock.c /\ lock.c \in Currency /\ o.pair = Pair
         /\ o.owner = w /\ o.locked = lock.amount /\ o.price = price /\ o.side = side
<1>1. lock.c \in Currency /\ lock.amount # NoLock
  BY BookAssumption DEF Currency
<1>2. o = [pair |-> Pair, owner |-> w, side |-> side, position |-> "NONE", amount |-> amount,
           remaining |-> amount, price |-> price, status |-> "OPEN",
           lockedCurrency |-> lock.c, locked |-> lock.amount, spent |-> 0]
  BY DEF NewOrder
<1>3. o \in OrderRecord
  BY <1>1, <1>2 DEF OrderRecord, Resting
<1>4. OrderFits(o)
  BY <1>1, <1>2 DEF OrderFits, Resting
<1> QED
  BY <1>1, <1>2, <1>3, <1>4 DEF Order

\* Both ways to place an order on the book come down to this.
LEMMA PlaceFits ==
  ASSUME BookFits(Exchange), NEW w \in Wallets, NEW side \in {"BUY", "SELL"},
         NEW amount \in Nat \ {0}, NEW price \in Nat,
         NEW lock, lock.c = (IF side = "BUY" THEN "SOL" ELSE "LYNX"), lock.amount \in Nat,
         side = "SELL" => lock.amount = amount,
         NEW p, p = [Exchange EXCEPT
                       !.books = debit(Exchange.books, w, lock.c, lock.amount),
                       !.orders = Append(Exchange.orders, NewOrder(w, side, amount, price, lock))],
         NEW z, z = matchLynxOrder(p, Len(p.orders)),
         SetExchange([z EXCEPT !.threw = z.threw \/ threw])
  PROVE  BookMoves(Exchange, Exchange')
<1>1. Exchange \in ExchangeSet
  BY DEF BookFits
<1>2. PICK o : o = NewOrder(w, side, amount, price, lock)
  OBVIOUS
<1>3. /\ o \in Order /\ o.status = "OPEN" /\ o.spent = 0 /\ o.locked # NoLock
      /\ o.lockedCurrency = lock.c /\ lock.c \in Currency /\ o.pair = Pair
      /\ o.owner = w /\ o.locked = lock.amount
  BY <1>2, NewOrderFits
<1>4. PICK x : x = Exchange
  OBVIOUS
<1>5. x = [books |-> x.books, orders |-> x.orders, trades |-> x.trades, threw |-> x.threw]
  BY <1>4 DEF Exchange
<1>6. PICK b : b = debit(x.books, w, lock.c, lock.amount)
  OBVIOUS
<1>7. PICK os : os = Append(x.orders, o)
  OBVIOUS
<1>8. p = [x EXCEPT !.books = b, !.orders = os]
  BY <1>2, <1>4, <1>6, <1>7
<1>9. p = [books |-> b, orders |-> os, trades |-> x.trades, threw |-> x.threw]
  BY <1>5, <1>8
<1>10. Placed(x, o, lock.c, p)
  BY <1>3, <1>6, <1>7, <1>9 DEF Placed
<1>14. PICK y : y = [books |-> z.books, orders |-> z.orders, trades |-> z.trades,
                     threw |-> z.threw \/ x.threw]
  OBVIOUS
<1>15. BookMoves(x, y) /\ z \in ExchangeSet
  BY <1>3, <1>4, <1>10, <1>14, SubmitFits
<1>13. z = [books |-> z.books, orders |-> z.orders, trades |-> z.trades, threw |-> z.threw]
       /\ z.threw \in BOOLEAN
  BY <1>15 DEF ExchangeSet
<1>16. threw = x.threw
  BY <1>4 DEF Exchange
<1>17. [z EXCEPT !.threw = z.threw \/ threw] = y
  BY <1>13, <1>14, <1>16
<1>18. Exchange' = y
  <2>1. y \in ExchangeSet /\ SetExchange(y)
    BY <1>15, <1>17 DEF BookFits, BookMoves
  <2> QED
    BY <2>1, ExchangeBecomes
<1> QED
  BY <1>4, <1>15, <1>18

LEMMA PlaceOrderFits ==
  ASSUME BookFits(Exchange), NEW w \in Wallets, NEW side \in {"BUY", "SELL"},
         NEW amount \in BookAmounts, NEW price \in BookPrices, placeOrder(w, side, amount, price)
  PROVE  BookMoves(Exchange, Exchange')
<1>1. PICK lock : lock = LockFor(side, amount, price)
  OBVIOUS
<1>2. PICK p : p = [Exchange EXCEPT
                      !.books = debit(Exchange.books, w, lock.c, lock.amount),
                      !.orders = Append(Exchange.orders, NewOrder(w, side, amount, price, lock))]
  OBVIOUS
<1>3. PICK z : z = matchLynxOrder(p, Len(p.orders))
  OBVIOUS
<1>4. SetExchange([z EXCEPT !.threw = z.threw \/ threw])
  BY <1>1, <1>2, <1>3 DEF placeOrder, Submit
<1>5. amount \in Nat \ {0} /\ price \in Nat /\ PriceUnit \in Nat \ {0}
  BY BookAssumption, LedgerAssumption
<1>6. /\ lock.c = (IF side = "BUY" THEN "SOL" ELSE "LYNX") /\ lock.amount \in Nat
      /\ side = "SELL" => lock.amount = amount
  <2>1. amount * price \in Nat
    BY <1>5
  <2>2. roundAmount(amount * price, PriceUnit) \in Nat
    BY <1>5, <2>1, RoundFits
  <2> QED
    BY <1>1, <1>5, <2>2 DEF LockFor
<1> QED
  BY <1>2, <1>3, <1>4, <1>5, <1>6, PlaceFits

LEMMA MarketOrderFits ==
  ASSUME BookFits(Exchange), NEW w \in Wallets, NEW side \in {"BUY", "SELL"},
         NEW amount \in BookAmounts, NEW bound, placeLynxMarketOrder(w, side, amount, bound)
  PROVE  BookMoves(Exchange, Exchange')
<1>1. PICK walk : walk = Walk(w, side, amount, bound)
  OBVIOUS
<1>2. PICK fillable : fillable = amount - walk.left
  OBVIOUS
<1>3. PICK lock : lock = IF side = "BUY" THEN [c |-> "SOL", amount |-> walk.notional]
                         ELSE [c |-> "LYNX", amount |-> fillable]
  OBVIOUS
<1>4. PICK p : p = [Exchange EXCEPT
                      !.books = debit(Exchange.books, w, lock.c, lock.amount),
                      !.orders = Append(Exchange.orders,
                                        NewOrder(w, side, fillable, walk.worst, lock))]
  OBVIOUS
<1>5. PICK z : z = matchLynxOrder(p, Len(p.orders))
  OBVIOUS
<1>6. SetExchange([z EXCEPT !.threw = z.threw \/ threw]) /\ fillable > 0
  BY <1>1, <1>2, <1>3, <1>4, <1>5 DEF placeLynxMarketOrder
<1>7. amount \in Nat
  BY BookAssumption
<1>8. walk \in LevelSet(amount)
  <2>1. orders \in Seq(Order)
    BY ExchangeTypes DEF BookFits
  <2> QED
    BY <1>1, <1>7, <2>1, WalkIn
<1>9. fillable \in Nat \ {0} /\ walk.worst \in Nat /\ walk.notional \in Nat
  BY <1>2, <1>6, <1>7, <1>8 DEF LevelSet
<1>10. /\ lock.c = (IF side = "BUY" THEN "SOL" ELSE "LYNX") /\ lock.amount \in Nat
       /\ side = "SELL" => lock.amount = fillable
  BY <1>3, <1>9
<1>11. PICK price : price = walk.worst
  OBVIOUS
<1>12. price \in Nat /\ p = [Exchange EXCEPT
                      !.books = debit(Exchange.books, w, lock.c, lock.amount),
                      !.orders = Append(Exchange.orders, NewOrder(w, side, fillable, price, lock))]
  BY <1>4, <1>9, <1>11
<1> QED
  BY <1>5, <1>6, <1>9, <1>10, <1>12, PlaceFits

-----------------------------------------------------------------------------
(* Cancelling, and every step of the book                                    *)

LEMMA CancelledFits ==
  ASSUME NEW o \in Order, o.status \in Resting, NEW locked,
         locked = (IF o.locked = NoLock THEN o.locked ELSE o.spent),
         NEW q, q = [o EXCEPT !.status = "CANCELLED", !.locked = locked]
  PROVE  /\ q \in Order /\ q.status = "CANCELLED"
         /\ Refund(o).c \in Currency /\ Refund(o).amount \in Nat
         /\ ~Overspent(o) => \A c \in Currency :
              LET more == OrderHolds(q, c) - OrderHolds(o, c)
                          + (IF c = Refund(o).c THEN Refund(o).amount ELSE 0)
              IN  0 <= more /\ more <= OrderSlack(q, c) - OrderSlack(o, c)
<1>1. /\ o \in OrderRecord /\ OrderFits(o) /\ o.remaining \in Nat
      /\ o.lockedCurrency \in Currency /\ o.locked \in Nat \cup {NoLock} /\ o.spent \in Nat
      /\ o.status \notin Closed /\ o.pair \in Markets \cup {Pair} /\ o.side \in {"BUY", "SELL"}
  BY OrderTypes DEF Resting, Closed
<1>2. locked \in Nat \cup {NoLock} /\ "CANCELLED" \in Resting \cup Closed
  BY <1>1 DEF Closed
<1>3. /\ q \in OrderRecord /\ q.status = "CANCELLED" /\ q.locked = locked /\ q.spent = o.spent
      /\ SameOrder(o, q) /\ q.remaining = o.remaining
  <2>1. q \in OrderRecord /\ q.status = "CANCELLED" /\ q.locked = locked /\ q.spent = o.spent
    BY <1>1, <1>2 DEF OrderRecord
  <2>2. locked = NoLock <=> o.locked = NoLock
    BY <1>1, BookAssumption
  <2> QED
    BY <1>1, <2>1, <2>2 DEF SameOrder, OrderRecord
<1>4. OrderFits(q)
  BY <1>1, <1>3 DEF OrderFits, SameOrder, Resting
<1>5. Refund(o).c \in Currency /\ Refund(o).amount \in Nat
  BY <1>1 DEF Refund, Currency
<1>6. ASSUME ~Overspent(o), NEW c \in Currency
      PROVE  LET more == OrderHolds(q, c) - OrderHolds(o, c)
                         + (IF c = Refund(o).c THEN Refund(o).amount ELSE 0)
             IN  0 <= more /\ more <= OrderSlack(q, c) - OrderSlack(o, c)
  <2>1. OrderHolds(q, c) = 0 /\ OrderSlack(o, c) = 0
    BY <1>1, <1>3 DEF OrderHolds, OrderSlack, Closed
  <2>2. CASE o.locked = NoLock
    <3>1. OrderHolds(o, c) = (IF c = "LYNX" THEN o.remaining ELSE 0)
      BY <1>1, <2>2 DEF OrderHolds
    <3>2. Refund(o).c = "LYNX" /\ Refund(o).amount = o.remaining
      BY <2>2 DEF Refund
    <3>3. OrderSlack(q, c) \in {0, 1}
      BY DEF OrderSlack
    <3> QED
      BY <1>1, <2>1, <3>1, <3>2, <3>3
  <2>3. CASE o.locked # NoLock
    <3>1. OrderHolds(o, c) = (IF o.lockedCurrency = c THEN o.locked - o.spent ELSE 0)
      BY <1>1, <2>3 DEF OrderHolds
    <3>2. /\ Refund(o).c = o.lockedCurrency
          /\ Refund(o).amount = IF o.locked > o.spent THEN o.locked - o.spent ELSE 0
      BY <2>3 DEF Refund
    <3>3. o.locked \in Nat
      BY <1>1, <2>3
    <3>4. OrderSlack(q, c) \in {0, 1}
      BY DEF OrderSlack
    <3>5. CASE o.locked >= o.spent
      BY <1>1, <2>1, <3>1, <3>2, <3>3, <3>4, <3>5
    <3>6. CASE o.locked < o.spent
      <4>1. o.pair = Pair /\ o.side = "BUY" /\ o.lockedCurrency = "SOL"
        BY <1>1, <2>3, <3>3, <3>6 DEF OrderFits
      <4>2. o.spent <= o.locked + 1
        BY <1>1, <1>6, <3>3, <4>1 DEF Overspent
      <4>3. OrderSlack(q, c) = IF c = "SOL" THEN 1 ELSE 0
        BY <1>3, <4>1 DEF OrderSlack, SameOrder, Closed
      <4> QED
        BY <1>1, <2>1, <3>1, <3>2, <3>3, <3>6, <4>1, <4>2, <4>3
    <3> QED
      BY <1>1, <3>3, <3>5, <3>6
  <2> QED
    BY <2>2, <2>3
<1> QED
  BY <1>3, <1>4, <1>5, <1>6 DEF Order

LEMMA CancelFits ==
  ASSUME BookFits(Exchange), NEW i \in DOMAIN orders, cancelOrder(i)
  PROVE  BookMoves(Exchange, Exchange')
<1>1. /\ Exchange \in ExchangeSet
      /\ threw \/ (Uncrossed(orders) /\ \A j \in DOMAIN orders : ~Overspent(orders[j]))
  BY ExchangeTypes DEF BookFits
<1>2. /\ Books \in BooksSet /\ orders \in Seq(Order) /\ trades \in Seq(TradeRecord) /\ threw \in BOOLEAN
      /\ Exchange.books = Books /\ Exchange.orders = orders
  BY <1>1, ExchangeTypes
<1>3. PICK o : o = orders[i]
  OBVIOUS
<1>4. PICK locked : locked = IF o.locked = NoLock THEN o.locked ELSE o.spent
  OBVIOUS
<1>5. PICK q : q = [o EXCEPT !.status = "CANCELLED", !.locked = locked]
  OBVIOUS
<1>6. PICK os : os = [orders EXCEPT ![i] = q]
  OBVIOUS
<1>7. o \in Order /\ o.status \in Resting /\ o.owner \in Wallets
  <2>1. o \in Order
    BY <1>2, <1>3, OrdersFinite
  <2>2. o.status \notin {"FILLED", "CANCELLED"}
    BY <1>3 DEF cancelOrder
  <2> QED
    BY <2>1, <2>2, OrderTypes DEF Closed
<1>8. /\ q \in Order /\ q.status = "CANCELLED"
      /\ Refund(o).c \in Currency /\ Refund(o).amount \in Nat
      /\ ~Overspent(o) => \A c \in Currency :
              LET more == OrderHolds(q, c) - OrderHolds(o, c)
                          + (IF c = Refund(o).c THEN Refund(o).amount ELSE 0)
              IN  0 <= more /\ more <= OrderSlack(q, c) - OrderSlack(o, c)
  BY <1>4, <1>5, <1>7, CancelledFits
<1>9. PICK rc : rc = Refund(o).c
  OBVIOUS
<1>10. PICK ra : ra = Refund(o).amount
  OBVIOUS
<1>11. PICK b : b = credit(Books, o.owner, rc, ra)
  OBVIOUS
<1>12. b \in BooksSet /\ \A d \in Currency :
         Holdings(b, d) = Holdings(Books, d) + (IF d = rc THEN ra ELSE 0)
  <2>1. rc \in Currency /\ ra \in Int
    BY <1>8, <1>9, <1>10
  <2> QED
    BY <1>2, <1>7, <1>11, <2>1, CreditFits
<1>13. /\ os \in Seq(Order) /\ DOMAIN os = DOMAIN orders
       /\ os[i] = q /\ \A j \in DOMAIN orders \ {i} : os[j] = orders[j]
  BY <1>2, <1>6, <1>8, OrderReplacedTypes
<1>14. /\ orders' = os /\ SetBooks(b) /\ trades' = trades /\ threw' = threw
  <2>1. orders' = [orders EXCEPT ![i].status = "CANCELLED",
                                 ![i].locked = IF o.locked = NoLock THEN orders[i].locked ELSE o.spent]
    BY <1>3 DEF cancelOrder
  <2>2. orders' = [orders EXCEPT ![i] = [[o EXCEPT !.status = "CANCELLED"] EXCEPT !.locked = locked]]
    BY <1>3, <1>4, <2>1
  <2>3. orders' = os
    BY <1>5, <1>6, <2>2
  <2> QED
    BY <1>3, <1>9, <1>10, <1>11, <2>3 DEF cancelOrder
<1>15. PICK y : y = [books |-> b, orders |-> os, trades |-> trades, threw |-> threw]
  OBVIOUS
<1>16. y \in ExchangeSet
  BY <1>2, <1>12, <1>13, <1>15 DEF ExchangeSet
<1>17. Exchange' = y
  <2>1. SetExchange(y)
    BY <1>14, <1>15 DEF SetExchange
  <2> QED
    BY <1>16, <2>1, ExchangeBecomes
<1>20. KeepsLocks(Exchange, y)
  <2>1. SameOrder(o, q)
    BY <1>4, <1>5, <1>7, BookAssumption, OrderTypes DEF SameOrder, Order, OrderRecord
  <2>2. ASSUME NEW j \in DOMAIN os PROVE SameOrder(orders[j], os[j])
    <3>1. CASE j = i
      BY <1>3, <1>13, <2>1, <3>1
    <3>2. CASE j # i
      BY <1>13, <3>2 DEF SameOrder
    <3> QED
      BY <3>1, <3>2
  <2> QED
    BY <1>2, <1>13, <1>15, <2>2 DEF KeepsLocks
<1>21. Exchange.threw => y.threw
  BY <1>15 DEF Exchange
<1>18. CASE threw
  BY <1>15, <1>16, <1>17, <1>18, <1>20, <1>21 DEF BookFits, BookMoves
<1>19. CASE ~threw
  <2>1. ~Overspent(o) /\ ~Overspent(q)
    <3>1. ~Overspent(o)
      BY <1>1, <1>3, <1>19
    <3>2. q.side = o.side /\ q.pair = o.pair /\ q.spent = o.spent /\ q.locked = locked
      BY <1>5, <1>7 DEF Order, OrderRecord
    <3>3. o.spent \in Nat /\ (o.pair = Pair /\ o.side = "BUY" => o.locked # NoLock)
      BY <1>7, OrderTypes DEF OrderFits
    <3> QED
      BY <1>4, <3>1, <3>2, <3>3 DEF Overspent
  <2>2. \A j \in DOMAIN os : ~Overspent(os[j])
    BY <1>1, <1>13, <1>19, <2>1
  <2>3. Uncrossed(os)
    <3>1. ~IsLive(q)
      BY <1>8 DEF IsLive
    <3>2. Uncrossed(orders)
      BY <1>1, <1>19
    <3> QED
      BY <1>13, <3>1, <3>2 DEF Uncrossed
  <2>4. ASSUME NEW c \in Currency
        PROVE  /\ Holds(Exchange, c) <= Holds(y, c)
               /\ Holds(y, c) - OrdersSlack(y.orders, c)
                    <= Holds(Exchange, c) - OrdersSlack(Exchange.orders, c)
    <3>1. /\ Holds(Exchange, c) = Holdings(Books, c) + OrdersHold(orders, c)
          /\ Holds(y, c) = Holdings(b, c) + OrdersHold(os, c)
          /\ y.orders = os /\ Exchange.orders = orders
      BY <1>2, <1>15 DEF Holds
    <3>2. /\ OrdersHold(os, c) = OrdersHold(orders, c) - OrderHolds(o, c) + OrderHolds(q, c)
          /\ OrdersSlack(os, c) = OrdersSlack(orders, c) - OrderSlack(o, c) + OrderSlack(q, c)
      <4>1. i \in DOMAIN orders /\ orders \in Seq(Order) /\ q \in Order
            /\ os = [orders EXCEPT ![i] = q]
        BY <1>2, <1>6, <1>8
      <4>2. /\ OrdersHold(os, c) = OrdersHold(orders, c) - OrderHolds(orders[i], c) + OrderHolds(q, c)
            /\ OrdersSlack(os, c) = OrdersSlack(orders, c) - OrderSlack(orders[i], c) + OrderSlack(q, c)
        BY <4>1, HoldsReplaced
      <4> QED
        BY <1>3, <4>2
    <3>3. /\ Holdings(Books, c) \in Int /\ OrdersHold(orders, c) \in Int /\ OrdersSlack(orders, c) \in Int
          /\ OrderHolds(o, c) \in Int /\ OrderHolds(q, c) \in Int
          /\ OrderSlack(o, c) \in Int /\ OrderSlack(q, c) \in Int
      <4>1. /\ Holdings(Books, c) \in Int /\ OrdersHold(orders, c) \in Int
            /\ OrdersSlack(orders, c) \in Int
        BY <1>2, HoldingsInt, OrdersHoldInt
      <4>2. /\ OrderHolds(o, c) \in Int /\ OrderHolds(q, c) \in Int
            /\ OrderSlack(o, c) \in Int /\ OrderSlack(q, c) \in Int
        BY <1>7, <1>8, OrderHoldsInt
      <4> QED
        BY <4>1, <4>2
    <3>4. Holdings(b, c) = Holdings(Books, c) + (IF c = rc THEN ra ELSE 0)
      BY <1>12
    <3>5. LET more == OrderHolds(q, c) - OrderHolds(o, c) + (IF c = rc THEN ra ELSE 0)
          IN  0 <= more /\ more <= OrderSlack(q, c) - OrderSlack(o, c)
      BY <1>8, <1>9, <1>10, <2>1
    <3>6. ra \in Nat
      BY <1>8, <1>10
    <3> QED
      BY <3>1, <3>2, <3>3, <3>4, <3>5, <3>6
  <2>5. Balances(Exchange, y)
    BY <2>4 DEF Balances
  <2> QED
    BY <1>15, <1>16, <1>17, <1>20, <1>21, <2>2, <2>3, <2>5 DEF BookFits, BookMoves
<1> QED
  BY <1>18, <1>19

LEMMA LeavesWindowFits ==
  ASSUME BookFits(Exchange), TradeLeavesWindow
  PROVE  BookMoves(Exchange, Exchange')
<1>1. /\ Exchange \in ExchangeSet
      /\ threw \/ (Uncrossed(orders) /\ \A j \in DOMAIN orders : ~Overspent(orders[j]))
  BY ExchangeTypes DEF BookFits
<1>2. /\ Books \in BooksSet /\ orders \in Seq(Order) /\ trades \in Seq(TradeRecord) /\ threw \in BOOLEAN
      /\ Exchange.books = Books /\ Exchange.orders = orders
  BY <1>1, ExchangeTypes
<1>3. PICK y : y = [books |-> Books, orders |-> orders, trades |-> Tail(trades), threw |-> threw]
  OBVIOUS
<1>4. Tail(trades) \in Seq(TradeRecord)
  BY <1>2, HeadTailProperties DEF TradeLeavesWindow
<1>5. y \in ExchangeSet
  BY <1>2, <1>3, <1>4 DEF ExchangeSet
<1>6. Exchange' = y
  <2>1. SetExchange(y)
    BY <1>3 DEF TradeLeavesWindow, SetExchange, SetBooks, Books
  <2> QED
    BY <1>5, <2>1, ExchangeBecomes
<1>7. Balances(Exchange, y)
  <2>1. ASSUME NEW c \in Currency
        PROVE  /\ Holds(Exchange, c) <= Holds(y, c)
               /\ Holds(y, c) - OrdersSlack(y.orders, c)
                    <= Holds(Exchange, c) - OrdersSlack(Exchange.orders, c)
    <3>1. Holds(y, c) = Holds(Exchange, c) /\ y.orders = Exchange.orders
      BY <1>2, <1>3 DEF Holds
    <3>2. Holds(Exchange, c) \in Int /\ OrdersSlack(Exchange.orders, c) \in Nat
      BY <1>1, HoldsInt
    <3> QED
      BY <3>1, <3>2
  <2> QED
    BY <2>1 DEF Balances
<1>8. KeepsLocks(Exchange, y)
  BY <1>2, <1>3 DEF KeepsLocks, SameOrder
<1>9. Exchange.threw => y.threw
  BY <1>3 DEF Exchange
<1> QED
  BY <1>1, <1>3, <1>5, <1>6, <1>7, <1>8, <1>9 DEF BookFits, BookMoves

LEMMA BookSteps ==
  ASSUME BookFits(Exchange), BookNext
  PROVE  BookMoves(Exchange, Exchange')
<1>1. ASSUME NEW w \in Wallets, NEW side \in {"BUY", "SELL"}, NEW amount \in BookAmounts,
             NEW price \in BookPrices, placeOrder(w, side, amount, price)
      PROVE  BookMoves(Exchange, Exchange')
  BY <1>1, PlaceOrderFits
<1>2. ASSUME NEW w \in Wallets, NEW side \in {"BUY", "SELL"}, NEW amount \in BookAmounts,
             NEW bound, placeLynxMarketOrder(w, side, amount, bound)
      PROVE  BookMoves(Exchange, Exchange')
  BY <1>2, MarketOrderFits
<1>3. ASSUME NEW i \in DOMAIN orders, cancelOrder(i)
      PROVE  BookMoves(Exchange, Exchange')
  BY <1>3, CancelFits
<1>4. ASSUME TradeLeavesWindow
      PROVE  BookMoves(Exchange, Exchange')
  BY <1>4, LeavesWindowFits
<1> QED
  BY <1>1, <1>2, <1>3, <1>4 DEF BookNext
=============================================================================
