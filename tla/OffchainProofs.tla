--------------------------- MODULE OffchainProofs ---------------------------
(***************************************************************************)
(* Proofs about module OffchainMarket, for any wallets, markets, prices,   *)
(* amounts, odds and bounds: the order book is left with nothing to match, *)
(* no money enters a market that takes no more entries, weights, pool and  *)
(* payouts agree with the positions, and no operation mints or loses money *)
(* but for the roundings of the code.                                      *)
(*                                                                         *)
(* The inductive invariant (MarketInv) is one about the whole store. It is *)
(* well formed (StoreFits): each order's lock is what its status says, the *)
(* lock of a prediction order is in its market's currency, a duel's stake  *)
(* is what it paid less the burn, a market's weights and pool are the sums *)
(* over its positions, only winners claimed, and unless a match threw, the *)
(* book is uncrossed and no buyer has spent more than a unit above its     *)
(* lock. And it balances (Balanced): the money of each currency (Total) is *)
(* what was brought in (Opening), but for three halves of a unit for every *)
(* resolved market and a unit for every closed buy.                        *)
(*                                                                         *)
(* Every operation but a trade on the book and a resolution leaves Total   *)
(* exactly as it was (StoreSteps). A trade may add a unit for a buyer that *)
(* ends above its lock (MoneyKept). A resolution moves it by the roundings *)
(* of its fees and its net pool, or of the parts of the LYNX it mints,     *)
(* never both in one currency (Ends).                                      *)
(***************************************************************************)
EXTENDS OffchainBookProofs

-----------------------------------------------------------------------------
(* The whole store                                                           *)

Entering == {"OPEN", "ACTIVE"}
MarketRecord ==
  [currency : Currency, isTernary : BOOLEAN,
   status : {"OPEN", "ACTIVE", "CUT_OFF", "RESOLVED"}, poolAmount : Nat,
   side : [Position -> Nat], result : Position \cup {NoResult}]
PositionRecord ==
  [market : Markets, wallet : Wallets, position : Position, amount : Nat \ {0},
   solPrincipal : Nat \ {0}, boosted : Nat, claimed : BOOLEAN]
DuelRecord ==
  [market : Markets, creator : Wallets, rival : Wallets \cup {NoResult}, gross : Nat, amount : Nat,
   status : {"OPEN", "ACTIVE", "CANCELLED", "RESOLVED"}, positionA : Position,
   positionB : Position \cup {NoResult}, winner : Wallets \cup {NoResult}]
StoreSet ==
  [books : BooksSet, orders : Seq(Order), trades : Seq(TradeRecord), threw : BOOLEAN,
   markets : [Markets -> MarketRecord], positions : Seq(PositionRecord), duels : Seq(DuelRecord)]

\* What the positions of a market weigh on a side, and what they paid in.
Weight(o, m, p) == IF o.market = m /\ o.position = p THEN o.amount ELSE 0
PaidIn(o, m) == IF o.market = m THEN o.solPrincipal ELSE 0
Weighs(ps, m, p) == SumFunctionOnSet([i \in DOMAIN ps |-> Weight(ps[i], m, p)], DOMAIN ps)
PaysIn(ps, m) == SumFunctionOnSet([i \in DOMAIN ps |-> PaidIn(ps[i], m)], DOMAIN ps)

\* What a claim pays, and whether it can be made.
Pays(ms, o) == roundAmount(NetPool(ms[o.market]) * o.amount, ms[o.market].side[ms[o.market].result])
Wins(ms, o) == ms[o.market].status = "RESOLVED" /\ o.position = ms[o.market].result

\* The parts of HeldByMarkets: pools, stakes of duels, and claims already paid.
PoolHolds(r, c) ==
  IF r.currency # c THEN 0
  ELSE IF r.status # "RESOLVED" THEN r.poolAmount
  ELSE IF r.side[r.result] = 0 THEN 0 ELSE NetPool(r)
DuelHolds(ms, d, c) ==
  IF ms[d.market].currency = c /\ d.status \in Entering
  THEN d.amount * (IF d.status = "OPEN" THEN 1 ELSE 2) ELSE 0
ClaimTook(ms, o, c) == IF ms[o.market].currency = c /\ o.claimed THEN Pays(ms, o) ELSE 0

PoolsHold(ms, c) == SumFunctionOnSet([m \in Markets |-> PoolHolds(ms[m], c)], Markets)
DuelsHold(ms, ds, c) == SumFunctionOnSet([d \in DOMAIN ds |-> DuelHolds(ms, ds[d], c)], DOMAIN ds)
ClaimsTook(ms, ps, c) == SumFunctionOnSet([i \in DOMAIN ps |-> ClaimTook(ms, ps[i], c)], DOMAIN ps)

Total(x, c) ==
  Holds(x, c) + PoolsHold(x.markets, c) + DuelsHold(x.markets, x.duels, c)
  - ClaimsTook(x.markets, x.positions, c)

\* The parts of the invariant that relate two pieces of the store.
LocksFit(ms, os) ==
  \A i \in DOMAIN os : os[i].pair # Pair => os[i].lockedCurrency = ms[os[i].pair].currency
DuelFits(ms, d) ==
  /\ d.amount = d.gross - Burn(ms[d.market].currency, d.gross)
  /\ d.status = "ACTIVE" => d.rival \in Wallets
DuelsFit(ms, ds) == \A d \in DOMAIN ds : DuelFits(ms, ds[d])
PoolsFit(ms, ps) ==
  \A m \in Markets :
    /\ \A p \in Position : ms[m].side[p] = Weighs(ps, m, p)
    /\ ms[m].poolAmount = PaysIn(ps, m)
    /\ ms[m].status = "RESOLVED" => ms[m].result \in Position
ClaimsFit(ms, ps) == \A i \in DOMAIN ps : ps[i].claimed => Wins(ms, ps[i])

StoreFits(x) ==
  /\ x \in StoreSet
  /\ x.threw \/ (Uncrossed(x.orders) /\ \A j \in DOMAIN x.orders : ~Overspent(x.orders[j]))
  /\ LocksFit(x.markets, x.orders) /\ DuelsFit(x.markets, x.duels)
  /\ PoolsFit(x.markets, x.positions) /\ ClaimsFit(x.markets, x.positions)

LEMMA StoreTypes ==
  ASSUME NEW x \in StoreSet
  PROVE  /\ x.books \in BooksSet /\ x.orders \in Seq(Order) /\ x.trades \in Seq(TradeRecord)
         /\ x.threw \in BOOLEAN /\ x.markets \in [Markets -> MarketRecord]
         /\ x.positions \in Seq(PositionRecord) /\ x.duels \in Seq(DuelRecord)
         /\ x = [books |-> x.books, orders |-> x.orders, trades |-> x.trades, threw |-> x.threw,
                 markets |-> x.markets, positions |-> x.positions, duels |-> x.duels]
BY DEF StoreSet

LEMMA MarketTypes ==
  ASSUME NEW r \in MarketRecord
  PROVE  /\ r.currency \in Currency /\ r.isTernary \in BOOLEAN /\ r.poolAmount \in Nat
         /\ r.status \in {"OPEN", "ACTIVE", "CUT_OFF", "RESOLVED"}
         /\ r.side \in [Position -> Nat] /\ r.result \in Position \cup {NoResult}
BY DEF MarketRecord

LEMMA PositionTypes ==
  ASSUME NEW o \in PositionRecord
  PROVE  /\ o.market \in Markets /\ o.wallet \in Wallets /\ o.position \in Position
         /\ o.amount \in Nat \ {0} /\ o.solPrincipal \in Nat \ {0} /\ o.boosted \in Nat
         /\ o.claimed \in BOOLEAN
BY DEF PositionRecord

LEMMA DuelTypes ==
  ASSUME NEW d \in DuelRecord
  PROVE  /\ d.market \in Markets /\ d.creator \in Wallets /\ d.rival \in Wallets \cup {NoResult}
         /\ d.gross \in Nat /\ d.amount \in Nat
         /\ d.status \in {"OPEN", "ACTIVE", "CANCELLED", "RESOLVED"}
         /\ d.positionA \in Position /\ d.positionB \in Position \cup {NoResult}
         /\ d.winner \in Wallets \cup {NoResult}
BY DEF DuelRecord

LEMMA NetPoolNat ==
  ASSUME NEW r \in MarketRecord
  PROVE  NetPool(r) \in Nat /\ 200 * NetPool(r) <= 180 * r.poolAmount + 100
         /\ 180 * r.poolAmount - 100 <= 200 * NetPool(r)
<1>1. r.poolAmount \in Nat /\ 90 \in Nat
  BY MarketTypes
<1>2. NetPool(r) = Percent(r.poolAmount, 90)
  BY DEF NetPool, STAKER_REWARD_FEE, TREASURY_EVENT_FEE
<1>3. PICK pool \in Nat : pool = r.poolAmount
  BY <1>1
<1>4. PICK net : net = Percent(pool, 90)
  OBVIOUS
<1>5. /\ net \in Nat /\ 200 * net <= 2 * pool * 90 + 100
      /\ 2 * pool * 90 - 100 <= 200 * net
  BY <1>1, <1>4, PercentFits
<1>6. 200 * net <= 180 * pool + 100 /\ 180 * pool - 100 <= 200 * net
  BY <1>5
<1> QED
  BY <1>2, <1>3, <1>4, <1>5, <1>6

LEMMA PoolHoldsInt ==
  ASSUME NEW r \in MarketRecord, NEW c \in Currency
  PROVE  PoolHolds(r, c) \in Int
BY MarketTypes, NetPoolNat DEF PoolHolds

LEMMA PoolsHoldInt ==
  ASSUME NEW ms \in [Markets -> MarketRecord], NEW c \in Currency
  PROVE  PoolsHold(ms, c) \in Int
BY PoolHoldsInt, MarketAssumption, SumInt DEF PoolsHold

LEMMA DuelHoldsInt ==
  ASSUME NEW ms, NEW d \in DuelRecord, NEW c
  PROVE  DuelHolds(ms, d, c) \in Int
<1>1. d.amount \in Nat
  BY DuelTypes
<1> QED
  BY <1>1 DEF DuelHolds

LEMMA DuelsHoldInt ==
  ASSUME NEW ms, NEW ds \in Seq(DuelRecord), NEW c
  PROVE  DuelsHold(ms, ds, c) \in Int
BY DuelHoldsInt, OrdersFinite, SumInt DEF DuelsHold

\* The winning side of a market has the weight of each position on it.
LEMMA WeightAtMost ==
  ASSUME NEW ps \in Seq(PositionRecord), NEW i \in DOMAIN ps, NEW m, NEW p
  PROVE  Weight(ps[i], m, p) <= Weighs(ps, m, p) /\ Weighs(ps, m, p) \in Nat
<1>1. /\ IsFiniteSet(DOMAIN ps) /\ \A j \in DOMAIN ps : ps[j] \in PositionRecord
  BY OrdersFinite
<1> DEFINE f == [j \in DOMAIN ps |-> Weight(ps[j], m, p)]
<1>2. \A j \in DOMAIN ps : f[j] \in Nat
  BY <1>1, PositionTypes DEF Weight
<1>3. f[i] = Weight(ps[i], m, p) /\ Weighs(ps, m, p) = SumFunctionOnSet(f, DOMAIN ps)
  BY DEF Weighs
<1> HIDE DEF f
<1> QED
  BY <1>1, <1>2, <1>3, SumElement, SumNat

LEMMA ClaimTookInt ==
  ASSUME NEW ms \in [Markets -> MarketRecord], NEW ps \in Seq(PositionRecord),
         PoolsFit(ms, ps), ClaimsFit(ms, ps), NEW c, NEW i \in DOMAIN ps
  PROVE  /\ ClaimTook(ms, ps[i], c) \in Int
         /\ Wins(ms, ps[i]) => /\ Pays(ms, ps[i]) \in Nat
                               /\ ms[ps[i].market].side[ms[ps[i].market].result] \in Nat \ {0}
<1>1. ps[i] \in PositionRecord
  BY OrdersFinite
<1>2. PICK o : o = ps[i]
  OBVIOUS
<1>3. /\ o.market \in Markets /\ o.position \in Position /\ o.amount \in Nat \ {0}
      /\ ms[o.market] \in MarketRecord
  BY <1>1, <1>2, PositionTypes
<1>4. ASSUME Wins(ms, o)
      PROVE  Pays(ms, o) \in Nat /\ ms[o.market].side[ms[o.market].result] \in Nat \ {0}
  <2>1. PICK p : p = ms[o.market].result
    OBVIOUS
  <2>2. p = o.position
    BY <1>4, <2>1 DEF Wins
  <2>3. Weight(o, o.market, p) = o.amount
    BY <2>2 DEF Weight
  <2>4. o.amount <= Weighs(ps, o.market, p) /\ Weighs(ps, o.market, p) \in Nat
    BY <1>2, <2>3, WeightAtMost
  <2>5. ms[o.market].side[p] = Weighs(ps, o.market, p)
    BY <1>3, <2>2 DEF PoolsFit
  <2>6. ms[o.market].side[p] \in Nat \ {0}
    BY <1>3, <2>4, <2>5
  <2>7. NetPool(ms[o.market]) * o.amount \in Nat
    BY <1>3, NetPoolNat
  <2>8. roundAmount(NetPool(ms[o.market]) * o.amount, ms[o.market].side[p]) \in Nat
    BY <2>6, <2>7, RoundFits
  <2> QED
    BY <2>1, <2>6, <2>8 DEF Pays
<1>5. o.claimed => Wins(ms, o)
  BY <1>2 DEF ClaimsFit
<1> QED
  BY <1>2, <1>4, <1>5 DEF ClaimTook

LEMMA ClaimsTookInt ==
  ASSUME NEW ms \in [Markets -> MarketRecord], NEW ps \in Seq(PositionRecord),
         PoolsFit(ms, ps), ClaimsFit(ms, ps), NEW c
  PROVE  ClaimsTook(ms, ps, c) \in Int
<1>1. IsFiniteSet(DOMAIN ps)
  BY OrdersFinite
<1>2. \A i \in DOMAIN ps : ClaimTook(ms, ps[i], c) \in Int
  BY ClaimTookInt
<1> QED
  BY <1>1, <1>2, SumInt DEF ClaimsTook

LEMMA TotalInt ==
  ASSUME NEW x, StoreFits(x), NEW c \in Currency
  PROVE  /\ Total(x, c) \in Int /\ Holds(x, c) \in Int /\ Holdings(x.books, c) \in Int
         /\ OrdersHold(x.orders, c) \in Int /\ OrdersSlack(x.orders, c) \in Nat
         /\ PoolsHold(x.markets, c) \in Int /\ DuelsHold(x.markets, x.duels, c) \in Int
         /\ ClaimsTook(x.markets, x.positions, c) \in Int
<1>1. /\ x.books \in BooksSet /\ x.orders \in Seq(Order)
      /\ x.markets \in [Markets -> MarketRecord]
      /\ x.positions \in Seq(PositionRecord) /\ x.duels \in Seq(DuelRecord)
  BY StoreTypes DEF StoreFits
<1>2. /\ Holdings(x.books, c) \in Int /\ OrdersHold(x.orders, c) \in Int
      /\ OrdersSlack(x.orders, c) \in Nat
  BY <1>1, HoldingsInt, OrdersHoldInt
<1>3. PoolsHold(x.markets, c) \in Int /\ DuelsHold(x.markets, x.duels, c) \in Int
  BY <1>1, PoolsHoldInt, DuelsHoldInt
<1>4. ClaimsTook(x.markets, x.positions, c) \in Int
  BY <1>1, ClaimsTookInt DEF StoreFits
<1> QED
  BY <1>2, <1>3, <1>4 DEF Total, Holds

-----------------------------------------------------------------------------
(* How the parts of the store change                                         *)

BookCalm(os) == Uncrossed(os) /\ \A j \in DOMAIN os : ~Overspent(os[j])

\* An order that is not the book's, or that nobody was matched with.
Aside(o) == o.pair # Pair \/ (o.side = "SELL" /\ o.locked = NoLock)

LEMMA CalmReplaced ==
  ASSUME NEW os \in Seq(Order), NEW i \in DOMAIN os, NEW o \in Order, Aside(o), BookCalm(os),
         NEW new, new = [os EXCEPT ![i] = o]
  PROVE  BookCalm(new)
<1>1. DOMAIN new = DOMAIN os /\ new[i] = o /\ \A j \in DOMAIN os \ {i} : new[j] = os[j]
  BY OrderReplacedTypes
<1>2. o.pair = Pair => o.side = "SELL" /\ o.locked = NoLock
  BY DEF Aside
<1>3. ~Overspent(o)
  BY <1>2 DEF Overspent
<1>4. \A j \in DOMAIN new : ~Overspent(new[j])
  BY <1>1, <1>3 DEF BookCalm
<1>5. Uncrossed(new)
  BY <1>1, <1>2 DEF BookCalm, Uncrossed
<1> QED
  BY <1>4, <1>5 DEF BookCalm

LEMMA CalmAppended ==
  ASSUME NEW os \in Seq(Order), NEW o \in Order, Aside(o), BookCalm(os),
         NEW new, new = Append(os, o)
  PROVE  BookCalm(new)
<1>1. PICK n : n = Len(os) + 1
  OBVIOUS
<1>2. DOMAIN new = DOMAIN os \cup {n} /\ new[n] = o /\ \A j \in DOMAIN os : new[j] = os[j]
  BY <1>1, OrderAppendedTypes
<1>3. o.pair = Pair => o.side = "SELL" /\ o.locked = NoLock
  BY DEF Aside
<1>4. ~Overspent(o)
  BY <1>3 DEF Overspent
<1>5. \A j \in DOMAIN new : ~Overspent(new[j])
  BY <1>2, <1>4 DEF BookCalm
<1>6. Uncrossed(new)
  BY <1>2, <1>3 DEF BookCalm, Uncrossed
<1> QED
  BY <1>5, <1>6 DEF BookCalm

\* The sums over a sequence, one element replaced or appended.
LEMMA SeqReplaced ==
  ASSUME NEW S, NEW s \in Seq(S), NEW i \in DOMAIN s, NEW e \in S,
         NEW new, new = [s EXCEPT ![i] = e]
  PROVE  /\ new \in Seq(S) /\ DOMAIN new = DOMAIN s /\ Len(new) = Len(s)
         /\ new[i] = e /\ \A j \in DOMAIN s \ {i} : new[j] = s[j]
<1>1. DOMAIN s = 1..Len(s)
  BY OrdersFinite
<1>2. new \in Seq(S) /\ Len(new) = Len(s)
  BY <1>1, ExceptSeq
<1> QED
  BY <1>2

LEMMA SeqAppended ==
  ASSUME NEW S, NEW s \in Seq(S), NEW e \in S, NEW new, new = Append(s, e), NEW n, n = Len(s) + 1
  PROVE  /\ new \in Seq(S) /\ Len(new) = n /\ DOMAIN new = DOMAIN s \cup {n} /\ n \notin DOMAIN s
         /\ new[n] = e /\ \A j \in DOMAIN s : new[j] = s[j]
<1>1. DOMAIN s = 1..Len(s) /\ Len(s) \in Nat
  BY OrdersFinite
<1>2. /\ new \in Seq(S) /\ Len(new) = n /\ new[n] = e
      /\ \A j \in 1..Len(s) : new[j] = s[j]
  BY AppendProperties
<1>3. DOMAIN new = 1..n
  BY <1>2, LenProperties
<1> QED
  BY <1>1, <1>2, <1>3

LEMMA SumAppended ==
  ASSUME NEW D, IsFiniteSet(D), NEW n, n \notin D, NEW f, NEW g,
         \A j \in D : f[j] \in Int /\ g[j] = f[j], g[n] \in Int
  PROVE  SumFunctionOnSet(g, D \cup {n}) = SumFunctionOnSet(f, D) + g[n]
<1>1. SumFunctionOnSet(g, D \cup {n}) = SumFunctionOnSet(g, D) + g[n]
  BY SumInsert
<1>2. SumFunctionOnSet(g, D) = SumFunctionOnSet(f, D)
  BY SumSame
<1> QED
  BY <1>1, <1>2

LEMMA DuelReplaced ==
  ASSUME NEW ms, NEW c, NEW ds \in Seq(DuelRecord), NEW i \in DOMAIN ds, NEW d \in DuelRecord,
         NEW new, new = [ds EXCEPT ![i] = d]
  PROVE  DuelsHold(ms, new, c) = DuelsHold(ms, ds, c) - DuelHolds(ms, ds[i], c) + DuelHolds(ms, d, c)
<1> DEFINE D == DOMAIN ds
           f == [j \in D |-> DuelHolds(ms, ds[j], c)]
           g == [j \in D |-> DuelHolds(ms, new[j], c)]
<1>1. IsFiniteSet(D) /\ \A j \in D : ds[j] \in DuelRecord
  BY OrdersFinite
<1>2. /\ new \in Seq(DuelRecord) /\ DOMAIN new = D
      /\ new[i] = d /\ \A j \in D \ {i} : new[j] = ds[j]
  BY SeqReplaced
<1>3. \A j \in D : f[j] \in Int /\ g[j] \in Int
  BY <1>1, <1>2, DuelHoldsInt
<1>4. /\ \A j \in D \ {i} : f[j] = g[j]
      /\ f[i] = DuelHolds(ms, ds[i], c) /\ g[i] = DuelHolds(ms, d, c)
  BY <1>2
<1>5. DuelsHold(ms, ds, c) = SumFunctionOnSet(f, D) /\ DuelsHold(ms, new, c) = SumFunctionOnSet(g, D)
  BY <1>2 DEF DuelsHold
<1>6. i \in D
  OBVIOUS
<1> HIDE DEF D, f, g
<1> QED
  BY <1>1, <1>3, <1>4, <1>5, <1>6, SumUpdate

LEMMA DuelAppended ==
  ASSUME NEW ms, NEW c, NEW ds \in Seq(DuelRecord), NEW d \in DuelRecord,
         NEW new, new = Append(ds, d)
  PROVE  DuelsHold(ms, new, c) = DuelsHold(ms, ds, c) + DuelHolds(ms, d, c)
<1>0. PICK n : n = Len(ds) + 1
  OBVIOUS
<1> DEFINE D == DOMAIN ds
           f == [j \in D |-> DuelHolds(ms, ds[j], c)]
           g == [j \in D \cup {n} |-> DuelHolds(ms, new[j], c)]
<1>1. IsFiniteSet(D) /\ \A j \in D : ds[j] \in DuelRecord
  BY OrdersFinite
<1>2. /\ new \in Seq(DuelRecord) /\ DOMAIN new = D \cup {n} /\ n \notin D
      /\ new[n] = d /\ \A j \in D : new[j] = ds[j]
  BY <1>0, SeqAppended
<1>3. \A j \in D : f[j] \in Int /\ g[j] = f[j]
  BY <1>1, <1>2, DuelHoldsInt
<1>4. g[n] = DuelHolds(ms, d, c) /\ g[n] \in Int
  BY <1>2, DuelHoldsInt
<1>5. DuelsHold(ms, ds, c) = SumFunctionOnSet(f, D)
      /\ DuelsHold(ms, new, c) = SumFunctionOnSet(g, D \cup {n})
  BY <1>2 DEF DuelsHold
<1> HIDE DEF D, f, g
<1>6. n \notin D
  BY <1>2
<1>7. SumFunctionOnSet(g, D \cup {n}) = SumFunctionOnSet(f, D) + g[n]
  BY <1>1, <1>3, <1>4, <1>6, SumAppended
<1> QED
  BY <1>4, <1>5, <1>7

\* Duels and claims look at the currency of a market, and claims at its end.
SameCurrency(ms, new) == \A m \in Markets : new[m].currency = ms[m].currency

LEMMA DuelsHoldSame ==
  ASSUME NEW ds \in Seq(DuelRecord), NEW ms, NEW new, SameCurrency(ms, new), NEW c
  PROVE  DuelsHold(new, ds, c) = DuelsHold(ms, ds, c) /\ (DuelsFit(ms, ds) => DuelsFit(new, ds))
<1>1. \A j \in DOMAIN ds : ds[j].market \in Markets
  BY OrdersFinite, DuelTypes
<1>2. \A j \in DOMAIN ds : DuelHolds(new, ds[j], c) = DuelHolds(ms, ds[j], c)
  BY <1>1 DEF DuelHolds, SameCurrency
<1>3. [j \in DOMAIN ds |-> DuelHolds(new, ds[j], c)] = [j \in DOMAIN ds |-> DuelHolds(ms, ds[j], c)]
  BY <1>2
<1>4. DuelsFit(ms, ds) => DuelsFit(new, ds)
  BY <1>1 DEF DuelsFit, DuelFits, SameCurrency
<1> QED
  BY <1>3, <1>4 DEF DuelsHold

LEMMA LocksFitSame ==
  ASSUME NEW os \in Seq(Order), NEW ms, NEW new, SameCurrency(ms, new), LocksFit(ms, os)
  PROVE  LocksFit(new, os)
<1>1. \A j \in DOMAIN os : os[j].pair \in Markets \cup {Pair}
  BY OrdersFinite, OrderTypes
<1> QED
  BY <1>1 DEF LocksFit, SameCurrency

LEMMA PoolReplaced ==
  ASSUME NEW ms \in [Markets -> MarketRecord], NEW m \in Markets, NEW r \in MarketRecord,
         NEW new, new = [ms EXCEPT ![m] = r], NEW c \in Currency
  PROVE  /\ PoolsHold(new, c) = PoolsHold(ms, c) - PoolHolds(ms[m], c) + PoolHolds(r, c)
         /\ new \in [Markets -> MarketRecord] /\ new[m] = r
         /\ \A k \in Markets \ {m} : new[k] = ms[k]
<1> DEFINE f == [k \in Markets |-> PoolHolds(ms[k], c)]
           g == [k \in Markets |-> PoolHolds(new[k], c)]
<1>1. /\ new \in [Markets -> MarketRecord] /\ new[m] = r /\ \A k \in Markets \ {m} : new[k] = ms[k]
  OBVIOUS
<1>2. \A k \in Markets : f[k] \in Int /\ g[k] \in Int
  BY <1>1, PoolHoldsInt
<1>3. /\ \A k \in Markets \ {m} : f[k] = g[k]
      /\ f[m] = PoolHolds(ms[m], c) /\ g[m] = PoolHolds(r, c)
  BY <1>1
<1>4. PoolsHold(ms, c) = SumFunctionOnSet(f, Markets) /\ PoolsHold(new, c) = SumFunctionOnSet(g, Markets)
  BY DEF PoolsHold
<1>5. IsFiniteSet(Markets)
  BY MarketAssumption
<1> HIDE DEF f, g
<1>6. PoolsHold(new, c) = PoolsHold(ms, c) - PoolHolds(ms[m], c) + PoolHolds(r, c)
  BY <1>2, <1>3, <1>4, <1>5, SumUpdate
<1> QED
  BY <1>1, <1>6

-----------------------------------------------------------------------------
(* How the positions change                                                  *)

LEMMA WeighsReplaced ==
  ASSUME NEW m, NEW p, NEW ps \in Seq(PositionRecord), NEW i \in DOMAIN ps, NEW o \in PositionRecord,
         NEW new, new = [ps EXCEPT ![i] = o]
  PROVE  Weighs(new, m, p) = Weighs(ps, m, p) - Weight(ps[i], m, p) + Weight(o, m, p)
<1> DEFINE D == DOMAIN ps
           f == [j \in D |-> Weight(ps[j], m, p)]
           g == [j \in D |-> Weight(new[j], m, p)]
<1>1. IsFiniteSet(D) /\ \A j \in D : ps[j] \in PositionRecord
  BY OrdersFinite
<1>2. /\ new \in Seq(PositionRecord) /\ DOMAIN new = D
      /\ new[i] = o /\ \A j \in D \ {i} : new[j] = ps[j]
  BY SeqReplaced
<1>3. \A j \in D : f[j] \in Int /\ g[j] \in Int
  BY <1>1, <1>2, PositionTypes DEF Weight
<1>4. /\ \A j \in D \ {i} : f[j] = g[j]
      /\ f[i] = Weight(ps[i], m, p) /\ g[i] = Weight(o, m, p)
  BY <1>2
<1>5. /\ Weighs(ps, m, p) = SumFunctionOnSet(f, D)
      /\ Weighs(new, m, p) = SumFunctionOnSet(g, D)
  BY <1>2 DEF Weighs
<1>6. i \in D
  OBVIOUS
<1> HIDE DEF D, f, g
<1> QED
  BY <1>1, <1>3, <1>4, <1>5, <1>6, SumUpdate

LEMMA WeighsAppended ==
  ASSUME NEW m, NEW p, NEW ps \in Seq(PositionRecord), NEW o \in PositionRecord,
         NEW new, new = Append(ps, o)
  PROVE  Weighs(new, m, p) = Weighs(ps, m, p) + Weight(o, m, p)
<1>0. PICK n : n = Len(ps) + 1
  OBVIOUS
<1> DEFINE D == DOMAIN ps
           f == [j \in D |-> Weight(ps[j], m, p)]
           g == [j \in D \cup {n} |-> Weight(new[j], m, p)]
<1>1. IsFiniteSet(D) /\ \A j \in D : ps[j] \in PositionRecord
  BY OrdersFinite
<1>2. /\ new \in Seq(PositionRecord) /\ DOMAIN new = D \cup {n} /\ n \notin D
      /\ new[n] = o /\ \A j \in D : new[j] = ps[j]
  BY <1>0, SeqAppended
<1>3. \A j \in D : f[j] \in Int /\ g[j] = f[j]
  BY <1>1, <1>2, PositionTypes DEF Weight
<1>4. g[n] = Weight(o, m, p) /\ g[n] \in Int
  BY <1>2, PositionTypes DEF Weight
<1>5. /\ Weighs(ps, m, p) = SumFunctionOnSet(f, D)
      /\ Weighs(new, m, p) = SumFunctionOnSet(g, D \cup {n})
  BY <1>2 DEF Weighs
<1> HIDE DEF D, f, g
<1>6. n \notin D
  BY <1>2
<1>7. SumFunctionOnSet(g, D \cup {n}) = SumFunctionOnSet(f, D) + g[n]
  BY <1>1, <1>3, <1>4, <1>6, SumAppended
<1> QED
  BY <1>4, <1>5, <1>7

LEMMA PaysInReplaced ==
  ASSUME NEW m, NEW ps \in Seq(PositionRecord), NEW i \in DOMAIN ps, NEW o \in PositionRecord,
         NEW new, new = [ps EXCEPT ![i] = o]
  PROVE  PaysIn(new, m) = PaysIn(ps, m) - PaidIn(ps[i], m) + PaidIn(o, m)
<1> DEFINE D == DOMAIN ps
           f == [j \in D |-> PaidIn(ps[j], m)]
           g == [j \in D |-> PaidIn(new[j], m)]
<1>1. IsFiniteSet(D) /\ \A j \in D : ps[j] \in PositionRecord
  BY OrdersFinite
<1>2. /\ new \in Seq(PositionRecord) /\ DOMAIN new = D
      /\ new[i] = o /\ \A j \in D \ {i} : new[j] = ps[j]
  BY SeqReplaced
<1>3. \A j \in D : f[j] \in Int /\ g[j] \in Int
  BY <1>1, <1>2, PositionTypes DEF PaidIn
<1>4. /\ \A j \in D \ {i} : f[j] = g[j]
      /\ f[i] = PaidIn(ps[i], m) /\ g[i] = PaidIn(o, m)
  BY <1>2
<1>5. /\ PaysIn(ps, m) = SumFunctionOnSet(f, D)
      /\ PaysIn(new, m) = SumFunctionOnSet(g, D)
  BY <1>2 DEF PaysIn
<1>6. i \in D
  OBVIOUS
<1> HIDE DEF D, f, g
<1> QED
  BY <1>1, <1>3, <1>4, <1>5, <1>6, SumUpdate

LEMMA PaysInAppended ==
  ASSUME NEW m, NEW ps \in Seq(PositionRecord), NEW o \in PositionRecord,
         NEW new, new = Append(ps, o)
  PROVE  PaysIn(new, m) = PaysIn(ps, m) + PaidIn(o, m)
<1>0. PICK n : n = Len(ps) + 1
  OBVIOUS
<1> DEFINE D == DOMAIN ps
           f == [j \in D |-> PaidIn(ps[j], m)]
           g == [j \in D \cup {n} |-> PaidIn(new[j], m)]
<1>1. IsFiniteSet(D) /\ \A j \in D : ps[j] \in PositionRecord
  BY OrdersFinite
<1>2. /\ new \in Seq(PositionRecord) /\ DOMAIN new = D \cup {n} /\ n \notin D
      /\ new[n] = o /\ \A j \in D : new[j] = ps[j]
  BY <1>0, SeqAppended
<1>3. \A j \in D : f[j] \in Int /\ g[j] = f[j]
  BY <1>1, <1>2, PositionTypes DEF PaidIn
<1>4. g[n] = PaidIn(o, m) /\ g[n] \in Int
  BY <1>2, PositionTypes DEF PaidIn
<1>5. /\ PaysIn(ps, m) = SumFunctionOnSet(f, D)
      /\ PaysIn(new, m) = SumFunctionOnSet(g, D \cup {n})
  BY <1>2 DEF PaysIn
<1> HIDE DEF D, f, g
<1>6. n \notin D
  BY <1>2
<1>7. SumFunctionOnSet(g, D \cup {n}) = SumFunctionOnSet(f, D) + g[n]
  BY <1>1, <1>3, <1>4, <1>6, SumAppended
<1> QED
  BY <1>4, <1>5, <1>7

\* Claims are paid from markets that are resolved, and those do not change.
LEMMA ClaimsTookSame ==
  ASSUME NEW ps \in Seq(PositionRecord), NEW ms, NEW new, SameCurrency(ms, new),
         \A j \in DOMAIN ps : ps[j].claimed => new[ps[j].market] = ms[ps[j].market], NEW c
  PROVE  ClaimsTook(new, ps, c) = ClaimsTook(ms, ps, c) /\ (ClaimsFit(ms, ps) => ClaimsFit(new, ps))
<1>1. \A j \in DOMAIN ps : ps[j].market \in Markets
  BY OrdersFinite, PositionTypes
<1>2. \A j \in DOMAIN ps : ClaimTook(new, ps[j], c) = ClaimTook(ms, ps[j], c)
  BY <1>1 DEF ClaimTook, Pays, SameCurrency
<1>3. [j \in DOMAIN ps |-> ClaimTook(new, ps[j], c)] = [j \in DOMAIN ps |-> ClaimTook(ms, ps[j], c)]
  BY <1>2
<1>4. ClaimsFit(ms, ps) => ClaimsFit(new, ps)
  BY <1>1 DEF ClaimsFit, Wins
<1> QED
  BY <1>3, <1>4 DEF ClaimsTook

LEMMA ClaimReplaced ==
  ASSUME NEW ms, NEW c, NEW ps \in Seq(PositionRecord), NEW i \in DOMAIN ps, NEW o \in PositionRecord,
         NEW new, new = [ps EXCEPT ![i] = o],
         \A j \in DOMAIN ps : ClaimTook(ms, ps[j], c) \in Int, ClaimTook(ms, o, c) \in Int
  PROVE  ClaimsTook(ms, new, c) = ClaimsTook(ms, ps, c) - ClaimTook(ms, ps[i], c) + ClaimTook(ms, o, c)
<1> DEFINE D == DOMAIN ps
           f == [j \in D |-> ClaimTook(ms, ps[j], c)]
           g == [j \in D |-> ClaimTook(ms, new[j], c)]
<1>1. IsFiniteSet(D)
  BY OrdersFinite
<1>2. DOMAIN new = D /\ new[i] = o /\ \A j \in D \ {i} : new[j] = ps[j]
  BY SeqReplaced
<1>3. \A j \in D : f[j] \in Int /\ g[j] \in Int
  <2>1. ASSUME NEW j \in D PROVE g[j] \in Int
    <3>1. CASE j = i
      BY <1>2, <3>1
    <3>2. CASE j # i
      BY <1>2, <3>2
    <3> QED
      BY <3>1, <3>2
  <2> QED
    BY <2>1
<1>4. /\ \A j \in D \ {i} : f[j] = g[j]
      /\ f[i] = ClaimTook(ms, ps[i], c) /\ g[i] = ClaimTook(ms, o, c)
  BY <1>2
<1>5. /\ ClaimsTook(ms, ps, c) = SumFunctionOnSet(f, D)
      /\ ClaimsTook(ms, new, c) = SumFunctionOnSet(g, D)
  BY <1>2 DEF ClaimsTook
<1>6. i \in D
  OBVIOUS
<1> HIDE DEF D, f, g
<1> QED
  BY <1>1, <1>3, <1>4, <1>5, <1>6, SumUpdate

LEMMA ClaimAppended ==
  ASSUME NEW ms, NEW c, NEW ps \in Seq(PositionRecord), NEW o \in PositionRecord, o.claimed = FALSE,
         NEW new, new = Append(ps, o),
         \A j \in DOMAIN ps : ClaimTook(ms, ps[j], c) \in Int
  PROVE  ClaimsTook(ms, new, c) = ClaimsTook(ms, ps, c)
<1>0. PICK n : n = Len(ps) + 1
  OBVIOUS
<1> DEFINE D == DOMAIN ps
           f == [j \in D |-> ClaimTook(ms, ps[j], c)]
           g == [j \in D \cup {n} |-> ClaimTook(ms, new[j], c)]
<1>1. IsFiniteSet(D)
  BY OrdersFinite
<1>2. /\ DOMAIN new = D \cup {n} /\ n \notin D
      /\ new[n] = o /\ \A j \in D : new[j] = ps[j]
  BY <1>0, SeqAppended
<1>3. \A j \in D : f[j] \in Int /\ g[j] = f[j]
  BY <1>2
<1>4. g[n] = 0
  BY <1>2 DEF ClaimTook
<1>5. /\ ClaimsTook(ms, ps, c) = SumFunctionOnSet(f, D)
      /\ ClaimsTook(ms, new, c) = SumFunctionOnSet(g, D \cup {n})
  BY <1>2 DEF ClaimsTook
<1> HIDE DEF D, f, g
<1>6. n \notin D
  BY <1>2
<1>9. g[n] \in Int
  BY <1>4
<1>7. SumFunctionOnSet(g, D \cup {n}) = SumFunctionOnSet(f, D) + g[n]
  BY <1>1, <1>3, <1>9, <1>6, SumAppended
<1>8. SumFunctionOnSet(f, D) \in Int
  BY <1>1, <1>3, SumInt
<1> QED
  BY <1>4, <1>5, <1>7, <1>8

-----------------------------------------------------------------------------
(* Entries                                                                   *)

\* Every market but m is as it was, and so is the currency of m.
OnlyMarket(m, ms, new) ==
  SameCurrency(ms, new) /\ \A k \in Markets \ {m} : new[k] = ms[k]

\* The market once credited has entered on side p.
Raised(market, p, credited) ==
  [market EXCEPT !.status = "ACTIVE", !.poolAmount = @ + credited, !.side[p] = @ + credited]

RaisedIs(market, p, credited, r) ==
  /\ r \in MarketRecord /\ r.currency = market.currency /\ r.status = "ACTIVE"
  /\ r.poolAmount = market.poolAmount + credited
  /\ r.side[p] = market.side[p] + credited
  /\ \A q \in Position \ {p} : r.side[q] = market.side[q]

LEMMA EnteredMarket ==
  ASSUME NEW market \in MarketRecord, NEW p \in Position, NEW credited \in Nat,
         NEW r, r = Raised(market, p, credited)
  PROVE  RaisedIs(market, p, credited, r)
<1>1. /\ market.poolAmount \in Nat /\ market.side \in [Position -> Nat]
  BY MarketTypes
<1>2. PICK side : side = [market.side EXCEPT ![p] = @ + credited]
  OBVIOUS
<1>3. /\ side \in [Position -> Nat] /\ side[p] = market.side[p] + credited
      /\ \A q \in Position \ {p} : side[q] = market.side[q]
  BY <1>1, <1>2
<1>4. PICK pool : pool = market.poolAmount + credited
  OBVIOUS
<1>5. pool \in Nat
  BY <1>1, <1>4
<1>6. r = [market EXCEPT !.status = "ACTIVE", !.poolAmount = pool, !.side = side]
  BY <1>2, <1>4 DEF Raised
<1>7. r = [currency |-> market.currency, isTernary |-> market.isTernary, status |-> "ACTIVE",
           poolAmount |-> pool, side |-> side, result |-> market.result]
  BY <1>6 DEF MarketRecord
<1>8. r \in MarketRecord
  BY <1>3, <1>5, <1>7, MarketTypes DEF MarketRecord
<1>9. /\ r.currency = market.currency /\ r.status = "ACTIVE" /\ r.poolAmount = pool /\ r.side = side
  BY <1>7
<1> QED
  BY <1>3, <1>4, <1>8, <1>9 DEF RaisedIs

LEMMA EnterPoolFits ==
  ASSUME NEW x, StoreFits(x), NEW m \in Markets, NEW w \in Wallets, NEW p \in Position,
         NEW amount \in Nat \ {0}, x.markets[m].status \in Entering,
         NEW y, y = EnterPool(x, m, w, p, amount)
  PROVE  /\ StoreFits(y) /\ y.orders = x.orders /\ y.duels = x.duels /\ y.threw = x.threw
         /\ y.trades = x.trades
         /\ OnlyMarket(m, x.markets, y.markets) /\ y.markets[m].status = "ACTIVE"
         /\ \A d \in Currency :
              Total(y, d) = Total(x, d) + (IF d = x.markets[m].currency THEN amount ELSE 0)
<1>1. x \in StoreSet
  BY DEF StoreFits
<1>2. /\ x.books \in BooksSet /\ x.orders \in Seq(Order) /\ x.trades \in Seq(TradeRecord)
      /\ x.threw \in BOOLEAN /\ x.markets \in [Markets -> MarketRecord]
      /\ x.positions \in Seq(PositionRecord) /\ x.duels \in Seq(DuelRecord)
      /\ x = [books |-> x.books, orders |-> x.orders, trades |-> x.trades, threw |-> x.threw,
              markets |-> x.markets, positions |-> x.positions, duels |-> x.duels]
  BY <1>1, StoreTypes
<1>3. PICK market : market = x.markets[m]
  OBVIOUS
<1>4. /\ market \in MarketRecord /\ market.currency \in Currency /\ market.poolAmount \in Nat
      /\ market.side \in [Position -> Nat] /\ market.status # "RESOLVED"
  BY <1>2, <1>3, MarketTypes DEF Entering
<1>5. PICK burn : burn = Burn(market.currency, amount)
  OBVIOUS
<1>6. burn \in Nat /\ burn < amount /\ (market.currency = "SOL" => burn = 0)
  BY <1>4, <1>5, BurnFits
<1>7. PICK credited : credited = amount - burn
  OBVIOUS
<1>8. credited \in Nat \ {0}
  BY <1>6, <1>7
<1>9. PICK r : r = Raised(market, p, credited)
  OBVIOUS
<1>10. /\ r \in MarketRecord /\ r.currency = market.currency /\ r.status = "ACTIVE"
       /\ r.poolAmount = market.poolAmount + credited
       /\ r.side[p] = market.side[p] + credited
       /\ \A q \in Position \ {p} : r.side[q] = market.side[q]
  <2>1. market \in MarketRecord /\ credited \in Nat /\ p \in Position
    BY <1>4, <1>8
  <2>2. RaisedIs(market, p, credited, r)
    BY <1>9, <2>1, EnteredMarket
  <2> QED
    BY <2>2 DEF RaisedIs
<1>11. PICK o : o = [market |-> m, wallet |-> w, position |-> p, amount |-> credited,
                     solPrincipal |-> credited, boosted |-> 0, claimed |-> FALSE]
  OBVIOUS
<1>12. o \in PositionRecord /\ o.claimed = FALSE
  BY <1>8, <1>11 DEF PositionRecord
<1>13. PICK b : b = CountBurn(x.books, burn)
  OBVIOUS
<1>14. b \in BooksSet /\ \A d \in Currency : Holdings(b, d) = Holdings(x.books, d)
                                                             + (IF d = "LYNX" THEN burn ELSE 0)
  BY <1>2, <1>6, <1>13, CountBurnFits
<1>15. PICK ms : ms = [x.markets EXCEPT ![m] = r]
  OBVIOUS
<1>16. PICK ps : ps = Append(x.positions, o)
  OBVIOUS
<1>17. y = [x EXCEPT !.books = b, !.markets = ms, !.positions = ps]
  BY <1>3, <1>5, <1>7, <1>9, <1>11, <1>13, <1>15, <1>16 DEF EnterPool, Raised
<1>18. y = [books |-> b, orders |-> x.orders, trades |-> x.trades, threw |-> x.threw,
            markets |-> ms, positions |-> ps, duels |-> x.duels]
  BY <1>2, <1>17
<1>33. PICK old : old = x.positions
  OBVIOUS
<1>34. old \in Seq(PositionRecord) /\ ps = Append(old, o) /\ o \in PositionRecord
  BY <1>2, <1>12, <1>16, <1>33
<1>19. ms \in [Markets -> MarketRecord] /\ ms[m] = r /\ \A k \in Markets \ {m} : ms[k] = x.markets[k]
  BY <1>2, <1>10, <1>15
<1>20. OnlyMarket(m, x.markets, ms)
  BY <1>3, <1>10, <1>19 DEF OnlyMarket, SameCurrency
<1>21. /\ ps \in Seq(PositionRecord)
       /\ \A j \in DOMAIN ps : (j \in DOMAIN x.positions /\ ps[j] = x.positions[j]) \/ ps[j] = o
  <2>1. PICK n : n = Len(x.positions) + 1
    OBVIOUS
  <2> QED
    BY <1>2, <1>12, <1>16, <2>1, SeqAppended
<1>22. y \in StoreSet
  BY <1>2, <1>14, <1>18, <1>19, <1>21 DEF StoreSet
<1>23. LocksFit(ms, x.orders) /\ DuelsFit(ms, x.duels)
  <2>1. SameCurrency(x.markets, ms) /\ LocksFit(x.markets, x.orders) /\ DuelsFit(x.markets, x.duels)
    BY <1>20 DEF OnlyMarket, StoreFits
  <2> QED
    BY <1>2, <2>1, LocksFitSame, DuelsHoldSame
<1>24. PoolsFit(x.markets, x.positions) /\ ClaimsFit(x.markets, x.positions)
  BY DEF StoreFits
<1>25. PoolsFit(ms, ps)
  <2>1. ASSUME NEW k \in Markets, NEW q \in Position
        PROVE  ms[k].side[q] = Weighs(ps, k, q)
    <3>1. Weighs(ps, k, q) = Weighs(x.positions, k, q) + Weight(o, k, q)
      <4>1. Weighs(ps, k, q) = Weighs(old, k, q) + Weight(o, k, q)
        BY <1>34, WeighsAppended
      <4> QED
        BY <1>33, <4>1
    <3>2. x.markets[k].side[q] = Weighs(x.positions, k, q)
      BY <1>24 DEF PoolsFit
    <3>3. Weight(o, k, q) = IF k = m /\ q = p THEN credited ELSE 0
      BY <1>11 DEF Weight
    <3>4. x.markets[k].side[q] \in Nat
      BY <1>2, MarketTypes
    <3>5. CASE k = m /\ q = p
      BY <1>3, <1>10, <1>19, <3>1, <3>2, <3>3, <3>5
    <3>6. CASE k # m
      BY <1>19, <3>1, <3>2, <3>3, <3>4, <3>6
    <3>7. CASE k = m /\ q # p
      BY <1>3, <1>10, <1>19, <3>1, <3>2, <3>3, <3>4, <3>7
    <3> QED
      BY <3>5, <3>6, <3>7
  <2>2. ASSUME NEW k \in Markets
        PROVE  ms[k].poolAmount = PaysIn(ps, k)
    <3>1. PaysIn(ps, k) = PaysIn(x.positions, k) + PaidIn(o, k)
      <4>1. PaysIn(ps, k) = PaysIn(old, k) + PaidIn(o, k)
        BY <1>34, PaysInAppended
      <4> QED
        BY <1>33, <4>1
    <3>2. x.markets[k].poolAmount = PaysIn(x.positions, k)
      BY <1>24 DEF PoolsFit
    <3>3. PaidIn(o, k) = IF k = m THEN credited ELSE 0
      BY <1>11 DEF PaidIn
    <3>4. x.markets[k].poolAmount \in Nat
      BY <1>2, MarketTypes
    <3>5. CASE k = m
      BY <1>3, <1>10, <1>19, <3>1, <3>2, <3>3, <3>5
    <3>6. CASE k # m
      BY <1>19, <3>1, <3>2, <3>3, <3>4, <3>6
    <3> QED
      BY <3>5, <3>6
  <2>3. ASSUME NEW k \in Markets, ms[k].status = "RESOLVED" PROVE ms[k].result \in Position
    BY <1>10, <1>19, <1>24, <2>3 DEF PoolsFit
  <2> QED
    BY <2>1, <2>2, <2>3 DEF PoolsFit
<1>26. \A j \in DOMAIN x.positions : x.positions[j].claimed => ms[x.positions[j].market] = x.markets[x.positions[j].market]
  <2>1. ASSUME NEW j \in DOMAIN x.positions, x.positions[j].claimed
        PROVE  ms[x.positions[j].market] = x.markets[x.positions[j].market]
    <3>1. x.markets[x.positions[j].market].status = "RESOLVED"
      BY <1>24, <2>1 DEF ClaimsFit, Wins
    <3>2. x.positions[j].market \in Markets
      BY <1>2, OrdersFinite, PositionTypes
    <3> QED
      BY <1>3, <1>4, <1>19, <3>1, <3>2
  <2> QED
    BY <2>1
<1>27. SameCurrency(x.markets, ms)
  BY <1>20 DEF OnlyMarket
<1>28. ClaimsFit(ms, x.positions)
  <2>1. PICK c \in Currency : TRUE
    BY DEF Currency
  <2> QED
    BY <1>2, <1>24, <1>26, <1>27, ClaimsTookSame
<1>29. ClaimsFit(ms, ps)
  BY <1>12, <1>21, <1>28 DEF ClaimsFit
<1>30. StoreFits(y)
  <2>1. x.threw \/ (Uncrossed(x.orders) /\ \A j \in DOMAIN x.orders : ~Overspent(x.orders[j]))
    BY DEF StoreFits
  <2> QED
    BY <1>18, <1>22, <1>23, <1>25, <1>29, <2>1 DEF StoreFits
<1>31. ASSUME NEW d \in Currency
       PROVE  Total(y, d) = Total(x, d) + (IF d = market.currency THEN amount ELSE 0)
  <2>1. ClaimsTook(ms, ps, d) = ClaimsTook(x.markets, x.positions, d)
    <3>1. ClaimsTook(ms, x.positions, d) = ClaimsTook(x.markets, x.positions, d)
      BY <1>2, <1>26, <1>27, ClaimsTookSame
    <3>2. \A j \in DOMAIN x.positions : ClaimTook(x.markets, x.positions[j], d) \in Int
      BY <1>2, <1>24, ClaimTookInt
    <3>3. \A j \in DOMAIN x.positions : ClaimTook(ms, x.positions[j], d) \in Int
      <4>1. ASSUME NEW j \in DOMAIN x.positions PROVE ClaimTook(ms, x.positions[j], d) \in Int
        <5>1. CASE x.positions[j].claimed
          <6>1. x.positions[j].market \in Markets
            BY <1>2, OrdersFinite, PositionTypes
          <6>2. ClaimTook(ms, x.positions[j], d) = ClaimTook(x.markets, x.positions[j], d)
            BY <1>26, <1>27, <5>1, <6>1 DEF ClaimTook, Pays, SameCurrency
          <6> QED
            BY <3>2, <6>2
        <5>2. CASE ~x.positions[j].claimed
          BY <5>2 DEF ClaimTook
        <5> QED
          BY <5>1, <5>2
      <4> QED
        BY <4>1
    <3>4. ClaimsTook(ms, ps, d) = ClaimsTook(ms, x.positions, d)
      <4>1. \A j \in DOMAIN old : ClaimTook(ms, old[j], d) \in Int
        BY <1>33, <3>3
      <4>2. ClaimsTook(ms, ps, d) = ClaimsTook(ms, old, d)
        BY <1>12, <1>34, <4>1, ClaimAppended
      <4> QED
        BY <1>33, <4>2
    <3> QED
      BY <3>1, <3>4
  <2>2. DuelsHold(ms, x.duels, d) = DuelsHold(x.markets, x.duels, d)
    BY <1>2, <1>27, DuelsHoldSame
  <2>3. PoolsHold(ms, d) = PoolsHold(x.markets, d) - PoolHolds(market, d) + PoolHolds(r, d)
    <3>1. PoolsHold(ms, d) = PoolsHold(x.markets, d) - PoolHolds(x.markets[m], d) + PoolHolds(r, d)
      BY <1>2, <1>10, <1>15, PoolReplaced
    <3> QED
      BY <1>3, <3>1
  <2>4. /\ PoolHolds(market, d) = IF d = market.currency THEN market.poolAmount ELSE 0
        /\ PoolHolds(r, d) = IF d = market.currency THEN market.poolAmount + credited ELSE 0
    BY <1>4, <1>10 DEF PoolHolds
  <2>5. /\ Total(x, d) \in Int /\ Holdings(x.books, d) \in Int
        /\ OrdersHold(x.orders, d) \in Int /\ PoolsHold(x.markets, d) \in Int
        /\ DuelsHold(x.markets, x.duels, d) \in Int /\ ClaimsTook(x.markets, x.positions, d) \in Int
    BY TotalInt
  <2>6. Total(x, d) = Holdings(x.books, d) + OrdersHold(x.orders, d) + PoolsHold(x.markets, d)
                      + DuelsHold(x.markets, x.duels, d) - ClaimsTook(x.markets, x.positions, d)
    BY DEF Total, Holds
  <2>7. Total(y, d) = Holdings(b, d) + OrdersHold(x.orders, d) + PoolsHold(ms, d)
                      + DuelsHold(ms, x.duels, d) - ClaimsTook(ms, ps, d)
    BY <1>18 DEF Total, Holds
  <2>8. Holdings(b, d) = Holdings(x.books, d) + (IF d = "LYNX" THEN burn ELSE 0)
    BY <1>14
  <2>9. d # market.currency => (IF d = "LYNX" THEN burn ELSE 0) = 0
    BY <1>4, <1>6 DEF Currency
  <2>10. d = market.currency => (IF d = "LYNX" THEN burn ELSE 0) + credited = amount
    BY <1>4, <1>6, <1>7 DEF Currency
  <2> QED
    BY <1>4, <1>6, <1>8, <2>1, <2>2, <2>3, <2>4, <2>5, <2>6, <2>7, <2>8, <2>9, <2>10
<1>32. y.markets[m].status = "ACTIVE"
  BY <1>10, <1>18, <1>19
<1> QED
  BY <1>3, <1>18, <1>20, <1>30, <1>31, <1>32

-----------------------------------------------------------------------------
(* One part of the store replaced                                            *)

WithBooks(x, b) == [x EXCEPT !.books = b]
WithOrders(x, os) == [x EXCEPT !.orders = os]
WithDuels(x, ds) == [x EXCEPT !.duels = ds]

\* What a step of the markets adds to the money of a currency.
Moves(x, y, c, n) ==
  Total(y, c) = Total(x, c) + n /\ OrdersSlack(y.orders, c) = OrdersSlack(x.orders, c)

LEMMA TotalIs ==
  ASSUME NEW c \in Currency, NEW x
  PROVE  Total(x, c) = Holdings(x.books, c) + OrdersHold(x.orders, c) + PoolsHold(x.markets, c)
                       + DuelsHold(x.markets, x.duels, c) - ClaimsTook(x.markets, x.positions, c)
BY DEF Total, Holds

LEMMA WithIs ==
  ASSUME NEW x \in StoreSet, NEW b, NEW os, NEW ds
  PROVE  /\ WithBooks(x, b) = [books |-> b, orders |-> x.orders, trades |-> x.trades,
                               threw |-> x.threw, markets |-> x.markets,
                               positions |-> x.positions, duels |-> x.duels]
         /\ WithOrders(x, os) = [books |-> x.books, orders |-> os, trades |-> x.trades,
                               threw |-> x.threw, markets |-> x.markets,
                               positions |-> x.positions, duels |-> x.duels]
         /\ WithDuels(x, ds) = [books |-> x.books, orders |-> x.orders, trades |-> x.trades,
                               threw |-> x.threw, markets |-> x.markets,
                               positions |-> x.positions, duels |-> ds]
<1>1. x = [books |-> x.books, orders |-> x.orders, trades |-> x.trades, threw |-> x.threw,
           markets |-> x.markets, positions |-> x.positions, duels |-> x.duels]
  BY StoreTypes
<1>2. PICK xb : xb = x.books
  OBVIOUS
<1>3. PICK xo : xo = x.orders
  OBVIOUS
<1>4. PICK xt : xt = x.trades
  OBVIOUS
<1>5. PICK xh : xh = x.threw
  OBVIOUS
<1>6. PICK xm : xm = x.markets
  OBVIOUS
<1>7. PICK xp : xp = x.positions
  OBVIOUS
<1>8. PICK xd : xd = x.duels
  OBVIOUS
<1>9. x = [books |-> xb, orders |-> xo, trades |-> xt, threw |-> xh,
           markets |-> xm, positions |-> xp, duels |-> xd]
  BY <1>1, <1>2, <1>3, <1>4, <1>5, <1>6, <1>7, <1>8
<1>10. /\ WithBooks(x, b) = [books |-> b, orders |-> xo, trades |-> xt, threw |-> xh,
                            markets |-> xm, positions |-> xp, duels |-> xd]
       /\ WithOrders(x, os) = [books |-> xb, orders |-> os, trades |-> xt, threw |-> xh,
                            markets |-> xm, positions |-> xp, duels |-> xd]
       /\ WithDuels(x, ds) = [books |-> xb, orders |-> xo, trades |-> xt, threw |-> xh,
                            markets |-> xm, positions |-> xp, duels |-> ds]
  BY <1>9 DEF WithBooks, WithOrders, WithDuels
<1> QED
  BY <1>2, <1>3, <1>4, <1>5, <1>6, <1>7, <1>8, <1>10

\* Everything but the books is the same.
BooksOnly(x, y, b) ==
  /\ StoreFits(y) /\ y.books = b /\ y.orders = x.orders /\ y.trades = x.trades
  /\ y.threw = x.threw /\ y.markets = x.markets /\ y.positions = x.positions /\ y.duels = x.duels

LEMMA StoreBooks ==
  ASSUME NEW x, StoreFits(x), NEW b \in BooksSet, NEW y, y = WithBooks(x, b)
  PROVE  BooksOnly(x, y, b)
<1>1. x \in StoreSet
  BY DEF StoreFits
<1>2. y = [books |-> b, orders |-> x.orders, trades |-> x.trades, threw |-> x.threw,
           markets |-> x.markets, positions |-> x.positions, duels |-> x.duels]
  BY <1>1, WithIs
<1>3. /\ y.books = b /\ y.orders = x.orders /\ y.trades = x.trades
      /\ y.threw = x.threw /\ y.markets = x.markets /\ y.positions = x.positions /\ y.duels = x.duels
  BY <1>2
<1>4. y \in StoreSet
  BY <1>1, <1>2 DEF StoreSet
<1>5. StoreFits(y)
  BY <1>3, <1>4 DEF StoreFits
<1> QED
  BY <1>3, <1>5 DEF BooksOnly

LEMMA BooksMove ==
  ASSUME NEW c \in Currency, NEW x, StoreFits(x), NEW b \in BooksSet, NEW y, BooksOnly(x, y, b),
         NEW n \in Int, Holdings(b, c) = Holdings(x.books, c) + n
  PROVE  Moves(x, y, c, n)
<1>1. /\ Holdings(x.books, c) \in Int /\ OrdersHold(x.orders, c) \in Int
      /\ PoolsHold(x.markets, c) \in Int /\ DuelsHold(x.markets, x.duels, c) \in Int
      /\ ClaimsTook(x.markets, x.positions, c) \in Int
  BY TotalInt
<1>2. Total(y, c) = Holdings(b, c) + OrdersHold(x.orders, c) + PoolsHold(x.markets, c)
                    + DuelsHold(x.markets, x.duels, c) - ClaimsTook(x.markets, x.positions, c)
  BY TotalIs DEF BooksOnly
<1>3. Total(x, c) = Holdings(x.books, c) + OrdersHold(x.orders, c) + PoolsHold(x.markets, c)
                    + DuelsHold(x.markets, x.duels, c) - ClaimsTook(x.markets, x.positions, c)
  BY TotalIs
<1>4. y.orders = x.orders
  BY DEF BooksOnly
<1> QED
  BY <1>1, <1>2, <1>3, <1>4 DEF Moves

\* Everything but the orders is the same.
OrdersOnly(x, y, os) ==
  /\ StoreFits(y) /\ y.books = x.books /\ y.orders = os /\ y.trades = x.trades
  /\ y.threw = x.threw /\ y.markets = x.markets /\ y.positions = x.positions /\ y.duels = x.duels

LEMMA StoreOrders ==
  ASSUME NEW x, StoreFits(x), NEW os \in Seq(Order), LocksFit(x.markets, os),
         x.threw \/ BookCalm(os), NEW y, y = WithOrders(x, os)
  PROVE  OrdersOnly(x, y, os)
<1>1. x \in StoreSet
  BY DEF StoreFits
<1>2. y = [books |-> x.books, orders |-> os, trades |-> x.trades, threw |-> x.threw,
           markets |-> x.markets, positions |-> x.positions, duels |-> x.duels]
  BY <1>1, WithIs
<1>3. /\ y.books = x.books /\ y.orders = os /\ y.trades = x.trades
      /\ y.threw = x.threw /\ y.markets = x.markets /\ y.positions = x.positions /\ y.duels = x.duels
  BY <1>2
<1>4. y \in StoreSet
  BY <1>1, <1>2 DEF StoreSet
<1>5. StoreFits(y)
  BY <1>3, <1>4 DEF StoreFits, BookCalm
<1> QED
  BY <1>3, <1>5 DEF OrdersOnly

LEMMA OrdersMove ==
  ASSUME NEW c \in Currency, NEW x, StoreFits(x), NEW os \in Seq(Order), NEW y, OrdersOnly(x, y, os),
         NEW n \in Int, OrdersHold(os, c) = OrdersHold(x.orders, c) + n,
         OrdersSlack(os, c) = OrdersSlack(x.orders, c)
  PROVE  Moves(x, y, c, n)
<1>1. /\ Holdings(x.books, c) \in Int /\ OrdersHold(x.orders, c) \in Int
      /\ PoolsHold(x.markets, c) \in Int /\ DuelsHold(x.markets, x.duels, c) \in Int
      /\ ClaimsTook(x.markets, x.positions, c) \in Int
  BY TotalInt
<1>2. Total(y, c) = Holdings(x.books, c) + OrdersHold(os, c) + PoolsHold(x.markets, c)
                    + DuelsHold(x.markets, x.duels, c) - ClaimsTook(x.markets, x.positions, c)
  BY TotalIs DEF OrdersOnly
<1>3. Total(x, c) = Holdings(x.books, c) + OrdersHold(x.orders, c) + PoolsHold(x.markets, c)
                    + DuelsHold(x.markets, x.duels, c) - ClaimsTook(x.markets, x.positions, c)
  BY TotalIs
<1>4. y.orders = os
  BY DEF OrdersOnly
<1> QED
  BY <1>1, <1>2, <1>3, <1>4 DEF Moves

\* Everything but the duels is the same.
DuelsOnly(x, y, ds) ==
  /\ StoreFits(y) /\ y.books = x.books /\ y.orders = x.orders /\ y.trades = x.trades
  /\ y.threw = x.threw /\ y.markets = x.markets /\ y.positions = x.positions /\ y.duels = ds

LEMMA StoreDuels ==
  ASSUME NEW x, StoreFits(x), NEW ds \in Seq(DuelRecord), DuelsFit(x.markets, ds),
         NEW y, y = WithDuels(x, ds)
  PROVE  DuelsOnly(x, y, ds)
<1>1. x \in StoreSet
  BY DEF StoreFits
<1>2. y = [books |-> x.books, orders |-> x.orders, trades |-> x.trades, threw |-> x.threw,
           markets |-> x.markets, positions |-> x.positions, duels |-> ds]
  BY <1>1, WithIs
<1>3. /\ y.books = x.books /\ y.orders = x.orders /\ y.trades = x.trades
      /\ y.threw = x.threw /\ y.markets = x.markets /\ y.positions = x.positions /\ y.duels = ds
  BY <1>2
<1>4. y \in StoreSet
  BY <1>1, <1>2 DEF StoreSet
<1>5. StoreFits(y)
  BY <1>3, <1>4 DEF StoreFits
<1> QED
  BY <1>3, <1>5 DEF DuelsOnly

LEMMA DuelsMove ==
  ASSUME NEW c \in Currency, NEW x, StoreFits(x), NEW ds \in Seq(DuelRecord), NEW y,
         DuelsOnly(x, y, ds), NEW n \in Int,
         DuelsHold(x.markets, ds, c) = DuelsHold(x.markets, x.duels, c) + n
  PROVE  Moves(x, y, c, n)
<1>1. /\ Holdings(x.books, c) \in Int /\ OrdersHold(x.orders, c) \in Int
      /\ PoolsHold(x.markets, c) \in Int /\ DuelsHold(x.markets, x.duels, c) \in Int
      /\ ClaimsTook(x.markets, x.positions, c) \in Int
  BY TotalInt
<1>2. Total(y, c) = Holdings(x.books, c) + OrdersHold(x.orders, c) + PoolsHold(x.markets, c)
                    + DuelsHold(x.markets, ds, c) - ClaimsTook(x.markets, x.positions, c)
  BY TotalIs DEF DuelsOnly
<1>3. Total(x, c) = Holdings(x.books, c) + OrdersHold(x.orders, c) + PoolsHold(x.markets, c)
                    + DuelsHold(x.markets, x.duels, c) - ClaimsTook(x.markets, x.positions, c)
  BY TotalIs
<1>4. y.orders = x.orders
  BY DEF DuelsOnly
<1> QED
  BY <1>1, <1>2, <1>3, <1>4 DEF Moves

LEMMA MovesAdd ==
  ASSUME NEW c \in Currency, NEW x, StoreFits(x), NEW y, NEW z, NEW n \in Int, NEW k \in Int,
         Moves(x, y, c, n), Moves(y, z, c, k)
  PROVE  Moves(x, z, c, n + k)
<1>1. Total(x, c) \in Int
  BY TotalInt
<1> QED
  BY <1>1 DEF Moves

-----------------------------------------------------------------------------
(* Limit entries that fill                                                   *)

FilledOrder(o) == [o EXCEPT !.remaining = 0, !.status = "FILLED", !.spent = o.locked]

FilledIs(o, q) ==
  /\ q \in Order /\ Aside(q) /\ q.pair = o.pair /\ q.lockedCurrency = o.lockedCurrency
  /\ o.remaining \in Nat \ {0} /\ o.position \in Position /\ o.owner \in Wallets
  /\ \A c \in Currency :
       /\ OrderHolds(q, c) = 0 /\ OrderSlack(q, c) = 0 /\ OrderSlack(o, c) = 0
       /\ OrderHolds(o, c) = IF c = o.lockedCurrency THEN o.remaining ELSE 0

LEMMA FilledFits ==
  ASSUME NEW o \in Order, o.pair # Pair, o.status = "OPEN", NEW q, q = FilledOrder(o)
  PROVE  FilledIs(o, q)
<1>1. /\ o \in OrderRecord /\ OrderFits(o) /\ o.remaining \in Nat /\ o.owner \in Wallets
      /\ o.spent \in Nat /\ o.side \in {"BUY", "SELL"}
  BY OrderTypes
<1>2. /\ o.side = "BUY" /\ o.locked # NoLock /\ o.position \in Position
      /\ o.locked = o.remaining /\ o.spent = 0 /\ o.remaining > 0
  BY <1>1 DEF OrderFits, Resting
<1>3. q = [pair |-> o.pair, owner |-> o.owner, side |-> o.side, position |-> o.position,
           amount |-> o.amount, remaining |-> 0, price |-> o.price, status |-> "FILLED",
           lockedCurrency |-> o.lockedCurrency, locked |-> o.locked, spent |-> o.locked]
  <2>1. o = [pair |-> o.pair, owner |-> o.owner, side |-> o.side, position |-> o.position,
             amount |-> o.amount, remaining |-> o.remaining, price |-> o.price,
             status |-> o.status, lockedCurrency |-> o.lockedCurrency, locked |-> o.locked,
             spent |-> o.spent]
    BY <1>1 DEF OrderRecord
  <2> QED
    BY <2>1 DEF FilledOrder
<1>4. /\ q.pair = o.pair /\ q.side = "BUY" /\ q.remaining = 0 /\ q.status = "FILLED"
      /\ q.locked = o.locked /\ q.spent = o.locked /\ q.lockedCurrency = o.lockedCurrency
      /\ q.position = o.position
  BY <1>2, <1>3
<1>5. q \in OrderRecord
  BY <1>1, <1>2, <1>3 DEF OrderRecord, Resting, Closed
<1>6. OrderFits(q)
  BY <1>2, <1>4 DEF OrderFits, Resting
<1>7. Aside(q)
  BY <1>4 DEF Aside
<1>8. ASSUME NEW c \in Currency
      PROVE  /\ OrderHolds(q, c) = 0 /\ OrderSlack(q, c) = 0 /\ OrderSlack(o, c) = 0
             /\ OrderHolds(o, c) = IF c = o.lockedCurrency THEN o.remaining ELSE 0
  <2>1. OrderHolds(q, c) = 0 /\ OrderSlack(q, c) = 0 /\ OrderSlack(o, c) = 0
    BY <1>4 DEF OrderHolds, OrderSlack, Closed
  <2>2. OrderHolds(o, c) = IF c = o.lockedCurrency THEN o.remaining ELSE 0
    BY <1>1, <1>2 DEF OrderHolds, Closed
  <2> QED
    BY <2>1, <2>2
<1> QED
  BY <1>1, <1>2, <1>4, <1>5, <1>6, <1>7, <1>8 DEF FilledIs, Order

\* The stores that filling orders of m may lead to.
PassesTo(m, x) ==
  {y \in StoreSet :
     /\ StoreFits(y) /\ \A c \in Currency : Moves(x, y, c, 0)
     /\ y.threw = x.threw /\ y.duels = x.duels /\ y.trades = x.trades
     /\ DOMAIN y.orders = DOMAIN x.orders
     /\ OnlyMarket(m, x.markets, y.markets) /\ y.markets[m].status \in Entering}

LEMMA PassesChain ==
  ASSUME NEW m \in Markets, NEW x, StoreFits(x), NEW y \in PassesTo(m, x), NEW z \in PassesTo(m, y)
  PROVE  z \in PassesTo(m, x)
<1>1. /\ z \in StoreSet /\ StoreFits(z) /\ z.threw = x.threw /\ z.duels = x.duels
      /\ z.trades = x.trades /\ DOMAIN z.orders = DOMAIN x.orders
      /\ OnlyMarket(m, x.markets, z.markets) /\ z.markets[m].status \in Entering
  BY DEF PassesTo, OnlyMarket, SameCurrency
<1>2. ASSUME NEW c \in Currency PROVE Moves(x, z, c, 0)
  <2>1. Moves(x, y, c, 0) /\ Moves(y, z, c, 0)
    BY DEF PassesTo
  <2>2. Total(x, c) \in Int
    BY TotalInt
  <2> QED
    BY <2>1, <2>2 DEF Moves
<1> QED
  BY <1>1, <1>2 DEF PassesTo

LEMMA PassesStay ==
  ASSUME NEW m \in Markets, NEW x, StoreFits(x), x.markets[m].status \in Entering
  PROVE  x \in PassesTo(m, x)
<1>1. ASSUME NEW c \in Currency PROVE Moves(x, x, c, 0)
  BY TotalInt DEF Moves
<1> QED
  BY <1>1 DEF PassesTo, StoreFits, OnlyMarket, SameCurrency

LEMMA LimitOrderFills ==
  ASSUME NEW m \in Markets, NEW x, StoreFits(x), NEW i \in DOMAIN x.orders,
         x.orders[i].pair = m, x.orders[i].status = "OPEN", x.markets[m].status \in Entering,
         NEW y, y = FillLimitOrder(x, i)
  PROVE  y \in PassesTo(m, x)
<1>1. x.orders \in Seq(Order) /\ LocksFit(x.markets, x.orders)
  BY StoreTypes DEF StoreFits
<1>2. PICK o : o = x.orders[i]
  OBVIOUS
<1>3. o \in Order /\ o.pair = m /\ o.pair # Pair /\ o.status = "OPEN"
      /\ o.lockedCurrency = x.markets[m].currency
  <2>1. o \in Order
    BY <1>1, <1>2, OrdersFinite
  <2>2. m # Pair
    BY MarketAssumption
  <2> QED
    BY <1>1, <1>2, <2>1, <2>2 DEF LocksFit
<1>4. PICK q : q = FilledOrder(o)
  OBVIOUS
<1>5. FilledIs(o, q)
  BY <1>3, <1>4, FilledFits
<1>6. PICK z : z = EnterPool(x, m, o.owner, o.position, o.remaining)
  OBVIOUS
<1>7. /\ StoreFits(z) /\ z.orders = x.orders /\ z.duels = x.duels /\ z.threw = x.threw
      /\ z.trades = x.trades
      /\ OnlyMarket(m, x.markets, z.markets) /\ z.markets[m].status = "ACTIVE"
      /\ \A d \in Currency :
              Total(z, d) = Total(x, d) + (IF d = x.markets[m].currency THEN o.remaining ELSE 0)
  <2>1. o.owner \in Wallets /\ o.position \in Position /\ o.remaining \in Nat \ {0}
    BY <1>5 DEF FilledIs
  <2> QED
    BY <1>6, <2>1, EnterPoolFits
<1>8. PICK os : os = [x.orders EXCEPT ![i] = q]
  OBVIOUS
<1>9. y = WithOrders(z, os)
  BY <1>2, <1>3, <1>4, <1>6, <1>7, <1>8 DEF FillLimitOrder, WithOrders, FilledOrder
<1>10. /\ os \in Seq(Order) /\ DOMAIN os = DOMAIN x.orders
       /\ os[i] = q /\ \A j \in DOMAIN x.orders \ {i} : os[j] = x.orders[j]
  <2>1. q \in Order
    BY <1>5 DEF FilledIs
  <2> QED
    BY <1>1, <1>8, <2>1, OrderReplacedTypes
<1>11. z.threw \/ BookCalm(os)
  <2>1. x.threw \/ BookCalm(x.orders)
    BY DEF StoreFits, BookCalm
  <2>2. q \in Order /\ Aside(q)
    BY <1>5 DEF FilledIs
  <2>3. BookCalm(x.orders) => BookCalm(os)
    BY <1>1, <1>8, <2>2, CalmReplaced
  <2> QED
    BY <1>7, <2>1, <2>3
<1>12. LocksFit(z.markets, os)
  <2>1. LocksFit(z.markets, z.orders)
    BY <1>7 DEF StoreFits
  <2>2. q.pair = o.pair /\ q.lockedCurrency = o.lockedCurrency
    BY <1>5 DEF FilledIs
  <2> QED
    BY <1>2, <1>7, <1>10, <2>1, <2>2 DEF LocksFit
<1>13. OrdersOnly(z, y, os)
  BY <1>7, <1>9, <1>10, <1>11, <1>12, StoreOrders
<1>14. ASSUME NEW c \in Currency PROVE Moves(x, y, c, 0)
  <2>1. PICK n : n = IF c = o.lockedCurrency THEN o.remaining ELSE 0
    OBVIOUS
  <2>2. /\ n \in Int /\ OrderHolds(o, c) = n /\ OrderHolds(q, c) = 0
        /\ OrderSlack(o, c) = 0 /\ OrderSlack(q, c) = 0 /\ q \in Order
    BY <1>5, <2>1 DEF FilledIs
  <2>3. PICK xo : xo = x.orders
    OBVIOUS
  <2>4. /\ OrdersHold(os, c) = OrdersHold(xo, c) - OrderHolds(xo[i], c) + OrderHolds(q, c)
        /\ OrdersSlack(os, c) = OrdersSlack(xo, c) - OrderSlack(xo[i], c) + OrderSlack(q, c)
    <3>1. /\ xo \in Seq(Order) /\ i \in DOMAIN xo /\ q \in Order
          /\ os = [xo EXCEPT ![i] = q]
      BY <1>1, <1>8, <2>2, <2>3
    <3> QED
      BY <3>1, HoldsReplaced
  <2>5. xo[i] = o /\ OrdersHold(xo, c) \in Int /\ OrdersSlack(xo, c) \in Nat
    BY <1>1, <1>2, <2>3, OrdersHoldInt
  <2>6. /\ OrdersHold(os, c) = OrdersHold(z.orders, c) + (0 - n)
        /\ OrdersSlack(os, c) = OrdersSlack(z.orders, c)
    BY <1>7, <2>2, <2>3, <2>4, <2>5
  <2>7. 0 - n \in Int
    BY <2>2
  <2>8. Moves(z, y, c, 0 - n)
    BY <1>7, <1>10, <1>13, <2>6, <2>7, OrdersMove
  <2>9. Total(z, c) = Total(x, c) + n
    BY <1>3, <1>7, <2>1
  <2>10. Total(x, c) \in Int
    BY TotalInt
  <2> QED
    BY <1>7, <2>2, <2>8, <2>9, <2>10 DEF Moves
<1> QED
  BY <1>7, <1>10, <1>13, <1>14 DEF PassesTo, OrdersOnly, Entering, StoreFits

LEMMA PassesRun ==
  ASSUME NEW m \in Markets, NEW x, StoreFits(x), x.markets[m].status \in Entering,
         NEW y, y = matchPredictionOrders(x, m)
  PROVE  y \in PassesTo(m, x)
<1> DEFINE A == PassesTo(m, x)
<1>1. PICK n : n = Len(x.orders)
  OBVIOUS
<1>2. DOMAIN x.orders = 1..n /\ n \in Nat
  BY <1>1, StoreTypes, OrdersFinite DEF StoreFits
<1>3. x \in A
  BY PassesStay
<1>4. ASSUME NEW a \in A, NEW i \in 1..n
      PROVE  TryFill(m, a, i) \in A
  <2>1. StoreFits(a) /\ i \in DOMAIN a.orders /\ a.markets[m].status \in Entering
    BY <1>2 DEF PassesTo
  <2>2. CASE a.orders[i].pair = m /\ a.orders[i].status = "OPEN"
    <3>1. FillLimitOrder(a, i) \in PassesTo(m, a)
      BY <2>1, <2>2, LimitOrderFills
    <3>2. FillLimitOrder(a, i) \in A
      BY <3>1, PassesChain
    <3> QED
      BY <3>2 DEF TryFill
  <2>3. CASE ~(a.orders[i].pair = m /\ a.orders[i].status = "OPEN")
    BY <2>3 DEF TryFill
  <2> QED
    BY <2>2, <2>3
<1>5. ASSUME NEW a \in A
      PROVE  FillPass(m, a) \in A
  <2>1. DOMAIN a.orders = 1..n
    BY <1>2 DEF PassesTo
  <2>2. \A b \in A, i \in 1..n : TryFill(m, b, i) \in A
    BY <1>4
  <2> HIDE DEF A
  <2> QED
    BY <1>2, <2>1, <2>2, FillPassIn
<1>6. FillPasses(m, x) \in A
  <2>1. \A a \in A, i \in 1..n : FillPass(m, a) \in A
    BY <1>5
  <2> HIDE DEF A
  <2> QED
    BY <1>2, <1>3, <2>1, FillPassesIn
<1> QED
  BY <1>3, <1>6 DEF matchPredictionOrders

-----------------------------------------------------------------------------
(* The steps of entries                                                      *)

\* Nothing was added to market k: no money to its pool and no stake of a duel.
Untouched(x, y, k) ==
  /\ y.markets[k].poolAmount = x.markets[k].poolAmount
  /\ \A d \in DOMAIN y.duels :
       y.duels[d].market = k /\ y.duels[d].status \in Entering
       => d \in DOMAIN x.duels /\ x.duels[d].status = y.duels[d].status

SameEnds(ms, new) == \A k \in Markets : new[k].status = "RESOLVED" <=> ms[k].status = "RESOLVED"

\* What every step but a resolution does to the store.
StoreSteps(x, y) ==
  /\ StoreFits(y) /\ \A c \in Currency : Moves(x, y, c, 0)
  /\ SameEnds(x.markets, y.markets) /\ (y.threw <=> x.threw)
  /\ \A k \in Markets : AcceptsEntries(k) \/ Untouched(x, y, k)

LEMMA StoreIs ==
  ASSUME StoreFits(Store)
  PROVE  /\ Store \in StoreSet /\ Store.books = Books /\ Store.orders = orders
         /\ Store.trades = trades /\ Store.threw = threw /\ Store.markets = markets
         /\ Store.positions = positions /\ Store.duels = duels
         /\ Books \in BooksSet /\ orders \in Seq(Order) /\ trades \in Seq(TradeRecord)
         /\ threw \in BOOLEAN /\ markets \in [Markets -> MarketRecord]
         /\ positions \in Seq(PositionRecord) /\ duels \in Seq(DuelRecord)
<1>1. /\ Store.books = Books /\ Store.orders = orders
      /\ Store.trades = trades /\ Store.threw = threw /\ Store.markets = markets
      /\ Store.positions = positions /\ Store.duels = duels
  BY DEF Store
<1>2. Store \in StoreSet
  BY DEF StoreFits
<1>3. PICK x : x = Store
  OBVIOUS
<1>4. /\ x.books \in BooksSet /\ x.orders \in Seq(Order) /\ x.trades \in Seq(TradeRecord)
      /\ x.threw \in BOOLEAN /\ x.markets \in [Markets -> MarketRecord]
      /\ x.positions \in Seq(PositionRecord) /\ x.duels \in Seq(DuelRecord)
  BY <1>2, <1>3, StoreTypes
<1> QED
  BY <1>1, <1>2, <1>3, <1>4

LEMMA StoreBecomes ==
  ASSUME NEW y \in StoreSet, SetStore(y)
  PROVE  Store' = y /\ pastCutoff' = pastCutoff
<1>1. /\ wallets' = y.books.wallets /\ treasury' = y.books.treasury
      /\ orders' = y.orders /\ trades' = y.trades /\ threw' = y.threw
      /\ markets' = y.markets /\ positions' = y.positions /\ duels' = y.duels
      /\ pastCutoff' = pastCutoff
  BY DEF SetStore, SetExchange, SetBooks
<1>2. y.books = [wallets |-> y.books.wallets, treasury |-> y.books.treasury]
  <2>1. y.books \in BooksSet
    BY StoreTypes
  <2> QED
    BY <2>1 DEF BooksSet
<1>3. y = [books |-> y.books, orders |-> y.orders, trades |-> y.trades, threw |-> y.threw,
           markets |-> y.markets, positions |-> y.positions, duels |-> y.duels]
  BY StoreTypes
<1>4. Books' = y.books
  BY <1>1, <1>2 DEF Books
<1>5. Store' = [books |-> y.books, orders |-> y.orders, trades |-> y.trades, threw |-> y.threw,
           markets |-> y.markets, positions |-> y.positions, duels |-> y.duels]
  BY <1>1, <1>4 DEF Store
<1> QED
  BY <1>1, <1>3, <1>5

LEMMA SidesIn ==
  ASSUME NEW m
  PROVE  Sides(m) \subseteq Position
BY DEF Sides, normalizePosition, Position

\* Passes after which the pool of m alone may have grown.
LEMMA EntrySteps ==
  ASSUME StoreFits(Store), NEW m \in Markets, AcceptsEntries(m),
         NEW z, StoreFits(z), z.markets[m].status \in Entering,
         z.threw = threw, z.duels = duels, OnlyMarket(m, markets, z.markets),
         \A c \in Currency : Moves(Store, z, c, 0),
         SetStore(matchPredictionOrders(z, m))
  PROVE  StoreSteps(Store, Store') /\ pastCutoff' = pastCutoff
<1>1. PICK y : y = matchPredictionOrders(z, m)
  OBVIOUS
<1>2. y \in PassesTo(m, z)
  BY <1>1, PassesRun
<1>3. /\ y \in StoreSet /\ StoreFits(y) /\ y.threw = threw /\ y.duels = duels
      /\ OnlyMarket(m, z.markets, y.markets) /\ y.markets[m].status \in Entering
      /\ \A c \in Currency : Moves(z, y, c, 0)
  BY <1>2 DEF PassesTo
<1>4. Store' = y /\ pastCutoff' = pastCutoff
  BY <1>1, <1>3, StoreBecomes
<1>5. Store.threw = threw /\ Store.duels = duels /\ Store.markets = markets
  BY StoreIs
<1>6. ASSUME NEW c \in Currency PROVE Moves(Store, y, c, 0)
  <2>1. Moves(Store, z, c, 0) /\ Moves(z, y, c, 0)
    BY <1>3
  <2>2. Total(Store, c) \in Int
    BY TotalInt
  <2> QED
    BY <2>1, <2>2 DEF Moves
<1>7. \A k \in Markets \ {m} : y.markets[k] = markets[k]
  BY <1>3 DEF OnlyMarket
<1>8. SameEnds(markets, y.markets)
  <2>1. markets[m].status # "RESOLVED" /\ y.markets[m].status # "RESOLVED"
    BY <1>3 DEF AcceptsEntries, Entering
  <2> QED
    BY <1>7, <2>1 DEF SameEnds
<1>9. ASSUME NEW k \in Markets PROVE AcceptsEntries(k) \/ Untouched(Store, y, k)
  <2>1. CASE k = m
    BY <2>1
  <2>2. CASE k # m
    BY <1>3, <1>5, <1>7, <2>2 DEF Untouched
  <2> QED
    BY <2>1, <2>2
<1>10. StoreSteps(Store, y)
  BY <1>3, <1>5, <1>6, <1>8, <1>9 DEF StoreSteps
<1> QED
  BY <1>4, <1>10

LEMMA TradeEnters ==
  ASSUME StoreFits(Store), NEW m \in Markets, NEW w \in Wallets, NEW amount \in MarketAmounts,
         NEW p \in Sides(m), executePredictionTrade(w, m, p, amount)
  PROVE  StoreSteps(Store, Store') /\ pastCutoff' = pastCutoff
<1>1. p \in Position /\ amount \in Nat \ {0}
  BY SidesIn, MarketAssumption
<1>2. AcceptsEntries(m) /\ markets[m].status \in Entering
  BY DEF executePredictionTrade, AcceptsEntries, Entering
<1>3. PICK c : c = markets[m].currency
  OBVIOUS
<1>4. /\ Store.books = Books /\ Store.markets = markets /\ Store.duels = duels
      /\ Store.threw = threw /\ Books \in BooksSet /\ c \in Currency
  BY <1>3, StoreIs, MarketTypes
<1>5. PICK b : b = debit(Books, w, c, amount)
  OBVIOUS
<1>6. b \in BooksSet /\ \A d \in Currency : Holdings(b, d) = Holdings(Books, d) - (IF d = c THEN amount ELSE 0)
  <2>1. amount \in Int
    BY <1>1
  <2> QED
    BY <1>4, <1>5, <2>1, DebitFits
<1>7. PICK x : x = WithBooks(Store, b)
  OBVIOUS
<1>8. BooksOnly(Store, x, b)
  BY <1>6, <1>7, StoreBooks
<1>9. PICK z : z = EnterPool(x, m, w, p, amount)
  OBVIOUS
<1>10. StoreFits(x) /\ x.markets = markets /\ x.duels = duels /\ x.threw = threw
  BY <1>4, <1>8 DEF BooksOnly
<1>11. /\ StoreFits(z) /\ z.orders = x.orders /\ z.duels = x.duels /\ z.threw = x.threw
       /\ OnlyMarket(m, x.markets, z.markets) /\ z.markets[m].status = "ACTIVE"
       /\ \A d \in Currency :
            Total(z, d) = Total(x, d) + (IF d = x.markets[m].currency THEN amount ELSE 0)
  <2>1. x.markets[m].status \in Entering
    BY <1>2, <1>10
  <2> QED
    BY <1>1, <1>9, <1>10, <2>1, EnterPoolFits
<1>12. ASSUME NEW d \in Currency PROVE Moves(Store, z, d, 0)
  <2>1. PICK n : n = IF d = c THEN amount ELSE 0
    OBVIOUS
  <2>2. n \in Int /\ 0 - n \in Int
    BY <1>1, <2>1
  <2>3. Holdings(b, d) = Holdings(Store.books, d) + (0 - n)
    <3>1. Holdings(Books, d) \in Int
      BY <1>4, HoldingsInt
    <3> QED
      BY <1>4, <1>6, <2>1, <2>2, <3>1
  <2>4. Moves(Store, x, d, 0 - n)
    BY <1>6, <1>8, <2>2, <2>3, BooksMove
  <2>5. Total(z, d) = Total(x, d) + n
    BY <1>3, <1>10, <1>11, <2>1
  <2>6. Total(Store, d) \in Int
    BY TotalInt
  <2> QED
    BY <1>11, <2>2, <2>4, <2>5, <2>6 DEF Moves
<1>13. SetStore(matchPredictionOrders(z, m))
  BY <1>3, <1>4, <1>5, <1>7, <1>9 DEF executePredictionTrade, WithBooks
<1>14. z.markets[m].status \in Entering /\ z.threw = threw /\ z.duels = duels
       /\ OnlyMarket(m, markets, z.markets)
  BY <1>10, <1>11 DEF Entering
<1> QED
  BY <1>2, <1>11, <1>12, <1>13, <1>14, EntrySteps

-----------------------------------------------------------------------------
(* Limit entries                                                             *)

LEMMA PriceNat ==
  ASSUME NEW x \in StoreSet, NEW m \in Markets, NEW p \in Position
  PROVE  estimatePositionPrice(x, m, p) \in Nat
<1>1. PICK market : market = x.markets[m]
  OBVIOUS
<1>2. market.poolAmount \in Nat /\ market.side[p] \in Nat
  <2>1. market \in MarketRecord
    BY <1>1, StoreTypes
  <2> QED
    BY <2>1, MarketTypes
<1>3. PICK odds : odds = roundAmount(market.side[p] * 100, market.poolAmount)
  OBVIOUS
<1>4. market.poolAmount # 0 => odds \in Nat
  <2>1. market.side[p] * 100 \in Nat
    BY <1>2
  <2> QED
    BY <1>2, <1>3, <2>1, RoundFits
<1>5. estimatePositionPrice(x, m, p) =
        IF market.poolAmount = 0 THEN IF market.isTernary THEN 33 ELSE 50
        ELSE IF odds < 1 THEN 1 ELSE IF odds > 99 THEN 99 ELSE odds
  BY <1>1, <1>3 DEF estimatePositionPrice
<1> QED
  BY <1>4, <1>5

\* The order of a limit entry.
EntryOrder(m, w, p, amount, price, c) ==
  [NewOrder(w, "BUY", amount, price, [c |-> c, amount |-> amount]) EXCEPT !.pair = m, !.position = p]

EntryIs(m, c, amount, o) ==
  /\ o \in Order /\ Aside(o) /\ o.pair = m /\ o.lockedCurrency = c
  /\ \A d \in Currency :
       OrderHolds(o, d) = (IF d = c THEN amount ELSE 0) /\ OrderSlack(o, d) = 0

LEMMA EntryFits ==
  ASSUME NEW m \in Markets, NEW w \in Wallets, NEW p \in Position, NEW amount \in Nat \ {0},
         NEW price \in Nat, NEW c \in Currency, NEW o, o = EntryOrder(m, w, p, amount, price, c)
  PROVE  EntryIs(m, c, amount, o)
<1>1. o = [pair |-> m, owner |-> w, side |-> "BUY", position |-> p, amount |-> amount,
           remaining |-> amount, price |-> price, status |-> "OPEN",
           lockedCurrency |-> c, locked |-> amount, spent |-> 0]
  BY DEF EntryOrder, NewOrder
<1>2. m # Pair /\ amount # NoLock
  BY MarketAssumption, BookAssumption
<1>3. o \in OrderRecord
  BY <1>1 DEF OrderRecord, Resting
<1>4. OrderFits(o)
  BY <1>1, <1>2 DEF OrderFits, Resting
<1>5. Aside(o) /\ o.pair = m /\ o.lockedCurrency = c
  BY <1>1, <1>2 DEF Aside
<1>6. ASSUME NEW d \in Currency
      PROVE  OrderHolds(o, d) = (IF d = c THEN amount ELSE 0) /\ OrderSlack(o, d) = 0
  BY <1>1, <1>2 DEF OrderHolds, OrderSlack, Closed
<1> QED
  BY <1>3, <1>4, <1>5, <1>6 DEF EntryIs, Order

LEMMA OrderEnters ==
  ASSUME StoreFits(Store), NEW m \in Markets, NEW w \in Wallets, NEW amount \in MarketAmounts,
         NEW p \in Sides(m), NEW limit \in LimitOdds \cup {NoPrice},
         placePredictionOrder(w, m, p, amount, limit)
  PROVE  StoreSteps(Store, Store') /\ pastCutoff' = pastCutoff
<1>1. p \in Position /\ amount \in Nat \ {0}
  BY SidesIn, MarketAssumption
<1>2. AcceptsEntries(m) /\ markets[m].status \in Entering
  BY DEF placePredictionOrder, AcceptsEntries, Entering
<1>3. PICK c : c = markets[m].currency
  OBVIOUS
<1>4. /\ Store.books = Books /\ Store.markets = markets /\ Store.duels = duels
      /\ Store.threw = threw /\ Store.orders = orders
      /\ Books \in BooksSet /\ c \in Currency /\ orders \in Seq(Order) /\ Store \in StoreSet
  BY <1>3, StoreIs, MarketTypes
<1>5. PICK b : b = debit(Books, w, c, amount)
  OBVIOUS
<1>6. b \in BooksSet /\ \A d \in Currency : Holdings(b, d) = Holdings(Books, d) - (IF d = c THEN amount ELSE 0)
  <2>1. amount \in Int
    BY <1>1
  <2> QED
    BY <1>4, <1>5, <2>1, DebitFits
<1>7. PICK x : x = WithBooks(Store, b)
  OBVIOUS
<1>8. BooksOnly(Store, x, b)
  BY <1>6, <1>7, StoreBooks
<1>9. PICK price : price = IF limit = NoPrice THEN estimatePositionPrice(Store, m, p) ELSE limit
  OBVIOUS
<1>10. price \in Nat
  BY <1>1, <1>4, <1>9, PriceNat, MarketAssumption
<1>11. PICK o : o = EntryOrder(m, w, p, amount, price, c)
  OBVIOUS
<1>12. EntryIs(m, c, amount, o)
  BY <1>1, <1>4, <1>10, <1>11, EntryFits
<1>13. PICK os : os = Append(orders, o)
  OBVIOUS
<1>14. PICK n : n = Len(orders) + 1
  OBVIOUS
<1>15. /\ os \in Seq(Order) /\ DOMAIN os = DOMAIN orders \cup {n}
       /\ os[n] = o /\ \A j \in DOMAIN orders : os[j] = orders[j]
  <2>1. o \in Order
    BY <1>12 DEF EntryIs
  <2> QED
    BY <1>4, <1>13, <1>14, <2>1, OrderAppendedTypes
<1>16. PICK z : z = WithOrders(x, os)
  OBVIOUS
<1>17. StoreFits(x) /\ x.markets = markets /\ x.duels = duels /\ x.threw = threw /\ x.orders = orders
  BY <1>4, <1>8 DEF BooksOnly
<1>18. OrdersOnly(x, z, os)
  <2>1. LocksFit(x.markets, os)
    <3>1. LocksFit(markets, orders)
      BY <1>4 DEF StoreFits
    <3>2. o.pair = m /\ o.lockedCurrency = markets[m].currency
      BY <1>3, <1>12 DEF EntryIs
    <3> QED
      BY <1>15, <1>17, <3>1, <3>2 DEF LocksFit
  <2>2. x.threw \/ BookCalm(os)
    <3>1. x.threw \/ BookCalm(orders)
      BY <1>17 DEF StoreFits, BookCalm
    <3>2. o \in Order /\ Aside(o)
      BY <1>12 DEF EntryIs
    <3>3. BookCalm(orders) => BookCalm(os)
      BY <1>4, <1>13, <3>2, CalmAppended
    <3> QED
      BY <3>1, <3>3
  <2> QED
    BY <1>15, <1>16, <1>17, <2>1, <2>2, StoreOrders
<1>19. ASSUME NEW d \in Currency PROVE Moves(Store, z, d, 0)
  <2>1. PICK k : k = IF d = c THEN amount ELSE 0
    OBVIOUS
  <2>2. k \in Int /\ 0 - k \in Int
    BY <1>1, <2>1
  <2>3. Holdings(b, d) = Holdings(Store.books, d) + (0 - k)
    <3>1. Holdings(Books, d) \in Int
      BY <1>4, HoldingsInt
    <3> QED
      BY <1>4, <1>6, <2>1, <2>2, <3>1
  <2>4. Moves(Store, x, d, 0 - k)
    BY <1>6, <1>8, <2>2, <2>3, BooksMove
  <2>5. OrdersHold(os, d) = OrdersHold(x.orders, d) + k /\ OrdersSlack(os, d) = OrdersSlack(x.orders, d)
    <3>1. o \in Order /\ OrderHolds(o, d) = k /\ OrderSlack(o, d) = 0
      BY <1>12, <2>1 DEF EntryIs
    <3>2. /\ OrdersHold(os, d) = OrdersHold(orders, d) + OrderHolds(o, d)
          /\ OrdersSlack(os, d) = OrdersSlack(orders, d) + OrderSlack(o, d)
      BY <1>4, <1>13, <1>14, <3>1, HoldsAppended
    <3>3. OrdersSlack(orders, d) \in Nat
      BY <1>4, OrdersHoldInt
    <3> QED
      BY <1>17, <3>1, <3>2, <3>3
  <2>6. Moves(x, z, d, k)
    BY <1>15, <1>17, <1>18, <2>2, <2>5, OrdersMove
  <2>7. Total(Store, d) \in Int
    BY TotalInt
  <2> QED
    BY <2>2, <2>4, <2>6, <2>7 DEF Moves
<1>20. SetStore(matchPredictionOrders(z, m))
  <2>1. PICK order : order = [NewOrder(w, "BUY", amount, price, [c |-> c, amount |-> amount])
                                EXCEPT !.pair = m, !.position = p]
    OBVIOUS
  <2>2. SetStore(matchPredictionOrders(
          [Store EXCEPT !.books = debit(Store.books, w, c, amount),
                        !.orders = Append(Store.orders, order)], m))
    BY <1>3, <1>9, <2>1 DEF placePredictionOrder
  <2>3. order = o
    BY <1>11, <2>1 DEF EntryOrder
  <2>4. z = [[Store EXCEPT !.books = b] EXCEPT !.orders = os]
    BY <1>7, <1>16 DEF WithBooks, WithOrders
  <2> QED
    BY <1>4, <1>5, <1>13, <2>2, <2>3, <2>4
<1>21. StoreFits(z) /\ z.markets[m].status \in Entering /\ z.threw = threw /\ z.duels = duels
       /\ OnlyMarket(m, markets, z.markets)
  BY <1>2, <1>17, <1>18 DEF OrdersOnly, OnlyMarket, SameCurrency
<1> QED
  BY <1>2, <1>19, <1>20, <1>21, EntrySteps

-----------------------------------------------------------------------------
(* Duels                                                                     *)

StakeTaken(b, c, n, a) ==
  /\ a \in BooksSet /\ n \in Nat
  /\ \A d \in Currency : Holdings(a, d) = Holdings(b, d) + (IF d = c THEN 0 - n ELSE 0)

\* A stake is debited in full, and the part of it that is burned leaves the supply.
LEMMA StakeFits ==
  ASSUME NEW b \in BooksSet, NEW w \in Wallets, NEW c \in Currency, NEW amount \in Nat,
         NEW n, n = amount - Burn(c, amount),
         NEW a, a = CountBurn(debit(b, w, c, amount), Burn(c, amount))
  PROVE  StakeTaken(b, c, n, a)
<1>1. PICK burn : burn = Burn(c, amount)
  OBVIOUS
<1>2. burn \in Nat /\ burn <= amount /\ (c = "SOL" => burn = 0)
  BY <1>1, BurnFits
<1>3. PICK e : e = debit(b, w, c, amount)
  OBVIOUS
<1>4. e \in BooksSet /\ \A d \in Currency : Holdings(e, d) = Holdings(b, d) - (IF d = c THEN amount ELSE 0)
  <2>1. amount \in Int
    OBVIOUS
  <2> QED
    BY <1>3, <2>1, DebitFits
<1>5. a \in BooksSet /\ \A d \in Currency : Holdings(a, d) = Holdings(e, d) + (IF d = "LYNX" THEN burn ELSE 0)
  <2>1. burn \in Int /\ a = CountBurn(e, burn)
    BY <1>1, <1>2, <1>3
  <2> QED
    BY <1>4, <2>1, CountBurnFits
<1>6. ASSUME NEW d \in Currency
      PROVE  Holdings(a, d) = Holdings(b, d) + (IF d = c THEN 0 - (amount - burn) ELSE 0)
  <2>1. /\ Holdings(e, d) = Holdings(b, d) - (IF d = c THEN amount ELSE 0)
        /\ Holdings(a, d) = Holdings(e, d) + (IF d = "LYNX" THEN burn ELSE 0)
    BY <1>4, <1>5
  <2>2. Holdings(b, d) \in Int
    BY HoldingsInt
  <2>3. d # c => (IF d = "LYNX" THEN burn ELSE 0) = 0
    BY <1>2 DEF Currency
  <2>4. d = c => (IF d = "LYNX" THEN burn ELSE 0) = burn
    BY <1>2 DEF Currency
  <2> QED
    BY <1>2, <2>1, <2>2, <2>3, <2>4
<1> QED
  BY <1>1, <1>2, <1>5, <1>6 DEF StakeTaken

\* A step that changes the books and the duels: what it takes it stakes.
LEMMA DuelSteps ==
  ASSUME StoreFits(Store), NEW b \in BooksSet, NEW ds \in Seq(DuelRecord), DuelsFit(markets, ds),
         \A c \in Currency : Holdings(b, c) + DuelsHold(markets, ds, c)
                             = Holdings(Books, c) + DuelsHold(markets, duels, c),
         \A k \in Markets : AcceptsEntries(k) \/
           \A d \in DOMAIN ds : ds[d].market = k /\ ds[d].status \in Entering
                                => d \in DOMAIN duels /\ duels[d].status = ds[d].status,
         SetStore(WithDuels(WithBooks(Store, b), ds))
  PROVE  StoreSteps(Store, Store') /\ pastCutoff' = pastCutoff
<1>1. PICK x : x = WithBooks(Store, b)
  OBVIOUS
<1>2. PICK y : y = WithDuels(x, ds)
  OBVIOUS
<1>3. /\ Store.books = Books /\ Store.markets = markets /\ Store.duels = duels
      /\ Store.threw = threw /\ Books \in BooksSet
  BY StoreIs
<1>4. BooksOnly(Store, x, b)
  BY <1>1, StoreBooks
<1>5. StoreFits(x) /\ x.markets = markets /\ x.duels = duels /\ x.threw = threw
  BY <1>3, <1>4 DEF BooksOnly
<1>6. DuelsOnly(x, y, ds)
  BY <1>2, <1>5, StoreDuels
<1>7. ASSUME NEW c \in Currency PROVE Moves(Store, y, c, 0)
  <2>1. PICK n : n = Holdings(b, c) - Holdings(Books, c)
    OBVIOUS
  <2>2. /\ Holdings(b, c) \in Int /\ Holdings(Books, c) \in Int
        /\ DuelsHold(markets, ds, c) \in Int /\ DuelsHold(markets, duels, c) \in Int
    <3>1. Holdings(b, c) \in Int /\ Holdings(Books, c) \in Int
      BY <1>3, HoldingsInt
    <3>2. DuelsHold(markets, ds, c) \in Int /\ DuelsHold(markets, duels, c) \in Int
      BY StoreIs, DuelsHoldInt
    <3> QED
      BY <3>1, <3>2
  <2>3. n \in Int /\ 0 - n \in Int /\ Holdings(b, c) = Holdings(Store.books, c) + n
    BY <1>3, <2>1, <2>2
  <2>4. DuelsHold(x.markets, ds, c) = DuelsHold(x.markets, x.duels, c) + (0 - n)
    <3>1. Holdings(b, c) + DuelsHold(markets, ds, c) = Holdings(Books, c) + DuelsHold(markets, duels, c)
      OBVIOUS
    <3> QED
      BY <1>5, <2>1, <2>2, <3>1
  <2>5. Moves(Store, x, c, n)
    BY <1>4, <2>3, BooksMove
  <2>6. Moves(x, y, c, 0 - n)
    BY <1>5, <1>6, <2>3, <2>4, DuelsMove
  <2>7. Total(Store, c) \in Int
    BY TotalInt
  <2> QED
    BY <2>3, <2>5, <2>6, <2>7 DEF Moves
<1>8. StoreFits(y) /\ y.markets = markets /\ y.duels = ds /\ y.threw = threw
  BY <1>5, <1>6 DEF DuelsOnly
<1>9. Store' = y /\ pastCutoff' = pastCutoff
  <2>1. y \in StoreSet /\ SetStore(y)
    BY <1>1, <1>2, <1>8 DEF StoreFits
  <2> QED
    BY <2>1, StoreBecomes
<1>10. SameEnds(Store.markets, y.markets)
  BY <1>3, <1>8 DEF SameEnds
<1>11. \A k \in Markets : AcceptsEntries(k) \/ Untouched(Store, y, k)
  BY <1>3, <1>8 DEF Untouched
<1>12. StoreSteps(Store, y)
  BY <1>3, <1>7, <1>8, <1>10, <1>11 DEF StoreSteps
<1> QED
  BY <1>9, <1>12

LEMMA DuelCreates ==
  ASSUME StoreFits(Store), NEW m \in Markets, NEW w \in Wallets, NEW amount \in MarketAmounts,
         NEW p \in Sides(m), createDuel(w, m, p, amount)
  PROVE  StoreSteps(Store, Store') /\ pastCutoff' = pastCutoff
<1>1. p \in Position /\ amount \in Nat
  BY SidesIn, MarketAssumption
<1>2. AcceptsEntries(m)
  BY DEF createDuel
<1>3. PICK c : c = markets[m].currency
  OBVIOUS
<1>4. /\ Store.books = Books /\ Store.duels = duels /\ Books \in BooksSet /\ c \in Currency
      /\ duels \in Seq(DuelRecord) /\ DuelsFit(markets, duels)
  BY <1>3, StoreIs, MarketTypes DEF StoreFits
<1>5. PICK burn : burn = Burn(c, amount)
  OBVIOUS
<1>6. PICK b : b = CountBurn(debit(Books, w, c, amount), burn)
  OBVIOUS
<1>7. PICK staked : staked = amount - burn
  OBVIOUS
<1>8. /\ b \in BooksSet /\ staked \in Nat
      /\ \A e \in Currency : Holdings(b, e) = Holdings(Books, e) + (IF e = c THEN 0 - staked ELSE 0)
  <2>1. b = CountBurn(debit(Books, w, c, amount), Burn(c, amount))
    BY <1>5, <1>6
  <2>2. staked = amount - Burn(c, amount)
    BY <1>5, <1>7
  <2>3. StakeTaken(Books, c, staked, b)
    BY <1>1, <1>4, <2>1, <2>2, StakeFits
  <2> QED
    BY <2>3 DEF StakeTaken
<1>9. PICK duel : duel = [market |-> m, creator |-> w, rival |-> NoResult, gross |-> amount,
               amount |-> staked, status |-> "OPEN", positionA |-> p,
               positionB |-> NoResult, winner |-> NoResult]
  OBVIOUS
<1>10. duel \in DuelRecord /\ DuelFits(markets, duel)
  <2>1. duel \in DuelRecord
    BY <1>1, <1>8, <1>9 DEF DuelRecord
  <2>2. duel.market = m /\ duel.gross = amount /\ duel.amount = staked /\ duel.status = "OPEN"
    BY <1>9
  <2> QED
    BY <1>3, <1>5, <1>7, <2>1, <2>2 DEF DuelFits
<1>11. PICK ds : ds = Append(duels, duel)
  OBVIOUS
<1>12. PICK n : n = Len(duels) + 1
  OBVIOUS
<1>13. /\ ds \in Seq(DuelRecord) /\ DOMAIN ds = DOMAIN duels \cup {n} /\ n \notin DOMAIN duels
       /\ ds[n] = duel /\ \A j \in DOMAIN duels : ds[j] = duels[j]
  BY <1>4, <1>10, <1>11, <1>12, SeqAppended
<1>14. DuelsFit(markets, ds)
  BY <1>4, <1>10, <1>13 DEF DuelsFit
<1>15. ASSUME NEW e \in Currency
       PROVE  Holdings(b, e) + DuelsHold(markets, ds, e) = Holdings(Books, e) + DuelsHold(markets, duels, e)
  <2>1. DuelsHold(markets, ds, e) = DuelsHold(markets, duels, e) + DuelHolds(markets, duel, e)
    BY <1>4, <1>10, <1>11, DuelAppended
  <2>2. DuelHolds(markets, duel, e) = IF e = c THEN staked ELSE 0
    BY <1>3, <1>8, <1>9 DEF DuelHolds, Entering
  <2>3. DuelsHold(markets, duels, e) \in Int /\ Holdings(Books, e) \in Int
    BY <1>4, DuelsHoldInt, HoldingsInt
  <2>4. Holdings(b, e) = Holdings(Books, e) + (IF e = c THEN 0 - staked ELSE 0)
    BY <1>8
  <2> QED
    BY <1>8, <2>1, <2>2, <2>3, <2>4
<1>16. ASSUME NEW k \in Markets
       PROVE  AcceptsEntries(k) \/
           \A d \in DOMAIN ds : ds[d].market = k /\ ds[d].status \in Entering
                                => d \in DOMAIN duels /\ duels[d].status = ds[d].status
  <2>1. duel.market = m
    BY <1>9
  <2> QED
    BY <1>2, <1>13, <2>1
<1>17. SetStore(WithDuels(WithBooks(Store, b), ds))
  <2>1. SetStore([Store EXCEPT !.books = CountBurn(debit(Store.books, w, c, amount), burn),
                               !.duels = Append(Store.duels, duel)])
    BY <1>3, <1>5, <1>7, <1>9 DEF createDuel
  <2>2. SetStore([Store EXCEPT !.books = b, !.duels = ds])
    BY <1>4, <1>6, <1>11, <2>1
  <2> QED
    BY <2>2 DEF WithDuels, WithBooks
<1> QED
  BY <1>8, <1>13, <1>14, <1>15, <1>16, <1>17, DuelSteps

\* A duel whose status moves on, on the books that pay for it.
LEMMA DuelMoves ==
  ASSUME StoreFits(Store), NEW d \in DOMAIN duels, NEW q \in DuelRecord, DuelFits(markets, q),
         NEW b \in BooksSet,
         \A c \in Currency : Holdings(b, c) = Holdings(Books, c) + DuelHolds(markets, duels[d], c)
                                              - DuelHolds(markets, q, c),
         q.status \notin Entering \/ AcceptsEntries(q.market),
         NEW ds, ds = [duels EXCEPT ![d] = q],
         SetStore(WithDuels(WithBooks(Store, b), ds))
  PROVE  StoreSteps(Store, Store') /\ pastCutoff' = pastCutoff
<1>1. /\ Store.books = Books /\ Store.duels = duels /\ Books \in BooksSet
      /\ duels \in Seq(DuelRecord) /\ DuelsFit(markets, duels)
  BY StoreIs DEF StoreFits
<1>2. /\ ds \in Seq(DuelRecord) /\ DOMAIN ds = DOMAIN duels
      /\ ds[d] = q /\ \A j \in DOMAIN duels \ {d} : ds[j] = duels[j]
  BY <1>1, SeqReplaced
<1>3. DuelsFit(markets, ds)
  BY <1>1, <1>2 DEF DuelsFit
<1>4. ASSUME NEW e \in Currency
      PROVE  Holdings(b, e) + DuelsHold(markets, ds, e) = Holdings(Books, e) + DuelsHold(markets, duels, e)
  <2>1. DuelsHold(markets, ds, e) = DuelsHold(markets, duels, e) - DuelHolds(markets, duels[d], e)
                                    + DuelHolds(markets, q, e)
    BY <1>1, DuelReplaced
  <2>2. DuelsHold(markets, duels, e) \in Int /\ Holdings(Books, e) \in Int
    BY <1>1, DuelsHoldInt, HoldingsInt
  <2>3. duels[d] \in DuelRecord
    BY <1>1, OrdersFinite
  <2>4. DuelHolds(markets, duels[d], e) \in Int /\ DuelHolds(markets, q, e) \in Int
    BY <2>3, DuelHoldsInt
  <2>5. Holdings(b, e) = Holdings(Books, e) + DuelHolds(markets, duels[d], e) - DuelHolds(markets, q, e)
    OBVIOUS
  <2> QED
    BY <2>1, <2>2, <2>4, <2>5
<1>5. ASSUME NEW k \in Markets
      PROVE  AcceptsEntries(k) \/
           \A j \in DOMAIN ds : ds[j].market = k /\ ds[j].status \in Entering
                                => j \in DOMAIN duels /\ duels[j].status = ds[j].status
  BY <1>2
<1> QED
  BY <1>2, <1>3, <1>4, <1>5, DuelSteps

LEMMA DuelIs ==
  ASSUME NEW duel \in DuelRecord
  PROVE  duel = [market |-> duel.market, creator |-> duel.creator, rival |-> duel.rival,
                 gross |-> duel.gross, amount |-> duel.amount, status |-> duel.status,
                 positionA |-> duel.positionA, positionB |-> duel.positionB, winner |-> duel.winner]
BY DEF DuelRecord

LEMMA DuelAccepts ==
  ASSUME StoreFits(Store), NEW d \in DOMAIN duels, NEW w \in Wallets, NEW p \in Position,
         acceptDuel(w, d, p)
  PROVE  StoreSteps(Store, Store') /\ pastCutoff' = pastCutoff
<1>1. PICK duel : duel = duels[d]
  OBVIOUS
<1>2. duel \in DuelRecord /\ DuelFits(markets, duel)
  <2>1. duels \in Seq(DuelRecord) /\ DuelsFit(markets, duels)
    BY StoreIs DEF StoreFits
  <2> QED
    BY <1>1, <2>1, OrdersFinite DEF DuelsFit
<1>3. PICK c : c = markets[duel.market].currency
  OBVIOUS
<1>4. /\ duel.market \in Markets /\ duel.gross \in Nat /\ duel.amount \in Nat
      /\ Store.books = Books /\ Store.duels = duels /\ Books \in BooksSet /\ c \in Currency
  <2>1. duel.market \in Markets /\ duel.gross \in Nat /\ duel.amount \in Nat
    BY <1>2, DuelTypes
  <2> QED
    BY <1>3, <2>1, StoreIs, MarketTypes
<1>5. duel.status = "OPEN" /\ AcceptsEntries(duel.market)
  BY <1>1 DEF acceptDuel
<1>6. PICK b : b = CountBurn(debit(Books, w, c, duel.gross), Burn(c, duel.gross))
  OBVIOUS
<1>7. duel.amount = duel.gross - Burn(c, duel.gross)
  BY <1>2, <1>3 DEF DuelFits
<1>8. /\ b \in BooksSet
      /\ \A e \in Currency : Holdings(b, e) = Holdings(Books, e) + (IF e = c THEN 0 - duel.amount ELSE 0)
  <2>1. StakeTaken(Books, c, duel.amount, b)
    BY <1>4, <1>6, <1>7, StakeFits
  <2> QED
    BY <2>1 DEF StakeTaken
<1>9. PICK q : q = [duel EXCEPT !.status = "ACTIVE", !.rival = w, !.positionB = p]
  OBVIOUS
<1>10. q = [market |-> duel.market, creator |-> duel.creator, rival |-> w,
            gross |-> duel.gross, amount |-> duel.amount, status |-> "ACTIVE",
            positionA |-> duel.positionA, positionB |-> p, winner |-> duel.winner]
  <2>1. duel = [market |-> duel.market, creator |-> duel.creator, rival |-> duel.rival,
                gross |-> duel.gross, amount |-> duel.amount, status |-> duel.status,
                positionA |-> duel.positionA, positionB |-> duel.positionB, winner |-> duel.winner]
    BY <1>2, DuelIs
  <2> QED
    BY <1>9, <2>1
<1>11. q \in DuelRecord /\ DuelFits(markets, q)
  BY <1>2, <1>10, DuelTypes DEF DuelRecord, DuelFits
<1>12. ASSUME NEW e \in Currency
       PROVE  Holdings(b, e) = Holdings(Books, e) + DuelHolds(markets, duels[d], e)
                               - DuelHolds(markets, q, e)
  <2>1. DuelHolds(markets, duel, e) = IF e = c THEN duel.amount ELSE 0
    BY <1>3, <1>4, <1>5 DEF DuelHolds, Entering
  <2>2. DuelHolds(markets, q, e) = IF e = c THEN duel.amount * 2 ELSE 0
    BY <1>3, <1>4, <1>10 DEF DuelHolds, Entering
  <2>3. Holdings(Books, e) \in Int
    BY <1>4, HoldingsInt
  <2>4. Holdings(b, e) = Holdings(Books, e) + (IF e = c THEN 0 - duel.amount ELSE 0)
    BY <1>8
  <2> QED
    BY <1>1, <1>4, <2>1, <2>2, <2>3, <2>4
<1>13. AcceptsEntries(q.market)
  BY <1>5, <1>10
<1>14. PICK ds : ds = [duels EXCEPT ![d] = q]
  OBVIOUS
<1>15. SetStore(WithDuels(WithBooks(Store, b), ds))
  <2>1. SetStore([Store EXCEPT
            !.books = CountBurn(debit(Store.books, w, c, duel.gross), Burn(c, duel.gross)),
            !.duels[d] = [duels[d] EXCEPT !.status = "ACTIVE", !.rival = w, !.positionB = p]])
    BY <1>1, <1>3, <1>4 DEF acceptDuel
  <2>2. SetStore([Store EXCEPT !.books = b, !.duels = ds])
    BY <1>1, <1>4, <1>6, <1>9, <1>14, <2>1
  <2> QED
    BY <2>2 DEF WithDuels, WithBooks
<1> QED
  BY <1>8, <1>11, <1>12, <1>13, <1>14, <1>15, DuelMoves

LEMMA DuelCancels ==
  ASSUME StoreFits(Store), NEW d \in DOMAIN duels, cancelDuel(d)
  PROVE  StoreSteps(Store, Store') /\ pastCutoff' = pastCutoff
<1>1. PICK duel : duel = duels[d]
  OBVIOUS
<1>2. duel \in DuelRecord /\ DuelFits(markets, duel)
  <2>1. duels \in Seq(DuelRecord) /\ DuelsFit(markets, duels)
    BY StoreIs DEF StoreFits
  <2> QED
    BY <1>1, <2>1, OrdersFinite DEF DuelsFit
<1>3. PICK c : c = markets[duel.market].currency
  OBVIOUS
<1>4. /\ duel.market \in Markets /\ duel.amount \in Nat /\ duel.creator \in Wallets
      /\ Store.books = Books /\ Store.duels = duels /\ Books \in BooksSet /\ c \in Currency
  <2>1. duel.market \in Markets /\ duel.amount \in Nat /\ duel.creator \in Wallets
    BY <1>2, DuelTypes
  <2> QED
    BY <1>3, <2>1, StoreIs, MarketTypes
<1>5. duel.status = "OPEN"
  BY <1>1 DEF cancelDuel
<1>6. PICK b : b = credit(Books, duel.creator, c, duel.amount)
  OBVIOUS
<1>8. /\ b \in BooksSet
      /\ \A e \in Currency : Holdings(b, e) = Holdings(Books, e) + (IF e = c THEN duel.amount ELSE 0)
  <2>1. duel.amount \in Int
    BY <1>4
  <2> QED
    BY <1>4, <1>6, <2>1, CreditFits
<1>9. PICK q : q = [duel EXCEPT !.status = "CANCELLED"]
  OBVIOUS
<1>10. q = [market |-> duel.market, creator |-> duel.creator, rival |-> duel.rival,
            gross |-> duel.gross, amount |-> duel.amount, status |-> "CANCELLED",
            positionA |-> duel.positionA, positionB |-> duel.positionB, winner |-> duel.winner]
  BY <1>2, <1>9, DuelIs
<1>11. q \in DuelRecord /\ DuelFits(markets, q)
  BY <1>2, <1>10, DuelTypes DEF DuelRecord, DuelFits
<1>12. ASSUME NEW e \in Currency
       PROVE  Holdings(b, e) = Holdings(Books, e) + DuelHolds(markets, duels[d], e)
                               - DuelHolds(markets, q, e)
  <2>1. DuelHolds(markets, duel, e) = IF e = c THEN duel.amount ELSE 0
    BY <1>3, <1>4, <1>5 DEF DuelHolds, Entering
  <2>2. DuelHolds(markets, q, e) = 0
    BY <1>10 DEF DuelHolds, Entering
  <2>3. Holdings(Books, e) \in Int
    BY <1>4, HoldingsInt
  <2>4. Holdings(b, e) = Holdings(Books, e) + (IF e = c THEN duel.amount ELSE 0)
    BY <1>8
  <2> QED
    BY <1>1, <1>4, <2>1, <2>2, <2>3, <2>4
<1>13. q.status \notin Entering
  BY <1>10 DEF Entering
<1>14. PICK ds : ds = [duels EXCEPT ![d] = q]
  OBVIOUS
<1>15. SetStore(WithDuels(WithBooks(Store, b), ds))
  <2>1. SetStore([Store EXCEPT !.books = credit(Store.books, duel.creator, c, duel.amount),
                               !.duels[d].status = "CANCELLED"])
    BY <1>1, <1>3 DEF cancelDuel
  <2>2. SetStore([Store EXCEPT !.books = b, !.duels = [Store.duels EXCEPT ![d] = [Store.duels[d] EXCEPT !.status = "CANCELLED"]]])
    BY <1>4, <1>6, <2>1
  <2>3. SetStore([Store EXCEPT !.books = b, !.duels = ds])
    BY <1>1, <1>4, <1>9, <1>14, <2>2
  <2> QED
    BY <2>3 DEF WithDuels, WithBooks
<1> QED
  BY <1>8, <1>11, <1>12, <1>13, <1>14, <1>15, DuelMoves

-----------------------------------------------------------------------------
(* Markets that close                                                        *)

WithMarkets(x, ms) == [x EXCEPT !.markets = ms]

\* Everything but the markets is the same.
MarketsOnly(x, y, ms) ==
  /\ StoreFits(y) /\ y.books = x.books /\ y.orders = x.orders /\ y.trades = x.trades
  /\ y.threw = x.threw /\ y.markets = ms /\ y.positions = x.positions /\ y.duels = x.duels

LEMMA WithMarketsIs ==
  ASSUME NEW x \in StoreSet, NEW ms
  PROVE  WithMarkets(x, ms) = [books |-> x.books, orders |-> x.orders, trades |-> x.trades,
                               threw |-> x.threw, markets |-> ms,
                               positions |-> x.positions, duels |-> x.duels]
<1>1. x = [books |-> x.books, orders |-> x.orders, trades |-> x.trades, threw |-> x.threw,
           markets |-> x.markets, positions |-> x.positions, duels |-> x.duels]
  BY StoreTypes
<1> QED
  BY <1>1 DEF WithMarkets

\* A market that is not resolved becomes r, of the same money.
Becomes(market, r) ==
  /\ r \in MarketRecord /\ r.currency = market.currency /\ r.side = market.side
  /\ r.poolAmount = market.poolAmount /\ market.status # "RESOLVED"
  /\ r.status = "RESOLVED" => r.result \in Position

LEMMA MarketReplaced ==
  ASSUME NEW x, StoreFits(x), NEW m \in Markets, NEW r, Becomes(x.markets[m], r),
         NEW ms, ms = [x.markets EXCEPT ![m] = r], NEW y, y = WithMarkets(x, ms)
  PROVE  /\ MarketsOnly(x, y, ms) /\ OnlyMarket(m, x.markets, ms) /\ ms[m] = r
         /\ \A c \in Currency : Moves(x, y, c, PoolHolds(r, c) - PoolHolds(x.markets[m], c))
<1>1. x \in StoreSet
  BY DEF StoreFits
<1>2. /\ x.orders \in Seq(Order) /\ x.markets \in [Markets -> MarketRecord]
      /\ x.positions \in Seq(PositionRecord) /\ x.duels \in Seq(DuelRecord)
  BY <1>1, StoreTypes
<1>3. y = [books |-> x.books, orders |-> x.orders, trades |-> x.trades, threw |-> x.threw,
           markets |-> ms, positions |-> x.positions, duels |-> x.duels]
  BY <1>1, WithMarketsIs
<1>4. /\ y.books = x.books /\ y.orders = x.orders /\ y.trades = x.trades /\ y.threw = x.threw
      /\ y.markets = ms /\ y.positions = x.positions /\ y.duels = x.duels
  BY <1>3
<1>5. /\ r \in MarketRecord /\ ms \in [Markets -> MarketRecord]
      /\ ms[m] = r /\ \A k \in Markets \ {m} : ms[k] = x.markets[k]
  BY <1>2 DEF Becomes
<1>6. SameCurrency(x.markets, ms) /\ OnlyMarket(m, x.markets, ms)
  BY <1>5 DEF Becomes, SameCurrency, OnlyMarket
<1>7. y \in StoreSet
  <2>1. x.books \in BooksSet /\ x.trades \in Seq(TradeRecord) /\ x.threw \in BOOLEAN
    BY <1>1, StoreTypes
  <2> QED
    BY <1>2, <1>3, <1>5, <2>1 DEF StoreSet
<1>8. LocksFit(ms, x.orders) /\ DuelsFit(ms, x.duels)
  BY <1>2, <1>6, LocksFitSame, DuelsHoldSame DEF StoreFits
<1>9. PoolsFit(x.markets, x.positions) /\ ClaimsFit(x.markets, x.positions)
  BY DEF StoreFits
<1>10. PoolsFit(ms, x.positions)
  <2>1. ASSUME NEW k \in Markets
        PROVE  /\ ms[k].side = x.markets[k].side /\ ms[k].poolAmount = x.markets[k].poolAmount
               /\ ms[k].status = "RESOLVED" => ms[k].result \in Position
    <3>1. CASE k = m
      BY <1>5, <3>1 DEF Becomes
    <3>2. CASE k # m
      BY <1>5, <1>9, <3>2 DEF PoolsFit
    <3> QED
      BY <3>1, <3>2
  <2> QED
    BY <1>9, <2>1 DEF PoolsFit
<1>11. \A j \in DOMAIN x.positions :
         x.positions[j].claimed => ms[x.positions[j].market] = x.markets[x.positions[j].market]
  <2>1. ASSUME NEW j \in DOMAIN x.positions, x.positions[j].claimed
        PROVE  ms[x.positions[j].market] = x.markets[x.positions[j].market]
    <3>1. x.markets[x.positions[j].market].status = "RESOLVED"
      BY <1>9, <2>1 DEF ClaimsFit, Wins
    <3>2. x.positions[j].market \in Markets
      BY <1>2, OrdersFinite, PositionTypes
    <3>3. x.markets[m].status # "RESOLVED"
      BY DEF Becomes
    <3> QED
      BY <1>5, <3>1, <3>2, <3>3
  <2> QED
    BY <2>1
<1>12. ClaimsFit(ms, x.positions)
  <2>1. PICK c \in Currency : TRUE
    BY DEF Currency
  <2> QED
    BY <1>2, <1>6, <1>9, <1>11, ClaimsTookSame
<1>13. StoreFits(y)
  <2>1. x.threw \/ (Uncrossed(x.orders) /\ \A j \in DOMAIN x.orders : ~Overspent(x.orders[j]))
    BY DEF StoreFits
  <2> QED
    BY <1>4, <1>7, <1>8, <1>10, <1>12, <2>1 DEF StoreFits
<1>14. ASSUME NEW c \in Currency
       PROVE  Moves(x, y, c, PoolHolds(r, c) - PoolHolds(x.markets[m], c))
  <2>1. PICK was : was = PoolHolds(x.markets[m], c)
    OBVIOUS
  <2>2. PICK is : is = PoolHolds(r, c)
    OBVIOUS
  <2>3. was \in Int /\ is \in Int
    BY <1>2, <1>5, <2>1, <2>2, PoolHoldsInt
  <2>4. PoolsHold(ms, c) = PoolsHold(x.markets, c) - was + is
    <3>1. PoolsHold(ms, c) = PoolsHold(x.markets, c) - PoolHolds(x.markets[m], c) + PoolHolds(r, c)
      BY <1>2, <1>5, PoolReplaced
    <3> QED
      BY <2>1, <2>2, <3>1
  <2>5. /\ Holdings(x.books, c) \in Int /\ OrdersHold(x.orders, c) \in Int
        /\ PoolsHold(x.markets, c) \in Int /\ DuelsHold(x.markets, x.duels, c) \in Int
        /\ ClaimsTook(x.markets, x.positions, c) \in Int
    BY TotalInt
  <2>6. Total(x, c) = Holdings(x.books, c) + OrdersHold(x.orders, c) + PoolsHold(x.markets, c)
                      + DuelsHold(x.markets, x.duels, c) - ClaimsTook(x.markets, x.positions, c)
    BY TotalIs
  <2>7. Total(y, c) = Holdings(x.books, c) + OrdersHold(x.orders, c) + PoolsHold(ms, c)
                      + DuelsHold(ms, x.duels, c) - ClaimsTook(ms, x.positions, c)
    BY <1>4, TotalIs
  <2>8. DuelsHold(ms, x.duels, c) = DuelsHold(x.markets, x.duels, c)
    BY <1>2, <1>6, DuelsHoldSame
  <2>9. ClaimsTook(ms, x.positions, c) = ClaimsTook(x.markets, x.positions, c)
    BY <1>2, <1>6, <1>11, ClaimsTookSame
  <2>10. Total(y, c) = Total(x, c) + (is - was)
    BY <2>3, <2>4, <2>5, <2>6, <2>7, <2>8, <2>9
  <2> QED
    BY <1>4, <2>1, <2>2, <2>10 DEF Moves
<1> QED
  BY <1>4, <1>5, <1>6, <1>13, <1>14 DEF MarketsOnly

LEMMA MarketIs ==
  ASSUME NEW r \in MarketRecord
  PROVE  r = [currency |-> r.currency, isTernary |-> r.isTernary, status |-> r.status,
              poolAmount |-> r.poolAmount, side |-> r.side, result |-> r.result]
BY DEF MarketRecord

LEMMA CutOffSteps ==
  ASSUME StoreFits(Store), NEW m \in Markets, cutOffMarket(m)
  PROVE  StoreSteps(Store, Store') /\ pastCutoff' = pastCutoff
<1>1. /\ Store.markets = markets /\ Store.threw = threw /\ Store.duels = duels
      /\ markets \in [Markets -> MarketRecord]
  BY StoreIs
<1>2. PICK market : market = markets[m]
  OBVIOUS
<1>3. market \in MarketRecord /\ market.status \in Entering
  BY <1>1, <1>2 DEF cutOffMarket, Entering
<1>4. PICK r : r = [market EXCEPT !.status = "CUT_OFF"]
  OBVIOUS
<1>5. r = [currency |-> market.currency, isTernary |-> market.isTernary, status |-> "CUT_OFF",
           poolAmount |-> market.poolAmount, side |-> market.side, result |-> market.result]
  <2>1. market = [currency |-> market.currency, isTernary |-> market.isTernary,
                  status |-> market.status, poolAmount |-> market.poolAmount,
                  side |-> market.side, result |-> market.result]
    BY <1>3, MarketIs
  <2> QED
    BY <1>4, <2>1
<1>6. Becomes(market, r)
  <2>1. r \in MarketRecord
    BY <1>3, <1>5, MarketTypes DEF MarketRecord
  <2> QED
    BY <1>3, <1>5, <2>1 DEF Becomes, Entering
<1>7. PICK ms : ms = [markets EXCEPT ![m] = r]
  OBVIOUS
<1>8. PICK y : y = WithMarkets(Store, ms)
  OBVIOUS
<1>9. /\ MarketsOnly(Store, y, ms) /\ OnlyMarket(m, markets, ms) /\ ms[m] = r
      /\ \A c \in Currency : Moves(Store, y, c, PoolHolds(r, c) - PoolHolds(market, c))
  <2>1. Becomes(Store.markets[m], r) /\ ms = [Store.markets EXCEPT ![m] = r]
    BY <1>1, <1>2, <1>6, <1>7
  <2> QED
    BY <1>1, <1>2, <1>8, <2>1, MarketReplaced
<1>10. ASSUME NEW c \in Currency PROVE Moves(Store, y, c, 0)
  <2>1. PoolHolds(r, c) = PoolHolds(market, c) /\ PoolHolds(r, c) \in Int
    BY <1>3, <1>5, MarketTypes DEF PoolHolds, Entering
  <2>2. PoolHolds(r, c) - PoolHolds(market, c) = 0
    BY <2>1
  <2> QED
    BY <1>9, <2>2
<1>11. SetStore(y)
  <2>1. SetStore([Store EXCEPT !.markets[m].status = "CUT_OFF"])
    BY DEF cutOffMarket
  <2>2. [Store EXCEPT !.markets[m].status = "CUT_OFF"] = [Store EXCEPT !.markets = ms]
    BY <1>1, <1>2, <1>4, <1>7
  <2> QED
    BY <1>8, <2>1, <2>2 DEF WithMarkets
<1>12. StoreFits(y) /\ y.markets = ms /\ y.threw = threw /\ y.duels = duels
  BY <1>1, <1>9 DEF MarketsOnly
<1>13. Store' = y /\ pastCutoff' = pastCutoff
  BY <1>11, <1>12, StoreBecomes DEF StoreFits
<1>14. /\ r.poolAmount = market.poolAmount /\ r.status = "CUT_OFF"
       /\ \A k \in Markets \ {m} : ms[k] = markets[k]
  BY <1>5, <1>9 DEF OnlyMarket
<1>15. SameEnds(markets, ms)
  BY <1>2, <1>3, <1>9, <1>14 DEF SameEnds, Entering
<1>16. ASSUME NEW k \in Markets PROVE Untouched(Store, y, k)
  <2>1. ms[k].poolAmount = markets[k].poolAmount
    BY <1>2, <1>9, <1>14
  <2> QED
    BY <1>1, <1>12, <2>1 DEF Untouched
<1> QED
  BY <1>1, <1>10, <1>12, <1>13, <1>15, <1>16 DEF StoreSteps

LEMMA StoreStays ==
  ASSUME StoreFits(Store), Store' = Store
  PROVE  StoreSteps(Store, Store')
<1>1. \A c \in Currency : Moves(Store, Store, c, 0)
  BY TotalInt DEF Moves
<1>2. \A k \in Markets : Untouched(Store, Store, k)
  BY DEF Untouched
<1> QED
  BY <1>1, <1>2 DEF StoreSteps, SameEnds

\* A step of the books alone that neither makes nor loses money.
LEMMA BooksStep ==
  ASSUME StoreFits(Store), NEW b \in BooksSet,
         \A c \in Currency : Holdings(b, c) = Holdings(Books, c),
         SetStore(WithBooks(Store, b))
  PROVE  StoreSteps(Store, Store') /\ pastCutoff' = pastCutoff
<1>1. PICK y : y = WithBooks(Store, b)
  OBVIOUS
<1>2. BooksOnly(Store, y, b)
  BY <1>1, StoreBooks
<1>3. Store' = y /\ pastCutoff' = pastCutoff
  <2>1. y \in StoreSet
    BY <1>2 DEF BooksOnly, StoreFits
  <2> QED
    BY <1>1, <2>1, StoreBecomes
<1>4. ASSUME NEW c \in Currency PROVE Moves(Store, y, c, 0)
  <2>1. Store.books = Books /\ Holdings(Books, c) \in Int
    BY StoreIs, HoldingsInt
  <2>2. Holdings(b, c) = Holdings(Store.books, c) + 0
    BY <2>1
  <2>3. 0 \in Int
    OBVIOUS
  <2> QED
    BY <1>2, <2>2, <2>3, BooksMove
<1>5. StoreSteps(Store, y)
  BY <1>2, <1>4 DEF StoreSteps, BooksOnly, SameEnds, Untouched
<1> QED
  BY <1>3, <1>5

-----------------------------------------------------------------------------
(* Staking                                                                   *)

LEMMA WalletSwaps ==
  ASSUME NEW b \in BooksSet, NEW w \in Wallets, NEW v \in Wallet,
         \A c \in Currency : v.balance[c] + v.rewards[c] + (IF c = "LYNX" THEN v.staked ELSE 0)
                             = WalletHolds(b, w, c),
         NEW a, a = [b EXCEPT !.wallets[w] = v]
  PROVE  a \in BooksSet /\ \A c \in Currency : Holdings(a, c) = Holdings(b, c)
<1>1. /\ a \in BooksSet
      /\ \A c \in Currency :
           Holdings(a, c) = Holdings(b, c) - WalletHolds(b, w, c) + WalletHolds(a, w, c)
      /\ a.wallets[w] = v
  BY WalletReplaced
<1>2. ASSUME NEW c \in Currency PROVE Holdings(a, c) = Holdings(b, c)
  <2>1. WalletHolds(a, w, c) = WalletHolds(b, w, c)
    BY <1>1 DEF WalletHolds
  <2>2. WalletHolds(b, w, c) \in Int /\ Holdings(b, c) \in Int
    BY WalletHoldsInt, HoldingsInt
  <2> QED
    BY <1>1, <2>1, <2>2
<1> QED
  BY <1>1, <1>2

LEMMA WalletIs ==
  ASSUME Books \in BooksSet, NEW w \in Wallets, NEW u, u = wallets[w]
  PROVE  /\ u = [balance |-> u.balance, staked |-> u.staked, rewards |-> u.rewards]
         /\ u \in Wallet /\ u.balance \in [Currency -> Int] /\ u.rewards \in [Currency -> Int]
         /\ u.balance["SOL"] \in Int /\ u.balance["LYNX"] \in Int
         /\ u.rewards["SOL"] \in Int /\ u.rewards["LYNX"] \in Int /\ u.staked \in Nat
         /\ wallets \in [Wallets -> Wallet] /\ treasury \in Treasury
         /\ \A c \in Currency : WalletHolds(Books, w, c)
              = u.balance[c] + u.rewards[c] + (IF c = "LYNX" THEN u.staked ELSE 0)
<1>1. wallets \in [Wallets -> Wallet] /\ treasury \in Treasury
  BY DEF Books, BooksSet
<1>2. u \in Wallet
  BY <1>1
<1>3. /\ u = [balance |-> u.balance, staked |-> u.staked, rewards |-> u.rewards]
      /\ u.balance \in [Currency -> Int] /\ u.rewards \in [Currency -> Int] /\ u.staked \in Nat
  BY <1>2 DEF Wallet
<1>4. "SOL" \in Currency /\ "LYNX" \in Currency
  BY DEF Currency
<1>5. \A c \in Currency : WalletHolds(Books, w, c)
              = u.balance[c] + u.rewards[c] + (IF c = "LYNX" THEN u.staked ELSE 0)
  BY DEF WalletHolds, Books
<1> QED
  BY <1>1, <1>2, <1>3, <1>4, <1>5

\* A step that changes one wallet and leaves it what it held.
LEMMA WalletStep ==
  ASSUME StoreFits(Store), NEW w \in Wallets, NEW v \in Wallet,
         \A c \in Currency : v.balance[c] + v.rewards[c] + (IF c = "LYNX" THEN v.staked ELSE 0)
                             = WalletHolds(Books, w, c),
         wallets' = [wallets EXCEPT ![w] = v], treasury' = treasury,
         UNCHANGED <<orders, trades, threw, marketVars>>
  PROVE  StoreSteps(Store, Store') /\ pastCutoff' = pastCutoff
<1>1. Books \in BooksSet
  BY StoreIs
<1>2. PICK b : b = [Books EXCEPT !.wallets[w] = v]
  OBVIOUS
<1>3. b \in BooksSet /\ \A c \in Currency : Holdings(b, c) = Holdings(Books, c)
  BY <1>1, <1>2, WalletSwaps
<1>4. b = [wallets |-> wallets', treasury |-> treasury']
  BY <1>2 DEF Books
<1>5. PICK y : y = WithBooks(Store, b)
  OBVIOUS
<1>6. y = [books |-> b, orders |-> orders, trades |-> trades, threw |-> threw,
           markets |-> markets, positions |-> positions, duels |-> duels]
  BY <1>5 DEF WithBooks, Store
<1>7. SetStore(y)
  BY <1>4, <1>6 DEF SetStore, SetExchange, SetBooks, marketVars
<1> QED
  BY <1>3, <1>5, <1>7, BooksStep

LEMMA StakeSteps ==
  ASSUME StoreFits(Store), NEW w \in Wallets, NEW amount \in MarketAmounts,
         stake(w, amount), UNCHANGED <<orders, trades, threw, marketVars>>
  PROVE  StoreSteps(Store, Store') /\ pastCutoff' = pastCutoff
<1>1. PICK u : u = wallets[w]
  OBVIOUS
<1>2. /\ u = [balance |-> u.balance, staked |-> u.staked, rewards |-> u.rewards]
      /\ u \in Wallet /\ u.balance \in [Currency -> Int] /\ u.rewards \in [Currency -> Int]
      /\ u.balance["LYNX"] \in Int /\ u.rewards["LYNX"] \in Int /\ u.staked \in Nat
      /\ wallets \in [Wallets -> Wallet]
      /\ \A c \in Currency : WalletHolds(Books, w, c)
           = u.balance[c] + u.rewards[c] + (IF c = "LYNX" THEN u.staked ELSE 0)
  BY <1>1, StoreIs, WalletIs
<1>3. amount \in Nat
  BY MarketAssumption
<1>4. PICK bal : bal = [u.balance EXCEPT !["LYNX"] = @ - amount]
  OBVIOUS
<1>5. /\ bal \in [Currency -> Int]
      /\ \A c \in Currency : bal[c] = IF c = "LYNX" THEN u.balance[c] - amount ELSE u.balance[c]
  <2>1. u.balance["LYNX"] - amount \in Int /\ "LYNX" \in Currency /\ "SOL" \in Currency
    BY <1>2, <1>3 DEF Currency
  <2>2. bal \in [Currency -> Int]
    BY <1>2, <1>4, <2>1
  <2>3. bal["LYNX"] = u.balance["LYNX"] - amount
    BY <1>2, <1>4, <2>1
  <2>4. bal["SOL"] = u.balance["SOL"]
    BY <1>2, <1>4, <2>1
  <2> QED
    BY <2>2, <2>3, <2>4 DEF Currency
<1>6. PICK v : v = [balance |-> bal, staked |-> u.staked + amount, rewards |-> u.rewards]
  OBVIOUS
<1>7. v \in Wallet
  BY <1>2, <1>3, <1>5, <1>6 DEF Wallet
<1>8. ASSUME NEW c \in Currency
      PROVE  v.balance[c] + v.rewards[c] + (IF c = "LYNX" THEN v.staked ELSE 0)
             = WalletHolds(Books, w, c)
  <2>1. /\ v.balance[c] = IF c = "LYNX" THEN u.balance[c] - amount ELSE u.balance[c]
        /\ v.rewards[c] = u.rewards[c] /\ v.staked = u.staked + amount
    BY <1>5, <1>6
  <2>2. u.balance[c] \in Int /\ u.rewards[c] \in Int
    BY <1>2
  <2> QED
    BY <1>2, <1>3, <2>1, <2>2
<1>9. wallets' = [wallets EXCEPT ![w] = v] /\ treasury' = treasury
  <2>1. SetBooks([[Books EXCEPT !.wallets[w].balance["LYNX"] = @ - amount]
                    EXCEPT !.wallets[w].staked = @ + amount])
    BY DEF stake, debit
  <2>2. [Books EXCEPT !.wallets[w].balance["LYNX"] = @ - amount]
          = [wallets |-> [wallets EXCEPT ![w] = [u EXCEPT !.balance = bal]], treasury |-> treasury]
    BY <1>1, <1>4 DEF Books
  <2>3. PICK u1 : u1 = [u EXCEPT !.balance = bal]
    OBVIOUS
  <2>4. u1 = [balance |-> bal, staked |-> u.staked, rewards |-> u.rewards]
    BY <1>2, <2>3
  <2>5. PICK W1 : W1 = [wallets EXCEPT ![w] = u1]
    OBVIOUS
  <2>6. W1[w] = u1 /\ [W1 EXCEPT ![w] = v] = [wallets EXCEPT ![w] = v]
    BY <1>2, <2>5
  <2>7. [u1 EXCEPT !.staked = @ + amount] = v
    BY <1>6, <2>4
  <2>8. PICK b1 : b1 = [wallets |-> W1, treasury |-> treasury]
    OBVIOUS
  <2>9. SetBooks([b1 EXCEPT !.wallets[w].staked = @ + amount])
    BY <2>1, <2>2, <2>3, <2>5, <2>8
  <2>10. [b1 EXCEPT !.wallets[w].staked = @ + amount]
           = [wallets |-> [W1 EXCEPT ![w] = [W1[w] EXCEPT !.staked = @ + amount]], treasury |-> treasury]
    BY <2>8
  <2>11. SetBooks([wallets |-> [wallets EXCEPT ![w] = v], treasury |-> treasury])
    BY <2>6, <2>7, <2>9, <2>10
  <2> QED
    BY <2>11 DEF SetBooks
<1> QED
  BY <1>7, <1>8, <1>9, WalletStep

LEMMA UnstakeSteps ==
  ASSUME StoreFits(Store), NEW w \in Wallets, NEW amount \in MarketAmounts,
         unstake(w, amount), UNCHANGED <<orders, trades, threw, marketVars>>
  PROVE  StoreSteps(Store, Store') /\ pastCutoff' = pastCutoff
<1>1. PICK u : u = wallets[w]
  OBVIOUS
<1>2. /\ u = [balance |-> u.balance, staked |-> u.staked, rewards |-> u.rewards]
      /\ u \in Wallet /\ u.balance \in [Currency -> Int] /\ u.rewards \in [Currency -> Int]
      /\ u.balance["LYNX"] \in Int /\ u.rewards["LYNX"] \in Int /\ u.staked \in Nat
      /\ wallets \in [Wallets -> Wallet]
      /\ \A c \in Currency : WalletHolds(Books, w, c)
           = u.balance[c] + u.rewards[c] + (IF c = "LYNX" THEN u.staked ELSE 0)
  BY <1>1, StoreIs, WalletIs
<1>3. amount \in Nat /\ u.staked >= amount
  BY <1>1, MarketAssumption DEF unstake
<1>4. PICK bal : bal = [u.balance EXCEPT !["LYNX"] = @ + amount]
  OBVIOUS
<1>5. /\ bal \in [Currency -> Int]
      /\ \A c \in Currency : bal[c] = IF c = "LYNX" THEN u.balance[c] + amount ELSE u.balance[c]
  <2>1. u.balance["LYNX"] + amount \in Int /\ "LYNX" \in Currency /\ "SOL" \in Currency
    BY <1>2, <1>3 DEF Currency
  <2>2. bal \in [Currency -> Int]
    BY <1>2, <1>4, <2>1
  <2>3. bal["LYNX"] = u.balance["LYNX"] + amount
    BY <1>2, <1>4, <2>1
  <2>4. bal["SOL"] = u.balance["SOL"]
    BY <1>2, <1>4, <2>1
  <2> QED
    BY <2>2, <2>3, <2>4 DEF Currency
<1>6. PICK v : v = [balance |-> bal, staked |-> u.staked - amount, rewards |-> u.rewards]
  OBVIOUS
<1>7. v \in Wallet
  <2>1. u.staked - amount \in Nat
    BY <1>2, <1>3
  <2> QED
    BY <1>2, <1>5, <1>6, <2>1 DEF Wallet
<1>8. ASSUME NEW c \in Currency
      PROVE  v.balance[c] + v.rewards[c] + (IF c = "LYNX" THEN v.staked ELSE 0)
             = WalletHolds(Books, w, c)
  <2>1. /\ v.balance[c] = IF c = "LYNX" THEN u.balance[c] + amount ELSE u.balance[c]
        /\ v.rewards[c] = u.rewards[c] /\ v.staked = u.staked - amount
    BY <1>5, <1>6
  <2>2. u.balance[c] \in Int /\ u.rewards[c] \in Int
    BY <1>2
  <2> QED
    BY <1>2, <1>3, <2>1, <2>2
<1>9. wallets' = [wallets EXCEPT ![w] = v] /\ treasury' = treasury
  <2>1. SetBooks([[Books EXCEPT !.wallets[w].balance["LYNX"] = @ + amount]
                    EXCEPT !.wallets[w].staked = @ - amount])
    BY DEF unstake, credit
  <2>2. [Books EXCEPT !.wallets[w].balance["LYNX"] = @ + amount]
          = [wallets |-> [wallets EXCEPT ![w] = [u EXCEPT !.balance = bal]], treasury |-> treasury]
    BY <1>1, <1>4 DEF Books
  <2>3. PICK u1 : u1 = [u EXCEPT !.balance = bal]
    OBVIOUS
  <2>4. u1 = [balance |-> bal, staked |-> u.staked, rewards |-> u.rewards]
    BY <1>2, <2>3
  <2>5. PICK W1 : W1 = [wallets EXCEPT ![w] = u1]
    OBVIOUS
  <2>6. W1[w] = u1 /\ [W1 EXCEPT ![w] = v] = [wallets EXCEPT ![w] = v]
    BY <1>2, <2>5
  <2>7. [u1 EXCEPT !.staked = @ - amount] = v
    BY <1>6, <2>4
  <2>8. PICK b1 : b1 = [wallets |-> W1, treasury |-> treasury]
    OBVIOUS
  <2>9. SetBooks([b1 EXCEPT !.wallets[w].staked = @ - amount])
    BY <2>1, <2>2, <2>3, <2>5, <2>8
  <2>10. [b1 EXCEPT !.wallets[w].staked = @ - amount]
           = [wallets |-> [W1 EXCEPT ![w] = [W1[w] EXCEPT !.staked = @ - amount]], treasury |-> treasury]
    BY <2>8
  <2>11. SetBooks([wallets |-> [wallets EXCEPT ![w] = v], treasury |-> treasury])
    BY <2>6, <2>7, <2>9, <2>10
  <2> QED
    BY <2>11 DEF SetBooks
<1> QED
  BY <1>7, <1>8, <1>9, WalletStep

LEMMA RewardSteps ==
  ASSUME StoreFits(Store), NEW w \in Wallets,
         claimRewards(w), UNCHANGED <<orders, trades, threw, marketVars>>
  PROVE  StoreSteps(Store, Store') /\ pastCutoff' = pastCutoff
<1>1. PICK u : u = wallets[w]
  OBVIOUS
<1>2. /\ u = [balance |-> u.balance, staked |-> u.staked, rewards |-> u.rewards]
      /\ u \in Wallet /\ u.balance \in [Currency -> Int] /\ u.rewards \in [Currency -> Int]
      /\ u.balance["LYNX"] \in Int /\ u.rewards["LYNX"] \in Int /\ u.staked \in Nat
      /\ u.balance["SOL"] \in Int /\ u.rewards["SOL"] \in Int
      /\ wallets \in [Wallets -> Wallet]
      /\ \A c \in Currency : WalletHolds(Books, w, c)
           = u.balance[c] + u.rewards[c] + (IF c = "LYNX" THEN u.staked ELSE 0)
  BY <1>1, StoreIs, WalletIs
<1>3. PICK bal1 : bal1 = [u.balance EXCEPT !["SOL"] = @ + u.rewards["SOL"]]
  OBVIOUS
<1>4. PICK bal : bal = [bal1 EXCEPT !["LYNX"] = @ + u.rewards["LYNX"]]
  OBVIOUS
<1>5. /\ bal1 \in [Currency -> Int] /\ bal \in [Currency -> Int]
      /\ \A c \in Currency : bal[c] = u.balance[c] + u.rewards[c]
  <2>1. /\ bal1 \in [Currency -> Int]
        /\ bal1["SOL"] = u.balance["SOL"] + u.rewards["SOL"] /\ bal1["LYNX"] = u.balance["LYNX"]
    BY <1>2, <1>3 DEF Currency
  <2>2. /\ bal \in [Currency -> Int] /\ bal["SOL"] = bal1["SOL"]
        /\ bal["LYNX"] = u.balance["LYNX"] + u.rewards["LYNX"]
    BY <1>2, <1>4, <2>1 DEF Currency
  <2> QED
    BY <2>1, <2>2 DEF Currency
<1>6. PICK none : none = [c \in Currency |-> 0]
  OBVIOUS
<1>7. PICK v : v = [balance |-> bal, staked |-> u.staked, rewards |-> none]
  OBVIOUS
<1>8. v \in Wallet
  BY <1>2, <1>5, <1>6, <1>7 DEF Wallet
<1>9. ASSUME NEW c \in Currency
      PROVE  v.balance[c] + v.rewards[c] + (IF c = "LYNX" THEN v.staked ELSE 0)
             = WalletHolds(Books, w, c)
  <2>1. v.balance[c] = u.balance[c] + u.rewards[c] /\ v.rewards[c] = 0 /\ v.staked = u.staked
    BY <1>5, <1>6, <1>7
  <2>2. u.balance[c] \in Int /\ u.rewards[c] \in Int
    BY <1>2
  <2> QED
    BY <1>2, <2>1, <2>2
<1>10. wallets' = [wallets EXCEPT ![w] = v] /\ treasury' = treasury
  <2>1. SetBooks([[[Books EXCEPT !.wallets[w].balance["SOL"] = @ + u.rewards["SOL"]]
                    EXCEPT !.wallets[w].balance["LYNX"] = @ + u.rewards["LYNX"]]
                    EXCEPT !.wallets[w].rewards = none])
    BY <1>1, <1>6 DEF claimRewards, credit
  <2>2. [Books EXCEPT !.wallets[w].balance["SOL"] = @ + u.rewards["SOL"]]
          = [wallets |-> [wallets EXCEPT ![w] = [u EXCEPT !.balance = bal1]], treasury |-> treasury]
    BY <1>1, <1>3 DEF Books
  <2>3. PICK u1 : u1 = [u EXCEPT !.balance = bal1]
    OBVIOUS
  <2>4. u1 = [balance |-> bal1, staked |-> u.staked, rewards |-> u.rewards]
    BY <1>2, <2>3
  <2>5. PICK W1 : W1 = [wallets EXCEPT ![w] = u1]
    OBVIOUS
  <2>6. W1[w] = u1 /\ \A a : [W1 EXCEPT ![w] = a] = [wallets EXCEPT ![w] = a]
    BY <1>2, <2>5
  <2>7. PICK b1 : b1 = [wallets |-> W1, treasury |-> treasury]
    OBVIOUS
  <2>8. SetBooks([[b1 EXCEPT !.wallets[w].balance["LYNX"] = @ + u.rewards["LYNX"]]
                    EXCEPT !.wallets[w].rewards = none])
    BY <2>1, <2>2, <2>3, <2>5, <2>7
  <2>9. [b1 EXCEPT !.wallets[w].balance["LYNX"] = @ + u.rewards["LYNX"]]
          = [wallets |-> [W1 EXCEPT ![w] = [u1 EXCEPT !.balance = bal]], treasury |-> treasury]
    BY <1>4, <2>4, <2>6, <2>7
  <2>10. PICK u2 : u2 = [u1 EXCEPT !.balance = bal]
    OBVIOUS
  <2>11. u2 = [balance |-> bal, staked |-> u.staked, rewards |-> u.rewards]
    BY <2>4, <2>10
  <2>12. PICK W2 : W2 = [wallets EXCEPT ![w] = u2]
    OBVIOUS
  <2>13. W2[w] = u2 /\ [W2 EXCEPT ![w] = v] = [wallets EXCEPT ![w] = v]
    BY <1>2, <2>12
  <2>14. PICK b2 : b2 = [wallets |-> W2, treasury |-> treasury]
    OBVIOUS
  <2>15. SetBooks([b2 EXCEPT !.wallets[w].rewards = none])
    BY <2>6, <2>8, <2>9, <2>10, <2>12, <2>14
  <2>16. [b2 EXCEPT !.wallets[w].rewards = none]
           = [wallets |-> [W2 EXCEPT ![w] = [W2[w] EXCEPT !.rewards = none]], treasury |-> treasury]
    BY <2>14
  <2>17. [u2 EXCEPT !.rewards = none] = v
    BY <1>7, <2>11
  <2>18. SetBooks([wallets |-> [wallets EXCEPT ![w] = v], treasury |-> treasury])
    BY <2>13, <2>15, <2>16, <2>17
  <2> QED
    BY <2>18 DEF SetBooks
<1> QED
  BY <1>8, <1>9, <1>10, WalletStep

-----------------------------------------------------------------------------
(* Claims and boosts                                                         *)

LEMMA StoreMade ==
  ASSUME NEW b \in BooksSet, NEW os \in Seq(Order), NEW ts \in Seq(TradeRecord),
         NEW h \in BOOLEAN, NEW ms \in [Markets -> MarketRecord],
         NEW ps \in Seq(PositionRecord), NEW ds \in Seq(DuelRecord)
  PROVE  [books |-> b, orders |-> os, trades |-> ts, threw |-> h,
          markets |-> ms, positions |-> ps, duels |-> ds] \in StoreSet
BY DEF StoreSet

WithPositions(x, ps) == [x EXCEPT !.positions = ps]

\* Everything but the markets and the positions is the same.
PoolsOnly(x, y, ms, ps) ==
  /\ StoreFits(y) /\ y.books = x.books /\ y.orders = x.orders /\ y.trades = x.trades
  /\ y.threw = x.threw /\ y.markets = ms /\ y.positions = ps /\ y.duels = x.duels

LEMMA WithPositionsIs ==
  ASSUME NEW x \in StoreSet, NEW ps
  PROVE  WithPositions(x, ps) = [books |-> x.books, orders |-> x.orders, trades |-> x.trades,
                                 threw |-> x.threw, markets |-> x.markets,
                                 positions |-> ps, duels |-> x.duels]
<1>1. x = [books |-> x.books, orders |-> x.orders, trades |-> x.trades, threw |-> x.threw,
           markets |-> x.markets, positions |-> x.positions, duels |-> x.duels]
  BY StoreTypes
<1> QED
  BY <1>1 DEF WithPositions

LEMMA PositionIs ==
  ASSUME NEW o \in PositionRecord
  PROVE  o = [market |-> o.market, wallet |-> o.wallet, position |-> o.position,
              amount |-> o.amount, solPrincipal |-> o.solPrincipal,
              boosted |-> o.boosted, claimed |-> o.claimed]
BY DEF PositionRecord

TakenBy(o) == [o EXCEPT !.claimed = TRUE]

ClaimTaken(x, y, o) ==
  \A c \in Currency :
    Moves(x, y, c, IF x.markets[o.market].currency = c THEN 0 - Pays(x.markets, o) ELSE 0)

\* A winning position claimed: what the pools hold goes down by its payout.
LEMMA PositionClaimed ==
  ASSUME NEW x, NEW o, NEW q, NEW ps, NEW y, NEW old \in Seq(PositionRecord), NEW i \in DOMAIN old,
         StoreFits(x), old = x.positions, o = old[i], o.claimed = FALSE, Wins(x.markets, o),
         q = TakenBy(o), ps = [old EXCEPT ![i] = q], y = WithPositions(x, ps)
  PROVE  PoolsOnly(x, y, x.markets, ps) /\ ClaimTaken(x, y, o)
<1>1. x \in StoreSet
  BY DEF StoreFits
<1>2. PICK ms : ms = x.markets
  OBVIOUS
<1>4. /\ ms \in [Markets -> MarketRecord] /\ old \in Seq(PositionRecord)
      /\ i \in DOMAIN old /\ o = old[i] /\ ps = [old EXCEPT ![i] = q]
      /\ PoolsFit(ms, old) /\ ClaimsFit(ms, old)
  BY <1>1, <1>2, StoreTypes DEF StoreFits
<1>5. o \in PositionRecord
  BY <1>4, OrdersFinite
<1>6. /\ q \in PositionRecord /\ q.claimed = TRUE /\ q.market = o.market /\ q.position = o.position
      /\ q.amount = o.amount /\ q.solPrincipal = o.solPrincipal
  <2>1. o = [market |-> o.market, wallet |-> o.wallet, position |-> o.position,
             amount |-> o.amount, solPrincipal |-> o.solPrincipal,
             boosted |-> o.boosted, claimed |-> o.claimed]
    BY <1>5, PositionIs
  <2>2. q = [market |-> o.market, wallet |-> o.wallet, position |-> o.position,
             amount |-> o.amount, solPrincipal |-> o.solPrincipal,
             boosted |-> o.boosted, claimed |-> TRUE]
    BY <2>1 DEF TakenBy
  <2>3. q \in PositionRecord
    BY <1>5, <2>2, PositionTypes DEF PositionRecord
  <2> QED
    BY <2>2, <2>3
<1>7. /\ ps \in Seq(PositionRecord) /\ DOMAIN ps = DOMAIN old
      /\ ps[i] = q /\ \A j \in DOMAIN old \ {i} : ps[j] = old[j]
  <2>1. /\ old \in Seq(PositionRecord) /\ i \in DOMAIN old /\ q \in PositionRecord
        /\ ps = [old EXCEPT ![i] = q]
    BY <1>4, <1>6
  <2> QED
    BY <2>1, SeqReplaced
<1>8. \A m \in Markets, p \in Position : Weighs(ps, m, p) = Weighs(old, m, p)
  <2>1. ASSUME NEW m \in Markets, NEW p \in Position PROVE Weighs(ps, m, p) = Weighs(old, m, p)
    <3>1. Weighs(ps, m, p) = Weighs(old, m, p) - Weight(old[i], m, p) + Weight(q, m, p)
      BY <1>4, <1>6, WeighsReplaced
    <3>2. Weight(q, m, p) = Weight(old[i], m, p) /\ Weight(q, m, p) \in Int
      BY <1>4, <1>5, <1>6, PositionTypes DEF Weight
    <3>3. Weighs(old, m, p) \in Int
      BY <1>4, MarketTypes DEF PoolsFit
    <3> QED
      BY <3>1, <3>2, <3>3
  <2> QED
    BY <2>1
<1>9. \A m \in Markets : PaysIn(ps, m) = PaysIn(old, m)
  <2>1. ASSUME NEW m \in Markets PROVE PaysIn(ps, m) = PaysIn(old, m)
    <3>1. PaysIn(ps, m) = PaysIn(old, m) - PaidIn(old[i], m) + PaidIn(q, m)
      BY <1>4, <1>6, PaysInReplaced
    <3>2. PaidIn(q, m) = PaidIn(old[i], m) /\ PaidIn(q, m) \in Int
      BY <1>4, <1>5, <1>6, PositionTypes DEF PaidIn
    <3>3. PaysIn(old, m) \in Int
      BY <1>4, MarketTypes DEF PoolsFit
    <3> QED
      BY <3>1, <3>2, <3>3
  <2> QED
    BY <2>1
<1>10. PoolsFit(ms, ps)
  <2>1. ASSUME NEW m \in Markets
        PROVE  /\ \A p \in Position : ms[m].side[p] = Weighs(ps, m, p)
               /\ ms[m].poolAmount = PaysIn(ps, m)
               /\ ms[m].status = "RESOLVED" => ms[m].result \in Position
    <3>1. /\ \A p \in Position : ms[m].side[p] = Weighs(old, m, p)
          /\ ms[m].poolAmount = PaysIn(old, m)
          /\ ms[m].status = "RESOLVED" => ms[m].result \in Position
      BY <1>4 DEF PoolsFit
    <3> QED
      BY <1>8, <1>9, <3>1
  <2> QED
    BY <2>1 DEF PoolsFit
<1>11. ClaimsFit(ms, ps)
  <2>1. Wins(ms, q)
    BY <1>2, <1>6 DEF Wins
  <2>2. ASSUME NEW j \in DOMAIN ps, ps[j].claimed PROVE Wins(ms, ps[j])
    <3>1. CASE j = i
      BY <1>7, <2>1, <3>1
    <3>2. CASE j # i
      BY <1>4, <1>7, <2>2, <3>2 DEF ClaimsFit
    <3> QED
      BY <3>1, <3>2
  <2> QED
    BY <2>2 DEF ClaimsFit
<1>12. y = [books |-> x.books, orders |-> x.orders, trades |-> x.trades, threw |-> x.threw,
            markets |-> ms, positions |-> ps, duels |-> x.duels]
  BY <1>1, <1>2, WithPositionsIs
<1>13. /\ y.books = x.books /\ y.orders = x.orders /\ y.trades = x.trades /\ y.threw = x.threw
       /\ y.markets = ms /\ y.positions = ps /\ y.duels = x.duels
  BY <1>12
<1>14. y \in StoreSet
  <2>1. /\ x.books \in BooksSet /\ x.orders \in Seq(Order) /\ x.trades \in Seq(TradeRecord)
        /\ x.threw \in BOOLEAN /\ x.duels \in Seq(DuelRecord)
    BY <1>1, StoreTypes
  <2>2. ms \in [Markets -> MarketRecord] /\ ps \in Seq(PositionRecord)
    BY <1>4, <1>7
  <2>3. [books |-> x.books, orders |-> x.orders, trades |-> x.trades, threw |-> x.threw,
         markets |-> ms, positions |-> ps, duels |-> x.duels] \in StoreSet
    BY <2>1, <2>2, StoreMade
  <2> QED
    BY <1>12, <2>3
<1>15. StoreFits(y)
  BY <1>2, <1>10, <1>11, <1>13, <1>14 DEF StoreFits
<1>16. Pays(ms, o) \in Nat
  <2>1. Wins(ms, old[i])
    BY <1>2, <1>4
  <2>2. Pays(ms, old[i]) \in Nat
    <3>1. PICK c : c = "SOL"
      OBVIOUS
    <3> QED
      BY <1>4, <2>1, ClaimTookInt
  <2> QED
    BY <1>4, <2>2
<1>17. ASSUME NEW c \in Currency
       PROVE  Moves(x, y, c, IF ms[o.market].currency = c THEN 0 - Pays(ms, o) ELSE 0)
  <2>1. PICK n : n = IF ms[o.market].currency = c THEN Pays(ms, o) ELSE 0
    OBVIOUS
  <2>2. n \in Int
    BY <1>16, <2>1
  <2>3. ClaimTook(ms, old[i], c) = 0 /\ ClaimTook(ms, q, c) = n
    BY <1>4, <1>6, <2>1 DEF ClaimTook, Pays
  <2>4. \A j \in DOMAIN old : ClaimTook(ms, old[j], c) \in Int
    BY <1>4, ClaimTookInt
  <2>5. ClaimsTook(ms, ps, c) = ClaimsTook(ms, old, c) - ClaimTook(ms, old[i], c) + ClaimTook(ms, q, c)
    BY <1>4, <1>6, <2>2, <2>3, <2>4, ClaimReplaced
  <2>6. /\ Holdings(x.books, c) \in Int /\ OrdersHold(x.orders, c) \in Int
        /\ PoolsHold(ms, c) \in Int /\ DuelsHold(ms, x.duels, c) \in Int
        /\ ClaimsTook(ms, old, c) \in Int
    BY <1>2, TotalInt
  <2>7. Total(x, c) = Holdings(x.books, c) + OrdersHold(x.orders, c) + PoolsHold(ms, c)
                      + DuelsHold(ms, x.duels, c) - ClaimsTook(ms, old, c)
    <3>1. Total(x, c) = Holdings(x.books, c) + OrdersHold(x.orders, c) + PoolsHold(x.markets, c)
                      + DuelsHold(x.markets, x.duels, c) - ClaimsTook(x.markets, x.positions, c)
      BY TotalIs
    <3> QED
      BY <1>2, <3>1
  <2>8. Total(y, c) = Holdings(x.books, c) + OrdersHold(x.orders, c) + PoolsHold(ms, c)
                      + DuelsHold(ms, x.duels, c) - ClaimsTook(ms, ps, c)
    BY <1>13, TotalIs
  <2>9. ClaimsTook(ms, ps, c) = ClaimsTook(ms, old, c) + n
    BY <2>2, <2>3, <2>5, <2>6
  <2>10. Total(y, c) = Total(x, c) + (0 - n)
    BY <2>2, <2>6, <2>7, <2>8, <2>9
  <2>11. (IF ms[o.market].currency = c THEN 0 - Pays(ms, o) ELSE 0) = 0 - n
    BY <1>16, <2>1
  <2> QED
    BY <1>13, <2>10, <2>11 DEF Moves
<1> QED
  BY <1>2, <1>13, <1>15, <1>16, <1>17 DEF PoolsOnly, ClaimTaken

LEMMA ClaimSteps ==
  ASSUME StoreFits(Store), NEW i \in DOMAIN positions, claimPosition(i)
  PROVE  StoreSteps(Store, Store') /\ pastCutoff' = pastCutoff
<1>1. PICK o : o = positions[i]
  OBVIOUS
<1>2. /\ Store.books = Books /\ Store.markets = markets /\ Store.positions = positions
      /\ Store.threw = threw /\ Store.duels = duels
      /\ Books \in BooksSet /\ positions \in Seq(PositionRecord)
      /\ markets \in [Markets -> MarketRecord]
      /\ PoolsFit(markets, positions) /\ ClaimsFit(markets, positions)
  BY StoreIs DEF StoreFits
<1>3. o \in PositionRecord
  BY <1>1, <1>2, OrdersFinite
<1>4. o.claimed = FALSE /\ Wins(markets, o)
  BY <1>1, <1>3, PositionTypes DEF claimPosition, IsWinner, Wins
<1>5. PICK q : q = TakenBy(o)
  OBVIOUS
<1>6. PICK ps : ps = [positions EXCEPT ![i] = q]
  OBVIOUS
<1>7. PICK n : n = Pays(markets, o)
  OBVIOUS
<1>8. PICK c : c = markets[o.market].currency
  OBVIOUS
<1>9. c \in Currency /\ o.wallet \in Wallets
  BY <1>2, <1>3, <1>8, PositionTypes, MarketTypes
<1>10. n \in Nat
  <2>1. Wins(markets, positions[i])
    BY <1>1, <1>4
  <2>2. Pays(markets, positions[i]) \in Nat
    <3>1. PICK e : e = "SOL"
      OBVIOUS
    <3> QED
      BY <1>2, <2>1, ClaimTookInt
  <2> QED
    BY <1>1, <1>7, <2>2
<1>11. PICK b : b = credit(Books, o.wallet, c, n)
  OBVIOUS
<1>12. b \in BooksSet /\ \A d \in Currency : Holdings(b, d) = Holdings(Books, d) + (IF d = c THEN n ELSE 0)
  <2>1. n \in Int
    BY <1>10
  <2> QED
    BY <1>2, <1>9, <1>11, <2>1, CreditFits
<1>13. PICK x : x = WithBooks(Store, b)
  OBVIOUS
<1>14. BooksOnly(Store, x, b)
  BY <1>12, <1>13, StoreBooks
<1>15. /\ StoreFits(x) /\ x.books = b /\ x.markets = markets /\ x.positions = positions
       /\ x.duels = duels /\ x.threw = threw
  BY <1>2, <1>14 DEF BooksOnly
<1>16. PICK y : y = WithPositions(x, ps)
  OBVIOUS
<1>17. /\ PoolsOnly(x, y, markets, ps)
       /\ \A d \in Currency : Moves(x, y, d, IF c = d THEN 0 - n ELSE 0)
  <2>1. Wins(x.markets, o) /\ positions = x.positions
    BY <1>4, <1>15
  <2>2. PoolsOnly(x, y, x.markets, ps) /\ ClaimTaken(x, y, o)
    BY <1>1, <1>2, <1>4, <1>5, <1>6, <1>15, <1>16, <2>1, PositionClaimed
  <2> QED
    BY <1>7, <1>8, <1>15, <2>2 DEF ClaimTaken
<1>18. StoreFits(y) /\ y.markets = markets /\ y.duels = duels /\ y.threw = threw
  BY <1>15, <1>17 DEF PoolsOnly
<1>19. ASSUME NEW d \in Currency PROVE Moves(Store, y, d, 0)
  <2>1. PICK k : k = IF d = c THEN n ELSE 0
    OBVIOUS
  <2>2. k \in Int /\ 0 - k \in Int /\ (IF c = d THEN 0 - n ELSE 0) = 0 - k
    BY <1>10, <2>1
  <2>3. Holdings(b, d) = Holdings(Store.books, d) + k
    BY <1>2, <1>12, <2>1
  <2>4. Moves(Store, x, d, k)
    BY <1>12, <1>14, <2>2, <2>3, BooksMove
  <2>5. Moves(x, y, d, 0 - k)
    BY <1>17, <2>2
  <2>6. Total(Store, d) \in Int
    BY TotalInt
  <2> QED
    BY <2>2, <2>4, <2>5, <2>6 DEF Moves
<1>20. SetStore(y)
  <2>1. SetStore([Store EXCEPT
          !.books = credit(Store.books, positions[i].wallet,
                           markets[positions[i].market].currency, Payout(i)),
          !.positions[i].claimed = TRUE])
    BY DEF claimPosition
  <2>2. Payout(i) = n
    BY <1>1, <1>7 DEF Payout, Pays
  <2>3. SetStore([Store EXCEPT !.books = b, !.positions[i].claimed = TRUE])
    BY <1>1, <1>2, <1>8, <1>11, <2>1, <2>2
  <2>4. [Store EXCEPT !.books = b, !.positions[i].claimed = TRUE]
          = [Store EXCEPT !.books = b, !.positions = ps]
    BY <1>1, <1>2, <1>5, <1>6 DEF TakenBy
  <2> QED
    BY <1>13, <1>16, <2>3, <2>4 DEF WithPositions, WithBooks
<1>21. Store' = y /\ pastCutoff' = pastCutoff
  BY <1>18, <1>20, StoreBecomes DEF StoreFits
<1>22. StoreSteps(Store, y)
  BY <1>2, <1>18, <1>19 DEF StoreSteps, SameEnds, Untouched
<1> QED
  BY <1>21, <1>22

-----------------------------------------------------------------------------
(* Boosts                                                                    *)

LEMMA MadeHas ==
  ASSUME NEW b, NEW os, NEW ts, NEW h, NEW ms, NEW ps, NEW ds, NEW y,
         y = [books |-> b, orders |-> os, trades |-> ts, threw |-> h,
              markets |-> ms, positions |-> ps, duels |-> ds]
  PROVE  /\ y.books = b /\ y.orders = os /\ y.trades = ts /\ y.threw = h
         /\ y.markets = ms /\ y.positions = ps /\ y.duels = ds
OBVIOUS

HeavierBy(o, n) == [o EXCEPT !.amount = @ + n, !.boosted = @ + n]
WeightedBy(market, p, n) == [market EXCEPT !.side[p] = @ + n]

WeightedIs(market, p, n, r) ==
  /\ r \in MarketRecord /\ r.currency = market.currency /\ r.status = market.status
  /\ r.poolAmount = market.poolAmount /\ r.result = market.result
  /\ r.side[p] = market.side[p] + n
  /\ \A q \in Position \ {p} : r.side[q] = market.side[q]

LEMMA WeightedMarket ==
  ASSUME NEW market \in MarketRecord, NEW p \in Position, NEW n \in Nat,
         NEW r, r = WeightedBy(market, p, n)
  PROVE  WeightedIs(market, p, n, r)
<1>1. market.side \in [Position -> Nat]
  BY MarketTypes
<1>2. PICK side : side = [market.side EXCEPT ![p] = @ + n]
  OBVIOUS
<1>3. /\ side \in [Position -> Nat] /\ side[p] = market.side[p] + n
      /\ \A q \in Position \ {p} : side[q] = market.side[q]
  BY <1>1, <1>2
<1>4. r = [market EXCEPT !.side = side]
  BY <1>2 DEF WeightedBy
<1>5. r = [currency |-> market.currency, isTernary |-> market.isTernary, status |-> market.status,
           poolAmount |-> market.poolAmount, side |-> side, result |-> market.result]
  <2>1. market = [currency |-> market.currency, isTernary |-> market.isTernary,
                  status |-> market.status, poolAmount |-> market.poolAmount,
                  side |-> market.side, result |-> market.result]
    BY MarketIs
  <2> QED
    BY <1>4, <2>1
<1>6. r \in MarketRecord
  BY <1>3, <1>5, MarketTypes DEF MarketRecord
<1>7. /\ r.currency = market.currency /\ r.status = market.status
      /\ r.poolAmount = market.poolAmount /\ r.result = market.result /\ r.side = side
  BY <1>5
<1> QED
  BY <1>3, <1>6, <1>7 DEF WeightedIs

HeavierIs(o, n, q) ==
  /\ q \in PositionRecord /\ q.market = o.market /\ q.position = o.position
  /\ q.solPrincipal = o.solPrincipal /\ q.amount = o.amount + n /\ q.claimed = o.claimed

LEMMA HeavierPosition ==
  ASSUME NEW o \in PositionRecord, NEW n \in Nat, NEW q, q = HeavierBy(o, n)
  PROVE  HeavierIs(o, n, q)
<1>1. /\ o.market \in Markets /\ o.wallet \in Wallets /\ o.position \in Position
      /\ o.amount \in Nat \ {0} /\ o.solPrincipal \in Nat \ {0} /\ o.boosted \in Nat
      /\ o.claimed \in BOOLEAN
  BY PositionTypes
<1>2. PICK amount : amount = o.amount + n
  OBVIOUS
<1>3. PICK boosted : boosted = o.boosted + n
  OBVIOUS
<1>4. amount \in Nat \ {0} /\ boosted \in Nat
  BY <1>1, <1>2, <1>3
<1>5. q = [o EXCEPT !.amount = amount, !.boosted = boosted]
  BY <1>2, <1>3 DEF HeavierBy
<1>6. q = [market |-> o.market, wallet |-> o.wallet, position |-> o.position,
           amount |-> amount, solPrincipal |-> o.solPrincipal,
           boosted |-> boosted, claimed |-> o.claimed]
  <2>1. o = [market |-> o.market, wallet |-> o.wallet, position |-> o.position,
             amount |-> o.amount, solPrincipal |-> o.solPrincipal,
             boosted |-> o.boosted, claimed |-> o.claimed]
    BY PositionIs
  <2> QED
    BY <1>5, <2>1
<1>7. q \in PositionRecord
  BY <1>1, <1>4, <1>6 DEF PositionRecord
<1>8. /\ q.market = o.market /\ q.position = o.position
      /\ q.solPrincipal = o.solPrincipal /\ q.amount = amount /\ q.claimed = o.claimed
  BY <1>6
<1> QED
  BY <1>2, <1>7, <1>8 DEF HeavierIs

Boosts(x, y, n, i, m, o, q, r, old, ps, ms, new) ==
  /\ old = x.positions /\ ms = x.markets /\ o = old[i] /\ m = o.market
  /\ q = HeavierBy(o, n) /\ ps = [old EXCEPT ![i] = q]
  /\ r = WeightedBy(ms[m], o.position, n) /\ new = [ms EXCEPT ![m] = r]
  /\ y = WithMarkets(WithPositions(x, ps), new)

BoostMade(x, y, m, ps, ms, new) ==
  /\ PoolsOnly(x, y, new, ps) /\ OnlyMarket(m, ms, new)
  /\ new[m].status = ms[m].status /\ new[m].poolAmount = ms[m].poolAmount
  /\ \A c \in Currency : Moves(x, y, c, 0)

\* More weight for a position, on its side of an open market, and no money.
LEMMA PositionBoosted ==
  ASSUME NEW x, NEW o, NEW q, NEW ps, NEW r, NEW new, NEW y, NEW n \in Nat,
         NEW old \in Seq(PositionRecord), NEW i \in DOMAIN old,
         NEW ms \in [Markets -> MarketRecord], NEW m \in Markets,
         StoreFits(x), Boosts(x, y, n, i, m, o, q, r, old, ps, ms, new),
         o.claimed = FALSE, ms[m].status # "RESOLVED"
  PROVE  BoostMade(x, y, m, ps, ms, new)
<1>0. old = x.positions /\ ms = x.markets /\ o = old[i] /\ m = o.market
  BY DEF Boosts
<1>1. x \in StoreSet
  BY DEF StoreFits
<1>2. /\ x.books \in BooksSet /\ x.orders \in Seq(Order) /\ x.trades \in Seq(TradeRecord)
      /\ x.threw \in BOOLEAN /\ x.duels \in Seq(DuelRecord)
  BY <1>1, StoreTypes
<1>3. PoolsFit(ms, old) /\ ClaimsFit(ms, old) /\ LocksFit(ms, x.orders) /\ DuelsFit(ms, x.duels)
  BY <1>0 DEF StoreFits
<1>4. o \in PositionRecord /\ o.position \in Position
  BY <1>0, OrdersFinite, PositionTypes
<1>5. /\ q \in PositionRecord /\ q.market = o.market /\ q.position = o.position
      /\ q.solPrincipal = o.solPrincipal /\ q.amount = o.amount + n /\ q.claimed = FALSE
  <2>1. q = HeavierBy(o, n)
    BY DEF Boosts
  <2>2. HeavierIs(o, n, q)
    BY <1>4, <2>1, HeavierPosition
  <2> QED
    BY <1>0, <2>2 DEF HeavierIs
<1>6. PICK p : p = o.position
  OBVIOUS
<1>7. /\ r \in MarketRecord /\ r.currency = ms[m].currency /\ r.status = ms[m].status
      /\ r.poolAmount = ms[m].poolAmount /\ r.result = ms[m].result
      /\ r.side[p] = ms[m].side[p] + n
      /\ \A k \in Position \ {p} : r.side[k] = ms[m].side[k]
  <2>1. ms[m] \in MarketRecord /\ p \in Position /\ r = WeightedBy(ms[m], p, n)
    BY <1>4, <1>6 DEF Boosts
  <2>2. WeightedIs(ms[m], p, n, r)
    BY <2>1, WeightedMarket
  <2> QED
    BY <2>2 DEF WeightedIs
<1>8. /\ ps \in Seq(PositionRecord) /\ DOMAIN ps = DOMAIN old
      /\ ps[i] = q /\ \A j \in DOMAIN old \ {i} : ps[j] = old[j]
  <2>1. q \in PositionRecord /\ ps = [old EXCEPT ![i] = q]
    BY <1>5 DEF Boosts
  <2> QED
    BY <2>1, SeqReplaced
<1>9. /\ new \in [Markets -> MarketRecord] /\ new[m] = r
      /\ \A k \in Markets \ {m} : new[k] = ms[k]
  <2>1. r \in MarketRecord /\ new = [ms EXCEPT ![m] = r]
    BY <1>7 DEF Boosts
  <2> QED
    BY <2>1
<1>10. SameCurrency(ms, new) /\ OnlyMarket(m, ms, new)
  BY <1>7, <1>9 DEF SameCurrency, OnlyMarket
<1>11. y = [books |-> x.books, orders |-> x.orders, trades |-> x.trades, threw |-> x.threw,
            markets |-> new, positions |-> ps, duels |-> x.duels]
  <2>1. PICK z : z = WithPositions(x, ps)
    OBVIOUS
  <2>2. z = [books |-> x.books, orders |-> x.orders, trades |-> x.trades, threw |-> x.threw,
             markets |-> ms, positions |-> ps, duels |-> x.duels]
    BY <1>0, <1>1, <2>1, WithPositionsIs
  <2>3. z \in StoreSet
    <3>1. [books |-> x.books, orders |-> x.orders, trades |-> x.trades, threw |-> x.threw,
           markets |-> ms, positions |-> ps, duels |-> x.duels] \in StoreSet
      BY <1>2, <1>8, StoreMade
    <3> QED
      BY <2>2, <3>1
  <2>4. y = [books |-> z.books, orders |-> z.orders, trades |-> z.trades, threw |-> z.threw,
             markets |-> new, positions |-> z.positions, duels |-> z.duels]
    <3>1. y = WithMarkets(z, new)
      BY <2>1 DEF Boosts
    <3> QED
      BY <2>3, <3>1, WithMarketsIs
  <2> QED
    BY <2>2, <2>4
<1>12. /\ y.books = x.books /\ y.orders = x.orders /\ y.trades = x.trades /\ y.threw = x.threw
       /\ y.markets = new /\ y.positions = ps /\ y.duels = x.duels
  BY <1>11, MadeHas
<1>13. y \in StoreSet
  <2>1. [books |-> x.books, orders |-> x.orders, trades |-> x.trades, threw |-> x.threw,
         markets |-> new, positions |-> ps, duels |-> x.duels] \in StoreSet
    BY <1>2, <1>8, <1>9, StoreMade
  <2> QED
    BY <1>11, <2>1
<1>14. PoolsFit(new, ps)
  <2>1. ASSUME NEW k \in Markets, NEW s \in Position
        PROVE  new[k].side[s] = Weighs(ps, k, s)
    <3>1. Weighs(ps, k, s) = Weighs(old, k, s) - Weight(old[i], k, s) + Weight(q, k, s)
      <4>1. q \in PositionRecord /\ ps = [old EXCEPT ![i] = q]
        BY <1>5 DEF Boosts
      <4> QED
        BY <4>1, WeighsReplaced
    <3>2. ms[k].side[s] = Weighs(old, k, s) /\ ms[k].side[s] \in Nat
      BY <1>3, MarketTypes DEF PoolsFit
    <3>3. PICK was : was = Weight(old[i], k, s)
      OBVIOUS
    <3>4. was \in Int /\ Weight(q, k, s) = was + (IF k = m /\ s = p THEN n ELSE 0)
      <4>1. o.amount \in Int
        BY <1>4, PositionTypes
      <4> QED
        BY <1>0, <1>5, <1>6, <3>3, <4>1 DEF Weight
    <3>5. new[k].side[s] = ms[k].side[s] + (IF k = m /\ s = p THEN n ELSE 0)
      <4>1. CASE k # m
        BY <1>9, <3>2, <4>1
      <4>2. CASE k = m /\ s = p
        BY <1>7, <1>9, <3>2, <4>2
      <4>3. CASE k = m /\ s # p
        BY <1>7, <1>9, <3>2, <4>3
      <4> QED
        BY <4>1, <4>2, <4>3
    <3> QED
      BY <3>1, <3>2, <3>3, <3>4, <3>5
  <2>2. ASSUME NEW k \in Markets
        PROVE  new[k].poolAmount = PaysIn(ps, k)
    <3>1. PaysIn(ps, k) = PaysIn(old, k) - PaidIn(old[i], k) + PaidIn(q, k)
      <4>1. q \in PositionRecord /\ ps = [old EXCEPT ![i] = q]
        BY <1>5 DEF Boosts
      <4> QED
        BY <4>1, PaysInReplaced
    <3>2. PaidIn(q, k) = PaidIn(old[i], k) /\ PaidIn(q, k) \in Int
      BY <1>0, <1>4, <1>5, PositionTypes DEF PaidIn
    <3>3. ms[k].poolAmount = PaysIn(old, k) /\ ms[k].poolAmount \in Nat
      BY <1>3, MarketTypes DEF PoolsFit
    <3>4. new[k].poolAmount = ms[k].poolAmount
      BY <1>7, <1>9
    <3> QED
      BY <3>1, <3>2, <3>3, <3>4
  <2>3. ASSUME NEW k \in Markets, new[k].status = "RESOLVED" PROVE new[k].result \in Position
    <3>1. k # m
      BY <1>7, <1>9, <2>3
    <3> QED
      BY <1>3, <1>9, <2>3, <3>1 DEF PoolsFit
  <2> QED
    BY <2>1, <2>2, <2>3 DEF PoolsFit
<1>15. \A j \in DOMAIN old : old[j].claimed => new[old[j].market] = ms[old[j].market]
  <2>1. ASSUME NEW j \in DOMAIN old, old[j].claimed PROVE new[old[j].market] = ms[old[j].market]
    <3>1. ms[old[j].market].status = "RESOLVED"
      BY <1>3, <2>1 DEF ClaimsFit, Wins
    <3>2. old[j].market \in Markets
      BY OrdersFinite, PositionTypes
    <3> QED
      BY <1>9, <3>1, <3>2
  <2> QED
    BY <2>1
<1>16. ClaimsFit(new, ps)
  <2>1. ClaimsFit(new, old)
    <3>1. PICK c \in Currency : TRUE
      BY DEF Currency
    <3> QED
      BY <1>3, <1>10, <1>15, ClaimsTookSame
  <2>2. ASSUME NEW j \in DOMAIN ps, ps[j].claimed PROVE Wins(new, ps[j])
    <3>1. j # i
      BY <1>5, <1>8, <2>2
    <3> QED
      BY <1>8, <2>1, <2>2, <3>1 DEF ClaimsFit
  <2> QED
    BY <2>2 DEF ClaimsFit
<1>17. LocksFit(new, x.orders) /\ DuelsFit(new, x.duels)
  BY <1>2, <1>3, <1>10, LocksFitSame, DuelsHoldSame
<1>18. StoreFits(y)
  <2>1. x.threw \/ (Uncrossed(x.orders) /\ \A j \in DOMAIN x.orders : ~Overspent(x.orders[j]))
    BY DEF StoreFits
  <2> QED
    BY <1>12, <1>13, <1>14, <1>16, <1>17, <2>1 DEF StoreFits
<1>19. ASSUME NEW c \in Currency PROVE Moves(x, y, c, 0)
  <2>1. PoolsHold(new, c) = PoolsHold(ms, c)
    <3>1. PoolsHold(new, c) = PoolsHold(ms, c) - PoolHolds(ms[m], c) + PoolHolds(r, c)
      <4>1. /\ r \in MarketRecord /\ new = [x.markets EXCEPT ![m] = r]
            /\ x.markets \in [Markets -> MarketRecord]
        BY <1>0, <1>7 DEF Boosts
      <4>2. PoolsHold(new, c) = PoolsHold(x.markets, c) - PoolHolds(x.markets[m], c) + PoolHolds(r, c)
        BY <4>1, PoolReplaced
      <4> QED
        BY <1>0, <4>2
    <3>2. PoolHolds(r, c) = PoolHolds(ms[m], c)
      BY <1>7 DEF PoolHolds
    <3>3. PoolHolds(r, c) \in Int /\ PoolsHold(ms, c) \in Int
      BY <1>7, PoolHoldsInt, PoolsHoldInt
    <3> QED
      BY <3>1, <3>2, <3>3
  <2>2. DuelsHold(new, x.duels, c) = DuelsHold(ms, x.duels, c)
    BY <1>2, <1>10, DuelsHoldSame
  <2>3. \A j \in DOMAIN old : ClaimTook(new, old[j], c) \in Int
    <3>1. ASSUME NEW j \in DOMAIN old PROVE ClaimTook(new, old[j], c) \in Int
      <4>1. CASE old[j].claimed
        <5>1. ClaimTook(new, old[j], c) = ClaimTook(ms, old[j], c)
          BY <1>15, <4>1 DEF ClaimTook, Pays
        <5> QED
          BY <1>3, <5>1, ClaimTookInt
      <4>2. CASE ~old[j].claimed
        BY <4>2 DEF ClaimTook
      <4> QED
        BY <4>1, <4>2
    <3> QED
      BY <3>1
  <2>4. ClaimTook(new, q, c) = 0 /\ ClaimTook(new, old[i], c) = 0
    BY <1>0, <1>5 DEF ClaimTook
  <2>5. ClaimsTook(new, ps, c) = ClaimsTook(new, old, c) - ClaimTook(new, old[i], c) + ClaimTook(new, q, c)
    <3>1. q \in PositionRecord /\ ClaimTook(new, q, c) \in Int /\ ps = [old EXCEPT ![i] = q]
      BY <1>5, <2>4 DEF Boosts
    <3> QED
      BY <2>3, <3>1, ClaimReplaced
  <2>6. ClaimsTook(new, old, c) = ClaimsTook(ms, old, c)
    BY <1>0, <1>10, <1>15, ClaimsTookSame
  <2>7. ClaimsTook(ms, old, c) \in Int
    BY <1>3, ClaimsTookInt
  <2>8. ClaimsTook(new, ps, c) = ClaimsTook(ms, old, c)
    BY <2>4, <2>5, <2>6, <2>7
  <2>9. Total(x, c) = Holdings(x.books, c) + OrdersHold(x.orders, c) + PoolsHold(x.markets, c)
                      + DuelsHold(x.markets, x.duels, c) - ClaimsTook(x.markets, x.positions, c)
    BY TotalIs
  <2>10. Total(y, c) = Holdings(x.books, c) + OrdersHold(x.orders, c) + PoolsHold(new, c)
                      + DuelsHold(new, x.duels, c) - ClaimsTook(new, ps, c)
    BY <1>12, TotalIs
  <2>11. Total(y, c) = Total(x, c) /\ Total(x, c) \in Int
    <3>1. Total(x, c) \in Int
      BY TotalInt
    <3> QED
      BY <1>0, <2>1, <2>2, <2>8, <2>9, <2>10, <3>1
  <2> QED
    BY <1>12, <2>11 DEF Moves
<1> QED
  BY <1>7, <1>9, <1>10, <1>12, <1>18, <1>19 DEF PoolsOnly, BoostMade

-----------------------------------------------------------------------------
(* The step of a boost, and of the other uses of positions and markets       *)

LEMMA TwapNat ==
  ASSUME trades \in Seq(TradeRecord)
  PROVE  getLynxTwapPrice # NoPrice => getLynxTwapPrice \in Nat
<1> DEFINE D == DOMAIN trades
           volumes == [i \in D |-> trades[i].amount]
           worths == [i \in D |-> trades[i].amount * trades[i].price]
<1>1. IsFiniteSet(D) /\ \A i \in D : trades[i] \in TradeRecord
  BY OrdersFinite
<1>2. \A i \in D : volumes[i] \in Nat /\ worths[i] \in Nat
  <2>1. ASSUME NEW i \in D PROVE volumes[i] \in Nat /\ worths[i] \in Nat
    <3>1. trades[i].amount \in Nat /\ trades[i].price \in Nat
      BY <1>1 DEF TradeRecord
    <3>2. PICK a : a = trades[i].amount
      OBVIOUS
    <3>3. PICK p : p = trades[i].price
      OBVIOUS
    <3>4. a * p \in Nat
      BY <3>1, <3>2, <3>3
    <3> QED
      BY <3>1, <3>2, <3>3, <3>4
  <2> QED
    BY <2>1
<1>3. PICK volume : volume = SumFunctionOnSet(volumes, D)
  OBVIOUS
<1>4. PICK worth : worth = SumFunctionOnSet(worths, D)
  OBVIOUS
<1>5. getLynxTwapPrice = IF Len(trades) < TwapMinTrades \/ volume < TwapMinVolume THEN NoPrice
                         ELSE roundAmount(worth, volume)
  BY <1>3, <1>4 DEF getLynxTwapPrice, SumOver
<1> HIDE DEF volumes, worths, D
<1>6. volume \in Nat /\ worth \in Nat
  BY <1>1, <1>2, <1>3, <1>4, SumNat
<1>7. volume >= TwapMinVolume => roundAmount(worth, volume) \in Nat
  <2>1. ASSUME volume >= TwapMinVolume PROVE volume \in Nat \ {0}
    BY <1>6, <2>1, BookAssumption
  <2>2. ASSUME volume \in Nat \ {0} PROVE roundAmount(worth, volume) \in Nat
    BY <1>6, <2>2, RoundFits
  <2> QED
    BY <2>1, <2>2
<1>8. ~(volume < TwapMinVolume) => volume >= TwapMinVolume
  BY <1>6, BookAssumption
<1> QED
  BY <1>5, <1>7, <1>8

\* LYNX taken from a balance and burned: nothing is lost.
LEMMA BurntFits ==
  ASSUME NEW b \in BooksSet, NEW w \in Wallets, NEW amount \in Nat,
         NEW a, a = CountBurn(debit(b, w, "LYNX", amount), amount)
  PROVE  a \in BooksSet /\ \A c \in Currency : Holdings(a, c) = Holdings(b, c)
<1>1. amount \in Int /\ "LYNX" \in Currency
  BY DEF Currency
<1>2. PICK e : e = debit(b, w, "LYNX", amount)
  OBVIOUS
<1>3. e \in BooksSet /\ \A c \in Currency : Holdings(e, c) = Holdings(b, c) - (IF c = "LYNX" THEN amount ELSE 0)
  BY <1>1, <1>2, DebitFits
<1>4. a \in BooksSet /\ \A c \in Currency : Holdings(a, c) = Holdings(e, c) + (IF c = "LYNX" THEN amount ELSE 0)
  BY <1>1, <1>2, <1>3, CountBurnFits
<1>5. ASSUME NEW c \in Currency PROVE Holdings(a, c) = Holdings(b, c)
  <2>1. Holdings(b, c) \in Int
    BY HoldingsInt
  <2>2. /\ Holdings(e, c) = Holdings(b, c) - (IF c = "LYNX" THEN amount ELSE 0)
        /\ Holdings(a, c) = Holdings(e, c) + (IF c = "LYNX" THEN amount ELSE 0)
    BY <1>3, <1>4
  <2> QED
    BY <1>1, <2>1, <2>2
<1> QED
  BY <1>4, <1>5

LEMMA BoostIs ==
  ASSUME NEW x, NEW y, NEW n, NEW i, NEW m, NEW o, NEW q, NEW r, NEW old, NEW ps, NEW ms, NEW new,
         Boosts(x, y, n, i, m, o, q, r, old, ps, ms, new)
  PROVE  y = Boosted(x, i, n)
<1>1. /\ old = x.positions /\ ms = x.markets /\ o = old[i] /\ m = o.market
      /\ q = HeavierBy(o, n) /\ r = WeightedBy(ms[m], o.position, n)
  BY DEF Boosts
<1>2. Boosted(x, i, n) = [x EXCEPT
         !.positions[i] = [o EXCEPT !.amount = @ + n, !.boosted = @ + n],
         !.markets[o.market] = [x.markets[o.market] EXCEPT !.side[o.position] = @ + n]]
  BY <1>1 DEF Boosted
<1>3. Boosted(x, i, n) = [x EXCEPT !.positions[i] = q, !.markets[m] = r]
  BY <1>1, <1>2 DEF HeavierBy, WeightedBy
<1>4. [x EXCEPT !.positions[i] = q, !.markets[m] = r] = [x EXCEPT !.positions = ps, !.markets = new]
  BY <1>1 DEF Boosts
<1>5. y = [x EXCEPT !.positions = ps, !.markets = new]
  BY DEF Boosts, WithMarkets, WithPositions
<1> QED
  BY <1>3, <1>4, <1>5

LEMMA BoostSteps ==
  ASSUME StoreFits(Store), NEW i \in DOMAIN positions, NEW lynx \in BoostAmounts,
         boostPositionWithLynxBurn(i, lynx)
  PROVE  StoreSteps(Store, Store') /\ pastCutoff' = pastCutoff
<1>1. PICK o : o = positions[i]
  OBVIOUS
<1>2. /\ Store.books = Books /\ Store.markets = markets /\ Store.positions = positions
      /\ Store.threw = threw /\ Store.duels = duels
      /\ Books \in BooksSet /\ positions \in Seq(PositionRecord)
      /\ markets \in [Markets -> MarketRecord] /\ trades \in Seq(TradeRecord)
  BY StoreIs
<1>3. o \in PositionRecord /\ o.market \in Markets /\ o.wallet \in Wallets
  BY <1>1, <1>2, OrdersFinite, PositionTypes
<1>4. PICK m \in Markets : m = o.market
  BY <1>3
<1>5. PICK n : n = roundAmount(lynx * getLynxTwapPrice, PriceUnit)
  OBVIOUS
<1>6. PICK b : b = CountBurn(debit(Books, o.wallet, "LYNX", lynx), lynx)
  OBVIOUS
<1>7. PICK x : x = WithBooks(Store, b)
  OBVIOUS
<1>8. /\ o.claimed = FALSE /\ AcceptsEntries(m) /\ getLynxTwapPrice # NoPrice
      /\ SetStore(Boosted(x, i, n))
  <2>1. /\ ~o.claimed /\ AcceptsEntries(m) /\ getLynxTwapPrice # NoPrice
        /\ SetStore(Boosted([Store EXCEPT !.books = CountBurn(debit(Store.books, o.wallet, "LYNX", lynx), lynx)],
                            i, n))
    BY <1>1, <1>4, <1>5 DEF boostPositionWithLynxBurn
  <2>2. [Store EXCEPT !.books = CountBurn(debit(Store.books, o.wallet, "LYNX", lynx), lynx)] = x
    BY <1>2, <1>6, <1>7 DEF WithBooks
  <2> QED
    BY <1>3, <2>1, <2>2, PositionTypes
<1>9. lynx \in Nat /\ n \in Nat
  <2>1. lynx \in Nat
    BY MarketAssumption
  <2>2. PICK price : price = getLynxTwapPrice
    OBVIOUS
  <2>3. price \in Nat
    BY <1>2, <1>8, <2>2, TwapNat
  <2>4. lynx * price \in Nat /\ PriceUnit \in Nat \ {0}
    BY <2>1, <2>3, LedgerAssumption
  <2>5. roundAmount(lynx * price, PriceUnit) \in Nat
    BY <2>4, RoundFits
  <2> QED
    BY <1>5, <2>1, <2>2, <2>5
<1>10. b \in BooksSet /\ \A c \in Currency : Holdings(b, c) = Holdings(Books, c)
  BY <1>2, <1>3, <1>6, <1>9, BurntFits
<1>11. BooksOnly(Store, x, b)
  BY <1>7, <1>10, StoreBooks
<1>12. /\ StoreFits(x) /\ x.books = b /\ x.markets = markets /\ x.positions = positions
       /\ x.duels = duels /\ x.threw = threw
  BY <1>2, <1>11 DEF BooksOnly
<1>13. PICK q : q = HeavierBy(o, n)
  OBVIOUS
<1>14. PICK r : r = WeightedBy(markets[m], o.position, n)
  OBVIOUS
<1>15. PICK ps : ps = [positions EXCEPT ![i] = q]
  OBVIOUS
<1>16. PICK new : new = [markets EXCEPT ![m] = r]
  OBVIOUS
<1>17. PICK y : y = WithMarkets(WithPositions(x, ps), new)
  OBVIOUS
<1>18. Boosts(x, y, n, i, m, o, q, r, positions, ps, markets, new)
  BY <1>1, <1>4, <1>12, <1>13, <1>14, <1>15, <1>16, <1>17 DEF Boosts
<1>19. /\ PoolsOnly(x, y, new, ps) /\ OnlyMarket(m, markets, new)
       /\ new[m].status = markets[m].status /\ new[m].poolAmount = markets[m].poolAmount
       /\ \A c \in Currency : Moves(x, y, c, 0)
  <2>1. markets[m].status # "RESOLVED"
    BY <1>8 DEF AcceptsEntries
  <2>2. BoostMade(x, y, m, ps, markets, new)
    BY <1>2, <1>8, <1>9, <1>12, <1>18, <2>1, PositionBoosted
  <2> QED
    BY <2>2 DEF BoostMade
<1>20. StoreFits(y) /\ y.markets = new /\ y.duels = duels /\ y.threw = threw
  BY <1>12, <1>19 DEF PoolsOnly
<1>21. Store' = y /\ pastCutoff' = pastCutoff
  <2>1. y \in StoreSet /\ SetStore(y)
    BY <1>8, <1>18, <1>20, BoostIs DEF StoreFits
  <2> QED
    BY <2>1, StoreBecomes
<1>22. ASSUME NEW c \in Currency PROVE Moves(Store, y, c, 0)
  <2>1. Holdings(Books, c) \in Int
    BY <1>2, HoldingsInt
  <2>2. 0 \in Int /\ Holdings(b, c) = Holdings(Store.books, c) + 0
    BY <1>2, <1>10, <2>1
  <2>3. Moves(Store, x, c, 0)
    BY <1>10, <1>11, <2>2, BooksMove
  <2>4. Moves(x, y, c, 0)
    BY <1>19
  <2>5. Total(Store, c) \in Int
    BY TotalInt
  <2> QED
    BY <2>3, <2>4, <2>5 DEF Moves
<1>23. SameEnds(markets, new)
  BY <1>19 DEF SameEnds, OnlyMarket
<1>24. ASSUME NEW k \in Markets PROVE Untouched(Store, y, k)
  <2>1. new[k].poolAmount = markets[k].poolAmount
    BY <1>19 DEF OnlyMarket
  <2> QED
    BY <1>2, <1>20, <2>1 DEF Untouched
<1>25. StoreSteps(Store, y)
  BY <1>2, <1>20, <1>22, <1>23, <1>24 DEF StoreSteps
<1> QED
  BY <1>21, <1>25

\* A market read after its cutoff, and the clock that passes it.
LEMMA ReconcileSteps ==
  ASSUME StoreFits(Store), NEW m \in Markets, reconcileMarketStatus(m)
  PROVE  StoreSteps(Store, Store') /\ pastCutoff' = pastCutoff
<1>1. cutOffMarket(m)
  BY DEF reconcileMarketStatus
<1> QED
  BY <1>1, CutOffSteps

LEMMA ClockSteps ==
  ASSUME StoreFits(Store), NEW m \in Markets, CutoffPasses(m)
  PROVE  StoreSteps(Store, Store')
<1>1. Store' = Store
  BY DEF CutoffPasses, bookVars, Store, Books
<1> QED
  BY <1>1, StoreStays

-----------------------------------------------------------------------------
(* Trades                                                                    *)

\* What any step does to the money of the store: it may lose nothing, and gain
\* what the orders it closed may have kept.
MoneyKept(x, y) ==
  \A c \in Currency :
    /\ Total(x, c) <= Total(y, c)
    /\ Total(y, c) - OrdersSlack(y.orders, c) <= Total(x, c) - OrdersSlack(x.orders, c)

LEMMA TradeSteps ==
  ASSUME StoreFits(Store), Trade
  PROVE  /\ StoreFits(Store') /\ (threw' \/ MoneyKept(Store, Store')) /\ (threw => threw')
         /\ markets' = markets /\ positions' = positions /\ duels' = duels
         /\ pastCutoff' = pastCutoff
<1>1. /\ BookNext /\ markets' = markets /\ positions' = positions /\ duels' = duels
      /\ pastCutoff' = pastCutoff
  BY DEF Trade, marketVars
<1>2. /\ Store \in StoreSet /\ Store.orders = orders /\ Store.books = Books /\ Store.threw = threw
      /\ Store.markets = markets /\ Store.positions = positions /\ Store.duels = duels
      /\ Books \in BooksSet /\ orders \in Seq(Order) /\ trades \in Seq(TradeRecord)
      /\ threw \in BOOLEAN /\ markets \in [Markets -> MarketRecord]
      /\ positions \in Seq(PositionRecord) /\ duels \in Seq(DuelRecord)
  BY StoreIs
<1>3. /\ Exchange.books = Books /\ Exchange.orders = orders /\ Exchange.trades = trades
      /\ Exchange.threw = threw
  BY DEF Exchange
<1>4. BookFits(Exchange)
  <2>1. Exchange \in ExchangeSet
    BY <1>2 DEF Exchange, ExchangeSet
  <2>2. threw \/ (Uncrossed(orders) /\ \A j \in DOMAIN orders : ~Overspent(orders[j]))
    BY <1>2 DEF StoreFits
  <2> QED
    BY <1>3, <2>1, <2>2 DEF BookFits
<1>5. BookMoves(Exchange, Exchange')
  BY <1>1, <1>4, BookSteps
<1>6. /\ Exchange'.books = Books' /\ Exchange'.orders = orders' /\ Exchange'.trades = trades'
      /\ Exchange'.threw = threw'
  BY DEF Exchange
<1>7. /\ Books' \in BooksSet /\ orders' \in Seq(Order) /\ trades' \in Seq(TradeRecord)
      /\ threw' \in BOOLEAN
  <2>1. Exchange' \in ExchangeSet
    BY <1>5 DEF BookMoves, BookFits
  <2> QED
    BY <1>6, <2>1 DEF ExchangeSet
<1>8. /\ threw' \/ (Uncrossed(orders') /\ \A j \in DOMAIN orders' : ~Overspent(orders'[j]))
      /\ KeepsLocks(Exchange, Exchange') /\ (threw' \/ Balances(Exchange, Exchange'))
  BY <1>5, <1>6 DEF BookMoves, BookFits
<1>9. /\ Store'.books = Books' /\ Store'.orders = orders' /\ Store'.trades = trades'
      /\ Store'.threw = threw' /\ Store'.markets = markets /\ Store'.positions = positions
      /\ Store'.duels = duels
      /\ Store' = [books |-> Books', orders |-> orders', trades |-> trades', threw |-> threw',
                   markets |-> markets, positions |-> positions, duels |-> duels]
  BY <1>1 DEF Store
<1>10. Store' \in StoreSet
  <2>1. [books |-> Books', orders |-> orders', trades |-> trades', threw |-> threw',
         markets |-> markets, positions |-> positions, duels |-> duels] \in StoreSet
    BY <1>2, <1>7, StoreMade
  <2> QED
    BY <1>9, <2>1
<1>11. /\ LocksFit(markets, orders) /\ DuelsFit(markets, duels)
       /\ PoolsFit(markets, positions) /\ ClaimsFit(markets, positions)
  BY <1>2 DEF StoreFits
<1>12. LocksFit(markets, orders')
  <2>1. ASSUME NEW j \in DOMAIN orders', orders'[j].pair # Pair
        PROVE  orders'[j].lockedCurrency = markets[orders'[j].pair].currency
    <3>1. j \in DOMAIN orders /\ SameOrder(orders[j], orders'[j])
      BY <1>3, <1>6, <1>8, <2>1 DEF KeepsLocks
    <3>2. /\ orders'[j].pair = orders[j].pair
          /\ orders'[j].lockedCurrency = orders[j].lockedCurrency
      BY <3>1 DEF SameOrder
    <3> QED
      BY <1>11, <2>1, <3>1, <3>2 DEF LocksFit
  <2> QED
    BY <2>1 DEF LocksFit
<1>13. StoreFits(Store')
  BY <1>8, <1>9, <1>10, <1>11, <1>12 DEF StoreFits
<1>15. threw => threw'
  BY <1>3, <1>5, <1>6 DEF BookMoves
<1>14. ASSUME Balances(Exchange, Exchange') PROVE MoneyKept(Store, Store')
  <2>1. ASSUME NEW c \in Currency
        PROVE  /\ Total(Store, c) <= Total(Store', c)
               /\ Total(Store', c) - OrdersSlack(Store'.orders, c)
                    <= Total(Store, c) - OrdersSlack(Store.orders, c)
    <3>1. PICK h : h = Holdings(Books, c) + OrdersHold(orders, c)
      OBVIOUS
    <3>2. PICK g : g = Holdings(Books', c) + OrdersHold(orders', c)
      OBVIOUS
    <3>3. PICK p : p = PoolsHold(markets, c) + DuelsHold(markets, duels, c)
      OBVIOUS
    <3>4. PICK k : k = ClaimsTook(markets, positions, c)
      OBVIOUS
    <3>5. /\ Holdings(Books, c) \in Int /\ OrdersHold(orders, c) \in Int
          /\ PoolsHold(markets, c) \in Int /\ DuelsHold(markets, duels, c) \in Int
          /\ k \in Int /\ OrdersSlack(orders, c) \in Nat
          /\ Holdings(Books', c) \in Int /\ OrdersHold(orders', c) \in Int
          /\ OrdersSlack(orders', c) \in Nat
      <4>1. /\ Holdings(Books, c) \in Int /\ OrdersHold(orders, c) \in Int
            /\ PoolsHold(markets, c) \in Int /\ DuelsHold(markets, duels, c) \in Int
            /\ k \in Int /\ OrdersSlack(orders, c) \in Nat
        BY <1>2, <3>4, TotalInt
      <4>2. /\ Holdings(Books', c) \in Int /\ OrdersHold(orders', c) \in Int
            /\ OrdersSlack(orders', c) \in Nat
        BY <1>7, HoldingsInt, OrdersHoldInt
      <4> QED
        BY <4>1, <4>2
    <3>6. Total(Store, c) = h + p - k
      <4>1. Total(Store, c) = Holdings(Store.books, c) + OrdersHold(Store.orders, c)
               + PoolsHold(Store.markets, c) + DuelsHold(Store.markets, Store.duels, c)
               - ClaimsTook(Store.markets, Store.positions, c)
        BY TotalIs
      <4> QED
        BY <1>2, <3>1, <3>3, <3>4, <3>5, <4>1
    <3>7. Total(Store', c) = g + p - k
      <4>1. PICK y : y = Store'
        OBVIOUS
      <4>2. Total(y, c) = Holdings(y.books, c) + OrdersHold(y.orders, c)
               + PoolsHold(y.markets, c) + DuelsHold(y.markets, y.duels, c)
               - ClaimsTook(y.markets, y.positions, c)
        BY TotalIs
      <4> QED
        BY <1>9, <3>2, <3>3, <3>4, <3>5, <4>1, <4>2
    <3>8. Holds(Exchange, c) = h /\ Holds(Exchange', c) = g
      BY <1>3, <1>6, <3>1, <3>2 DEF Holds
    <3>9. h <= g /\ g - OrdersSlack(orders', c) <= h - OrdersSlack(orders, c)
      BY <1>3, <1>6, <1>14, <3>8 DEF Balances
    <3>10. h \in Int /\ g \in Int /\ p \in Int /\ k \in Int
      BY <3>1, <3>2, <3>3, <3>5
    <3>11. h + p - k <= g + p - k
           /\ g + p - k - OrdersSlack(orders', c) <= h + p - k - OrdersSlack(orders, c)
      BY <3>5, <3>9, <3>10
    <3>12. OrdersSlack(Store.orders, c) = OrdersSlack(orders, c)
      BY <1>2
    <3>13. OrdersSlack(Store'.orders, c) = OrdersSlack(orders', c)
      BY <1>9
    <3>14. Total(Store, c) <= Total(Store', c)
      BY <3>6, <3>7, <3>11
    <3>15. Total(Store', c) - OrdersSlack(orders', c) <= Total(Store, c) - OrdersSlack(orders, c)
      <4>1. PICK t : t = Total(Store', c)
        OBVIOUS
      <4>2. PICK u : u = Total(Store, c)
        OBVIOUS
      <4>3. t = g + p - k /\ u = h + p - k
        BY <3>6, <3>7, <4>1, <4>2
      <4>4. t - OrdersSlack(orders', c) <= u - OrdersSlack(orders, c)
        BY <3>5, <3>9, <3>10, <4>3
      <4> QED
        BY <4>1, <4>2, <4>4
    <3> QED
      BY <3>12, <3>13, <3>14, <3>15
  <2> QED
    BY <2>1 DEF MoneyKept
<1> QED
  BY <1>1, <1>8, <1>13, <1>14, <1>15

-----------------------------------------------------------------------------
(* The LYNX that a resolved SOL market mints                                 *)

\* LYNX given to every wallet, on its balance.
LynxGiven(b, given) ==
  [w \in Wallets |-> [b.wallets[w] EXCEPT !.balance["LYNX"] = @ + given[w]]]

LEMMA LynxGivenFits ==
  ASSUME NEW b \in BooksSet, NEW given \in [Wallets -> Int],
         NEW W, W = LynxGiven(b, given), NEW a, a = [b EXCEPT !.wallets = W]
  PROVE  /\ W \in [Wallets -> Wallet] /\ a \in BooksSet /\ a.treasury = b.treasury /\ a.wallets = W
         /\ \A c \in Currency :
              Holdings(a, c) = Holdings(b, c)
                + (IF c = "LYNX" THEN SumFunctionOnSet(given, Wallets) ELSE 0)
<1> DEFINE raise == [c \in Currency |-> [w \in Wallets |-> IF c = "LYNX" THEN given[w] ELSE 0]]
<1>1. ASSUME NEW w \in Wallets
      PROVE  /\ W[w] \in Wallet /\ W[w].staked = b.wallets[w].staked
             /\ W[w].rewards = b.wallets[w].rewards
             /\ \A c \in Currency :
                  W[w].balance[c] = b.wallets[w].balance[c] + (IF c = "LYNX" THEN given[w] ELSE 0)
  <2>1. PICK u : u = b.wallets[w]
    OBVIOUS
  <2>2. PICK g \in Int : g = given[w]
    OBVIOUS
  <2>3. PICK v : v = [u EXCEPT !.balance["LYNX"] = @ + g]
    OBVIOUS
  <2>4. W[w] = v
    BY <2>1, <2>2, <2>3 DEF LynxGiven
  <2>5. u \in Wallet
    BY <2>1 DEF BooksSet
  <2>6. /\ v \in Wallet /\ v.staked = u.staked /\ v.rewards = u.rewards
        /\ \A c \in Currency : v.balance[c] = u.balance[c] + (IF c = "LYNX" THEN g ELSE 0)
    BY <2>3, <2>5 DEF Wallet, Currency
  <2> QED
    BY <2>1, <2>2, <2>4, <2>6
<1>2. W \in [Wallets -> Wallet]
  BY <1>1 DEF LynxGiven
<1>3. raise \in [Currency -> [Wallets -> Int]]
  OBVIOUS
<1>4. ASSUME NEW w \in Wallets, NEW c \in Currency
      PROVE  W[w].balance[c] + W[w].rewards[c] + (IF c = "LYNX" THEN W[w].staked ELSE 0)
               = WalletHolds(b, w, c) + raise[c][w]
  <2>1. /\ b.wallets[w].balance[c] \in Int /\ b.wallets[w].rewards[c] \in Int
        /\ b.wallets[w].staked \in Int /\ given[w] \in Int
    BY DEF BooksSet, Wallet
  <2>2. raise[c][w] = IF c = "LYNX" THEN given[w] ELSE 0
    OBVIOUS
  <2>3. /\ W[w].balance[c] = b.wallets[w].balance[c] + (IF c = "LYNX" THEN given[w] ELSE 0)
        /\ W[w].rewards = b.wallets[w].rewards /\ W[w].staked = b.wallets[w].staked
    BY <1>1
  <2> HIDE DEF raise
  <2> QED
    BY <2>1, <2>2, <2>3 DEF WalletHolds
<1>5. ASSUME NEW c \in Currency
      PROVE  SumFunctionOnSet(raise[c], Wallets)
               = IF c = "LYNX" THEN SumFunctionOnSet(given, Wallets) ELSE 0
  <2>1. CASE c = "LYNX"
    <3>1. \A w \in Wallets : raise[c][w] = given[w]
      BY <2>1
    <3> HIDE DEF raise
    <3>2. SumFunctionOnSet(raise[c], Wallets) = SumFunctionOnSet(given, Wallets)
      BY <3>1, WalletsFinite, SumSame
    <3> QED
      BY <2>1, <3>2
  <2>2. CASE c # "LYNX"
    <3>1. \A w \in Wallets : raise[c][w] = 0
      BY <2>2
    <3> HIDE DEF raise
    <3> QED
      BY <2>2, <3>1, WalletsFinite, SumZero
  <2> QED
    BY <2>1, <2>2
<1> HIDE DEF raise
<1>6. /\ a \in BooksSet /\ a.treasury = b.treasury
      /\ \A c \in Currency : Holdings(a, c) = Holdings(b, c) + SumFunctionOnSet(raise[c], Wallets)
  BY <1>2, <1>3, <1>4, WalletsRaised
<1>7. a.wallets = W
  BY DEF BooksSet
<1> QED
  BY <1>2, <1>5, <1>6, <1>7

\* The treasury's part of what a pool mints, and the count of what is minted.
TreasuryMints(t, emission, part, sale) ==
  [t EXCEPT !.lynxTotalMinted = @ + emission, !.LYNX = @ + part, !.lynxForInitialSale = @ + sale]

LEMMA TreasuryMintsFit ==
  ASSUME NEW b \in BooksSet, NEW emission \in Nat, NEW part \in Nat, NEW sale \in Nat,
         NEW t, t = TreasuryMints(b.treasury, emission, part, sale),
         NEW a, a = [b EXCEPT !.treasury = t]
  PROVE  /\ a \in BooksSet /\ a.wallets = b.wallets /\ a.treasury = t
         /\ \A c \in Currency :
              Holdings(a, c) = Holdings(b, c) + (IF c = "LYNX" THEN part - emission ELSE 0)
<1>1. PICK old : old = b.treasury
  OBVIOUS
<1>2. old \in Treasury
  BY <1>1 DEF BooksSet
<1>3. /\ t \in Treasury /\ t.lynxBurned = old.lynxBurned
      /\ t.lynxTotalMinted = old.lynxTotalMinted + emission
      /\ \A d \in Currency : t[d] = old[d] + (IF d = "LYNX" THEN part ELSE 0)
  <2>1. /\ old.SOL \in Int /\ old.LYNX \in Int /\ old.lynxForInitialSale \in Int
        /\ old.lynxBurned \in Int /\ old.lynxTotalMinted \in Int /\ old.protocolDuelSol \in Int
        /\ old = [SOL |-> old.SOL, LYNX |-> old.LYNX, lynxForInitialSale |-> old.lynxForInitialSale,
                  lynxBurned |-> old.lynxBurned, lynxTotalMinted |-> old.lynxTotalMinted,
                  protocolDuelSol |-> old.protocolDuelSol]
    BY <1>2 DEF Treasury
  <2>2. PICK v1 : v1 = old.SOL
    OBVIOUS
  <2>3. PICK v2 : v2 = old.LYNX
    OBVIOUS
  <2>4. PICK v3 : v3 = old.lynxForInitialSale
    OBVIOUS
  <2>5. PICK v4 : v4 = old.lynxBurned
    OBVIOUS
  <2>6. PICK v5 : v5 = old.lynxTotalMinted
    OBVIOUS
  <2>7. PICK v6 : v6 = old.protocolDuelSol
    OBVIOUS
  <2>8. old = [SOL |-> v1, LYNX |-> v2, lynxForInitialSale |-> v3,
               lynxBurned |-> v4, lynxTotalMinted |-> v5, protocolDuelSol |-> v6]
    BY <2>1, <2>2, <2>3, <2>4, <2>5, <2>6, <2>7
  <2>9. t = [SOL |-> v1, LYNX |-> v2 + part, lynxForInitialSale |-> v3 + sale,
             lynxBurned |-> v4, lynxTotalMinted |-> v5 + emission, protocolDuelSol |-> v6]
    <3>1. PICK q : q = [SOL |-> v1, LYNX |-> v2, lynxForInitialSale |-> v3,
                        lynxBurned |-> v4, lynxTotalMinted |-> v5, protocolDuelSol |-> v6]
      OBVIOUS
    <3>2. t = TreasuryMints(q, emission, part, sale)
      BY <1>1, <2>8, <3>1
    <3>3. t = [q EXCEPT !.lynxTotalMinted = v5 + emission, !.LYNX = v2 + part,
                        !.lynxForInitialSale = v3 + sale]
      BY <3>1, <3>2 DEF TreasuryMints
    <3> QED
      BY <3>1, <3>3
  <2>10. /\ v1 \in Int /\ v2 \in Int /\ v3 \in Int /\ v4 \in Int /\ v5 \in Int /\ v6 \in Int
         /\ v2 + part \in Int /\ v3 + sale \in Int /\ v5 + emission \in Int
    BY <2>1, <2>2, <2>3, <2>4, <2>5, <2>6, <2>7
  <2>11. t \in Treasury
    BY <2>9, <2>10 DEF Treasury
  <2>12. ASSUME NEW d \in Currency PROVE t[d] = old[d] + (IF d = "LYNX" THEN part ELSE 0)
    BY <2>8, <2>9, <2>10 DEF Currency
  <2> QED
    BY <2>8, <2>9, <2>11, <2>12
<1>4. a.treasury = t /\ a.wallets = b.wallets
  BY DEF BooksSet
<1>5. /\ a \in BooksSet
      /\ \A d \in Currency :
           Holdings(a, d) = Holdings(b, d) + t[d] - b.treasury[d]
             - (IF d = "LYNX" THEN getCirculatingSupply(a) - getCirculatingSupply(b) ELSE 0)
  BY <1>3, TreasuryFits
<1>6. getCirculatingSupply(a) = getCirculatingSupply(b) + emission
  <2>1. old.lynxBurned \in Int /\ old.lynxTotalMinted \in Int
    BY <1>2 DEF Treasury
  <2> QED
    BY <1>1, <1>3, <1>4, <2>1 DEF getCirculatingSupply
<1>7. ASSUME NEW d \in Currency
      PROVE  Holdings(a, d) = Holdings(b, d) + (IF d = "LYNX" THEN part - emission ELSE 0)
  <2>1. Holdings(b, d) \in Int /\ b.treasury[d] \in Int /\ getCirculatingSupply(b) \in Int
    BY HoldingsInt
  <2>2. t[d] = b.treasury[d] + (IF d = "LYNX" THEN part ELSE 0)
    BY <1>1, <1>3
  <2>3. PICK k : k = Holdings(b, d)
    OBVIOUS
  <2>4. PICK h : h = b.treasury[d]
    OBVIOUS
  <2>5. PICK s : s = getCirculatingSupply(b)
    OBVIOUS
  <2>6. Holdings(a, d) = k + (h + (IF d = "LYNX" THEN part ELSE 0)) - h
                         - (IF d = "LYNX" THEN (s + emission) - s ELSE 0)
    BY <1>5, <1>6, <2>2, <2>3, <2>4, <2>5
  <2>7. k \in Int /\ h \in Int /\ s \in Int
    BY <2>1, <2>3, <2>4, <2>5
  <2> QED
    BY <2>3, <2>6, <2>7
<1> QED
  BY <1>4, <1>5, <1>7

\* The sale order: it locks nothing and nobody is matched with it.
SaleOrder(sale) ==
  NewOrder(TREASURY_WALLET, "SELL", sale, PriceUnit, [c |-> "LYNX", amount |-> NoLock])

SaleIs(sale, o) ==
  /\ o \in Order /\ Aside(o) /\ o.pair = Pair
  /\ \A c \in Currency : OrderHolds(o, c) = (IF c = "LYNX" THEN sale ELSE 0) /\ OrderSlack(o, c) = 0

LEMMA SaleFits ==
  ASSUME NEW sale \in Nat \ {0}, NEW o, o = SaleOrder(sale)
  PROVE  SaleIs(sale, o)
<1>1. o = [pair |-> Pair, owner |-> TREASURY_WALLET, side |-> "SELL", position |-> "NONE",
           amount |-> sale, remaining |-> sale, price |-> PriceUnit, status |-> "OPEN",
           lockedCurrency |-> "LYNX", locked |-> NoLock, spent |-> 0]
  BY DEF SaleOrder, NewOrder
<1>2. TREASURY_WALLET \in Wallets /\ PriceUnit \in Nat /\ "LYNX" \in Currency
  BY LedgerAssumption DEF Wallets, Currency
<1>3. o \in OrderRecord
  BY <1>1, <1>2 DEF OrderRecord, Resting
<1>4. OrderFits(o)
  BY <1>1 DEF OrderFits, Resting
<1>5. Aside(o) /\ o.pair = Pair
  BY <1>1 DEF Aside
<1>6. ASSUME NEW c \in Currency
      PROVE  OrderHolds(o, c) = (IF c = "LYNX" THEN sale ELSE 0) /\ OrderSlack(o, c) = 0
  BY <1>1 DEF OrderHolds, OrderSlack, Closed
<1> QED
  BY <1>3, <1>4, <1>5, <1>6 DEF SaleIs, Order

PutUpForSale(os, sale) == IF sale > 0 THEN Append(os, SaleOrder(sale)) ELSE os

PutUpIs(ms, os, new, sale) ==
  /\ new \in Seq(Order) /\ LocksFit(ms, new) /\ (BookCalm(os) => BookCalm(new))
  /\ \A c \in Currency :
       /\ OrdersHold(new, c) = OrdersHold(os, c) + (IF c = "LYNX" THEN sale ELSE 0)
       /\ OrdersSlack(new, c) = OrdersSlack(os, c)

LEMMA PutUpFits ==
  ASSUME NEW ms, NEW os, NEW new, NEW sale, os \in Seq(Order), LocksFit(ms, os), sale \in Nat,
         new = PutUpForSale(os, sale)
  PROVE  PutUpIs(ms, os, new, sale)
<1>1. CASE sale = 0
  <2>1. new = os
    BY <1>1 DEF PutUpForSale
  <2>2. \A c \in Currency : OrdersHold(os, c) \in Int
    BY OrdersHoldInt
  <2> QED
    BY <1>1, <2>1, <2>2 DEF PutUpIs
<1>2. CASE sale # 0
  <2>1. PICK o : o = SaleOrder(sale)
    OBVIOUS
  <2>2. new = Append(os, o)
    BY <1>2, <2>1 DEF PutUpForSale
  <2>3. SaleIs(sale, o)
    BY <1>2, <2>1, SaleFits
  <2>4. PICK n : n = Len(os) + 1
    OBVIOUS
  <2>5. o \in Order /\ Aside(o) /\ o.pair = Pair
    BY <2>3 DEF SaleIs
  <2>6. /\ new \in Seq(Order) /\ DOMAIN new = DOMAIN os \cup {n}
        /\ new[n] = o /\ \A j \in DOMAIN os : new[j] = os[j]
    BY <2>2, <2>4, <2>5, OrderAppendedTypes
  <2>7. LocksFit(ms, new)
    BY <2>5, <2>6 DEF LocksFit
  <2>8. BookCalm(os) => BookCalm(new)
    BY <2>2, <2>5, CalmAppended
  <2>9. ASSUME NEW c \in Currency
        PROVE  /\ OrdersHold(new, c) = OrdersHold(os, c) + (IF c = "LYNX" THEN sale ELSE 0)
               /\ OrdersSlack(new, c) = OrdersSlack(os, c)
    <3>1. OrderHolds(o, c) = (IF c = "LYNX" THEN sale ELSE 0) /\ OrderSlack(o, c) = 0
      BY <2>3 DEF SaleIs
    <3>2. /\ OrdersHold(new, c) = OrdersHold(os, c) + OrderHolds(o, c)
          /\ OrdersSlack(new, c) = OrdersSlack(os, c) + OrderSlack(o, c)
      BY <2>2, <2>4, <2>5, HoldsAppended
    <3>3. OrdersSlack(os, c) \in Nat
      BY OrdersHoldInt
    <3> QED
      BY <3>1, <3>2, <3>3
  <2> QED
    BY <2>6, <2>7, <2>8, <2>9 DEF PutUpIs
<1> QED
  BY <1>1, <1>2

SharedOut(S, f, own, given) ==
  given = [w \in Wallets |-> SumFunctionOnSet(f, {k \in S : own[k] = w})]

LEMMA SumGiven ==
  ASSUME NEW S, IsFiniteSet(S), NEW f, NEW own, \A k \in S : f[k] \in Int /\ own[k] \in Wallets,
         NEW given, SharedOut(S, f, own, given)
  PROVE  given \in [Wallets -> Int] /\ SumFunctionOnSet(given, Wallets) = SumFunctionOnSet(f, S)
<1> DEFINE Of(w) == SumFunctionOnSet(f, {k \in S : own[k] = w})
<1>1. /\ \A w \in Wallets : Of(w) \in Int
      /\ SumFunctionOnSet([w \in Wallets |-> Of(w)], Wallets) = SumFunctionOnSet(f, S)
  <2>1. IsFiniteSet(Wallets)
    BY WalletsFinite
  <2>2. \A k \in S : own[k] \in Wallets
    OBVIOUS
  <2>3. \A k \in S : f[k] \in Int
    OBVIOUS
  <2> QED
    BY <2>1, <2>2, <2>3, SumByOwner
<1>2. given = [w \in Wallets |-> Of(w)]
  BY DEF SharedOut
<1> HIDE DEF Of
<1> QED
  BY <1>1, <1>2

\* The shares of the positions of a market, by wallet.
Gives(ps, m, cake, held, shares, given) ==
  /\ held = {i \in DOMAIN ps : ps[i].market = m} /\ held # {}
  /\ shares = SharesOf(cake, held, [i \in held |-> ps[i].amount])
  /\ given = [w \in Wallets |-> SumFunctionOnSet(shares, {i \in held : ps[i].wallet = w})]

LEMMA SharesGiven ==
  ASSUME NEW m, NEW held, NEW shares, NEW given, NEW ps \in Seq(PositionRecord), NEW cake \in Nat,
         Gives(ps, m, cake, held, shares, given)
  PROVE  given \in [Wallets -> Int] /\ SumFunctionOnSet(given, Wallets) = cake
<1>1. /\ IsFiniteSet(DOMAIN ps) /\ DOMAIN ps \subseteq Nat
      /\ \A i \in DOMAIN ps : ps[i] \in PositionRecord
  BY OrdersFinite
<1>2. IsFiniteSet(held) /\ held \subseteq Nat /\ held # {} /\ held \subseteq DOMAIN ps
  BY <1>1, FS_Subset DEF Gives
<1>3. PICK parts : parts = [i \in held |-> ps[i].amount]
  OBVIOUS
<1>4. \A i \in held : parts[i] \in Nat \ {0}
  BY <1>1, <1>2, <1>3, PositionTypes
<1>5. PICK own : own = [i \in held |-> ps[i].wallet]
  OBVIOUS
<1>6. \A i \in held : own[i] \in Wallets
  BY <1>1, <1>2, <1>5, PositionTypes
<1>7. (\A i \in held : shares[i] \in Int) /\ SumFunctionOnSet(shares, held) = cake
  <2>1. shares = SharesOf(cake, held, parts)
    BY <1>3 DEF Gives
  <2> QED
    BY <1>2, <1>4, <2>1, SharesAddUp
<1>8. SharedOut(held, shares, own, given)
  <2>1. \A w \in Wallets : {i \in held : ps[i].wallet = w} = {i \in held : own[i] = w}
    BY <1>5
  <2> QED
    BY <2>1 DEF Gives, SharedOut
<1>9. IsFiniteSet(held) /\ \A i \in held : shares[i] \in Int /\ own[i] \in Wallets
  BY <1>2, <1>6, <1>7
<1>10. given \in [Wallets -> Int] /\ SumFunctionOnSet(given, Wallets) = SumFunctionOnSet(shares, held)
  BY <1>8, <1>9, SumGiven
<1> QED
  BY <1>7, <1>10

\* Everything but the books and the orders is the same.
MoneyOnly(x, y) ==
  /\ StoreFits(y) /\ y.threw = x.threw /\ y.markets = x.markets
  /\ y.positions = x.positions /\ y.duels = x.duels

\* Half a unit for each of three roundings.
Slight(n) == n \in Int /\ 0 - 3 <= 2 * n /\ 2 * n <= 3

MintSlips(x, y, m) ==
  \A c \in Currency :
    \E n \in Int : Moves(x, y, c, n) /\ Slight(n) /\ (c = x.markets[m].currency => n = 0)

\* The three parts of an emission are the emission, but for their roundings.
LEMMA PartsSlight ==
  ASSUME NEW e \in Nat
  PROVE  /\ Percent(e, 30) \in Nat /\ Percent(e, 10) \in Nat /\ Percent(e, 60) \in Nat
         /\ Slight(Percent(e, 30) + Percent(e, 10) + Percent(e, 60) - e)
<1>1. PICK p : p = Percent(e, 30)
  OBVIOUS
<1>2. PICK q : q = Percent(e, 10)
  OBVIOUS
<1>3. PICK r : r = Percent(e, 60)
  OBVIOUS
<1>4. p \in Nat /\ 200 * p <= 2 * e * 30 + 100 /\ 2 * e * 30 - 100 <= 200 * p
  BY <1>1, PercentFits
<1>5. q \in Nat /\ 200 * q <= 2 * e * 10 + 100 /\ 2 * e * 10 - 100 <= 200 * q
  BY <1>2, PercentFits
<1>6. r \in Nat /\ 200 * r <= 2 * e * 60 + 100 /\ 2 * e * 60 - 100 <= 200 * r
  BY <1>3, PercentFits
<1>7. PICK n \in Int : n = p + q + r - e
  BY <1>4, <1>5, <1>6
<1>8. 0 - 3 <= 2 * n /\ 2 * n <= 3
  BY <1>4, <1>5, <1>6, <1>7
<1> QED
  BY <1>1, <1>2, <1>3, <1>4, <1>5, <1>6, <1>7, <1>8 DEF Slight

\* A pool that is not empty has positions.
LEMMA PoolHasPositions ==
  ASSUME NEW ps \in Seq(PositionRecord), NEW m, PaysIn(ps, m) # 0
  PROVE  {i \in DOMAIN ps : ps[i].market = m} # {}
<1>1. SUFFICES ASSUME \A i \in DOMAIN ps : ps[i].market # m
               PROVE  PaysIn(ps, m) = 0
  OBVIOUS
<1> DEFINE f == [i \in DOMAIN ps |-> PaidIn(ps[i], m)]
<1>2. \A i \in DOMAIN ps : f[i] = 0
  BY <1>1 DEF PaidIn
<1>3. IsFiniteSet(DOMAIN ps)
  BY OrdersFinite
<1>4. PaysIn(ps, m) = SumFunctionOnSet(f, DOMAIN ps)
  BY DEF PaysIn
<1> HIDE DEF f
<1> QED
  BY <1>2, <1>3, <1>4, SumZero

\* The books after a mint.
MintedBooks(b, given, emission, part, sale) ==
  [wallets |-> LynxGiven(b, given), treasury |-> TreasuryMints(b.treasury, emission, part, sale)]

LEMMA MintedBooksFit ==
  ASSUME NEW b \in BooksSet, NEW given \in [Wallets -> Int], NEW emission \in Nat,
         NEW part \in Nat, NEW sale \in Nat,
         NEW d, d = MintedBooks(b, given, emission, part, sale)
  PROVE  /\ d \in BooksSet
         /\ \A c \in Currency :
              Holdings(d, c) = Holdings(b, c)
                + (IF c = "LYNX" THEN SumFunctionOnSet(given, Wallets) + part - emission ELSE 0)
<1>1. PICK W : W = LynxGiven(b, given)
  OBVIOUS
<1>2. PICK a : a = [b EXCEPT !.wallets = W]
  OBVIOUS
<1>3. /\ a \in BooksSet /\ a.treasury = b.treasury /\ a.wallets = W
      /\ \A c \in Currency :
           Holdings(a, c) = Holdings(b, c)
             + (IF c = "LYNX" THEN SumFunctionOnSet(given, Wallets) ELSE 0)
  BY <1>1, <1>2, LynxGivenFits
<1>4. PICK t : t = TreasuryMints(a.treasury, emission, part, sale)
  OBVIOUS
<1>5. PICK z : z = [a EXCEPT !.treasury = t]
  OBVIOUS
<1>6. /\ z \in BooksSet /\ z.wallets = a.wallets /\ z.treasury = t
      /\ \A c \in Currency :
           Holdings(z, c) = Holdings(a, c) + (IF c = "LYNX" THEN part - emission ELSE 0)
  BY <1>3, <1>4, <1>5, TreasuryMintsFit
<1>7. z = [wallets |-> W, treasury |-> t]
  <2>1. z = [wallets |-> z.wallets, treasury |-> z.treasury]
    BY <1>6 DEF BooksSet
  <2> QED
    BY <1>3, <1>6, <2>1
<1>8. d = [wallets |-> W, treasury |-> t]
  BY <1>1, <1>3, <1>4 DEF MintedBooks
<1>9. ASSUME NEW c \in Currency
      PROVE  Holdings(z, c) = Holdings(b, c)
                + (IF c = "LYNX" THEN SumFunctionOnSet(given, Wallets) + part - emission ELSE 0)
  <2>1. PICK g \in Int : g = SumFunctionOnSet(given, Wallets)
    BY WalletsFinite, SumInt
  <2>2. Holdings(b, c) \in Int
    BY HoldingsInt
  <2>3. /\ Holdings(a, c) = Holdings(b, c) + (IF c = "LYNX" THEN g ELSE 0)
        /\ Holdings(z, c) = Holdings(a, c) + (IF c = "LYNX" THEN part - emission ELSE 0)
    BY <1>3, <1>6, <2>1
  <2>4. Holdings(z, c) = Holdings(b, c) + (IF c = "LYNX" THEN g + part - emission ELSE 0)
    BY <2>2, <2>3
  <2> QED
    BY <2>1, <2>4
<1>10. z = d
  BY <1>7, <1>8
<1> QED
  BY <1>6, <1>9, <1>10

\* What the mint makes of a store.
Mints(x, y, emission, given, d, os) ==
  /\ y = [x EXCEPT !.books = d, !.orders = os]
  /\ d = MintedBooks(x.books, given, emission, Percent(emission, 10), Percent(emission, 60))
  /\ os = PutUpForSale(x.orders, Percent(emission, 60))

LEMMA MintIs ==
  ASSUME NEW x, NEW m, NEW y, y = mintLynxForSolvedSolMarket(x, m),
         x.markets[m].currency = "SOL", x.markets[m].poolAmount # 0,
         NEW emission, emission = roundAmount(x.markets[m].poolAmount
                                   * getMintRatio(getCirculatingSupply(x.books)), 1000),
         NEW held, NEW shares, NEW given, Gives(x.positions, m, Percent(emission, 30), held, shares, given)
  PROVE  \E d, os : Mints(x, y, emission, given, d, os)
<1> DEFINE Of(w) == SumFunctionOnSet(shares, {i \in held : x.positions[i].wallet = w})
<1>1. y = [x EXCEPT
              !.books = [wallets |-> [w \in Wallets |->
                           [x.books.wallets[w] EXCEPT !.balance["LYNX"] = @ + Of(w)]],
                         treasury |-> TreasuryMints(x.books.treasury, emission,
                                        Percent(emission, 10), Percent(emission, 60))],
              !.orders = PutUpForSale(x.orders, Percent(emission, 60))]
  BY DEF mintLynxForSolvedSolMarket, TreasuryMints, PutUpForSale, SaleOrder, Gives,
         LYNX_PARTICIPANT_SHARE, LYNX_INITIAL_SALE_SHARE, LYNX_TREASURY_SHARE
<1>2. given = [w \in Wallets |-> Of(w)]
  BY DEF Gives
<1>4. PICK W : W = [w \in Wallets |-> [x.books.wallets[w] EXCEPT !.balance["LYNX"] = @ + Of(w)]]
  OBVIOUS
<1>5. PICK T : T = TreasuryMints(x.books.treasury, emission, Percent(emission, 10), Percent(emission, 60))
  OBVIOUS
<1>6. PICK os : os = PutUpForSale(x.orders, Percent(emission, 60))
  OBVIOUS
<1>7. y = [x EXCEPT !.books = [wallets |-> W, treasury |-> T], !.orders = os]
  BY <1>1, <1>4, <1>5, <1>6
<1> HIDE DEF Of
<1>3. W = LynxGiven(x.books, given)
  <2>1. \A w \in Wallets : given[w] = Of(w)
    BY <1>2
  <2> QED
    BY <1>4, <2>1 DEF LynxGiven
<1>8. MintedBooks(x.books, given, emission, Percent(emission, 10), Percent(emission, 60))
        = [wallets |-> W, treasury |-> T]
  BY <1>3, <1>5 DEF MintedBooks
<1>9. PICK d : d = [wallets |-> W, treasury |-> T]
  OBVIOUS
<1>10. y = [x EXCEPT !.books = d, !.orders = os]
  BY <1>7, <1>9
<1>11. MintedBooks(x.books, given, emission, Percent(emission, 10), Percent(emission, 60)) = d
  BY <1>8, <1>9
<1>12. d = MintedBooks(x.books, given, emission, Percent(emission, 10), Percent(emission, 60))
  BY <1>11
<1>13. Mints(x, y, emission, given, d, os)
  BY <1>6, <1>10, <1>12 DEF Mints
<1> QED
  BY <1>13

LEMMA MintFits ==
  ASSUME NEW x, NEW m, NEW y, StoreFits(x), m \in Markets, y = mintLynxForSolvedSolMarket(x, m)
  PROVE  MoneyOnly(x, y) /\ MintSlips(x, y, m)
<1>1. /\ x \in StoreSet /\ x.books \in BooksSet /\ x.orders \in Seq(Order)
      /\ x.positions \in Seq(PositionRecord) /\ x.markets \in [Markets -> MarketRecord]
      /\ x.threw \in BOOLEAN
  BY StoreTypes DEF StoreFits
<1>2. PICK market : market = x.markets[m]
  OBVIOUS
<1>3. market \in MarketRecord /\ market.poolAmount \in Nat /\ market.currency \in Currency
  <2>1. market \in MarketRecord
    BY <1>1, <1>2
  <2> QED
    BY <2>1, MarketTypes
<1>4. CASE market.currency # "SOL" \/ market.poolAmount = 0
  <2>1. y = x
    BY <1>2, <1>4 DEF mintLynxForSolvedSolMarket
  <2>2. MoneyOnly(x, y)
    BY <2>1 DEF MoneyOnly
  <2>3. ASSUME NEW c \in Currency
        PROVE  Moves(x, y, c, 0) /\ Slight(0)
    <3>1. Total(x, c) \in Int
      BY TotalInt
    <3> QED
      BY <2>1, <3>1 DEF Moves, Slight
  <2>4. 0 \in Int
    OBVIOUS
  <2> QED
    BY <2>2, <2>3, <2>4 DEF MintSlips
<1>5. CASE market.currency = "SOL" /\ market.poolAmount # 0
  <2>1. PICK supply : supply = getCirculatingSupply(x.books)
    OBVIOUS
  <2>2. PICK ratio : ratio = getMintRatio(supply)
    OBVIOUS
  <2>3. ratio \in Nat
    <3>1. "LYNX" \in Currency
      BY DEF Currency
    <3>2. supply \in Int
      BY <1>1, <2>1, <3>1, HoldingsInt
    <3> QED
      BY <2>2, <3>2, MintRatioNat
  <2>4. PICK e : e = roundAmount(market.poolAmount * ratio, 1000)
    OBVIOUS
  <2>5. e \in Nat
    <3>1. PICK pool \in Nat : pool = market.poolAmount
      BY <1>3
    <3>2. pool * ratio \in Nat /\ 1000 \in Nat \ {0}
      BY <2>3
    <3>3. roundAmount(pool * ratio, 1000) \in Nat
      BY <3>2, RoundFits
    <3> QED
      BY <2>4, <3>1, <3>3
  <2>6. PICK cake : cake = Percent(e, 30)
    OBVIOUS
  <2>7. PICK part : part = Percent(e, 10)
    OBVIOUS
  <2>8. PICK sale : sale = Percent(e, 60)
    OBVIOUS
  <2>9. cake \in Nat /\ part \in Nat /\ sale \in Nat /\ Slight(cake + part + sale - e)
    BY <2>5, <2>6, <2>7, <2>8, PartsSlight
  <2>10. PICK ps : ps = x.positions
    OBVIOUS
  <2>11. PICK held : held = {i \in DOMAIN ps : ps[i].market = m}
    OBVIOUS
  <2>12. held # {}
    <3>1. PaysIn(ps, m) # 0
      BY <1>2, <1>5, <2>10 DEF StoreFits, PoolsFit
    <3> QED
      BY <1>1, <2>10, <2>11, <3>1, PoolHasPositions
  <2>13. PICK shares : shares = SharesOf(cake, held, [i \in held |-> ps[i].amount])
    OBVIOUS
  <2>14. PICK given : given = [w \in Wallets |->
                                SumFunctionOnSet(shares, {i \in held : ps[i].wallet = w})]
    OBVIOUS
  <2>15. Gives(ps, m, cake, held, shares, given)
    BY <2>11, <2>12, <2>13, <2>14 DEF Gives
  <2>16. given \in [Wallets -> Int] /\ SumFunctionOnSet(given, Wallets) = cake
    <3>1. ps \in Seq(PositionRecord)
      BY <1>1, <2>10
    <3> QED
      BY <2>9, <2>15, <3>1, SharesGiven
  <2>17. PICK d : d = MintedBooks(x.books, given, e, part, sale)
    OBVIOUS
  <2>18. /\ d \in BooksSet
         /\ \A c \in Currency :
              Holdings(d, c) = Holdings(x.books, c) + (IF c = "LYNX" THEN cake + part - e ELSE 0)
    <3>1. x.books \in BooksSet /\ given \in [Wallets -> Int] /\ e \in Nat /\ part \in Nat /\ sale \in Nat
      BY <1>1, <2>5, <2>9, <2>16
    <3>2. /\ d \in BooksSet
          /\ \A c \in Currency :
               Holdings(d, c) = Holdings(x.books, c)
                 + (IF c = "LYNX" THEN SumFunctionOnSet(given, Wallets) + part - e ELSE 0)
      BY <2>17, <3>1, MintedBooksFit
    <3> QED
      BY <2>16, <3>2
  <2>19. PICK os : os = PutUpForSale(x.orders, sale)
    OBVIOUS
  <2>20. /\ os \in Seq(Order) /\ LocksFit(x.markets, os) /\ (BookCalm(x.orders) => BookCalm(os))
         /\ \A c \in Currency :
              /\ OrdersHold(os, c) = OrdersHold(x.orders, c) + (IF c = "LYNX" THEN sale ELSE 0)
              /\ OrdersSlack(os, c) = OrdersSlack(x.orders, c)
    <3>1. LocksFit(x.markets, x.orders)
      BY DEF StoreFits
    <3>2. x.orders \in Seq(Order) /\ sale \in Nat
      BY <1>1, <2>9
    <3>3. PutUpIs(x.markets, x.orders, os, sale)
      BY <2>19, <3>1, <3>2, PutUpFits
    <3> QED
      BY <3>3 DEF PutUpIs
  <2>21. PICK z : z = WithBooks(x, d)
    OBVIOUS
  <2>22. BooksOnly(x, z, d)
    BY <2>18, <2>21, StoreBooks
  <2>23. PICK v : v = WithOrders(z, os)
    OBVIOUS
  <2>24. /\ StoreFits(z) /\ z.markets = x.markets /\ z.orders = x.orders /\ z.threw = x.threw
         /\ z.positions = x.positions /\ z.duels = x.duels
    BY <2>22 DEF BooksOnly
  <2>25. OrdersOnly(z, v, os)
    <3>1. z.threw \/ BookCalm(os)
      BY <2>20, <2>24 DEF StoreFits, BookCalm
    <3> QED
      BY <2>20, <2>23, <2>24, <3>1, StoreOrders
  <2>26. y = v
    <3>1. PICK d1, os1 : Mints(x, y, e, given, d1, os1)
      <4>1. e = roundAmount(x.markets[m].poolAmount * getMintRatio(getCirculatingSupply(x.books)), 1000)
        BY <1>2, <2>1, <2>2, <2>4
      <4>2. x.markets[m].currency = "SOL" /\ x.markets[m].poolAmount # 0
        BY <1>2, <1>5
      <4>3. Gives(x.positions, m, Percent(e, 30), held, shares, given)
        BY <2>6, <2>10, <2>15
      <4> QED
        BY <4>1, <4>2, <4>3, MintIs
    <3>4. d1 = d /\ os1 = os
      BY <2>7, <2>8, <2>17, <2>19, <3>1 DEF Mints
    <3>2. y = [x EXCEPT !.books = d, !.orders = os]
      BY <3>1, <3>4 DEF Mints
    <3>3. v = [[x EXCEPT !.books = d] EXCEPT !.orders = os]
      BY <2>21, <2>23 DEF WithBooks, WithOrders
    <3> QED
      BY <3>2, <3>3
  <2>27. MoneyOnly(x, y)
    BY <2>24, <2>25, <2>26 DEF MoneyOnly, OrdersOnly
  <2>28. ASSUME NEW c \in Currency
         PROVE  \E n \in Int : Moves(x, y, c, n) /\ Slight(n) /\ (c = x.markets[m].currency => n = 0)
    <3>0. PICK k : k = IF c = "LYNX" THEN cake + part - e ELSE 0
      OBVIOUS
    <3>1. k \in Int /\ k = IF c = "LYNX" THEN cake + part - e ELSE 0
      BY <2>5, <2>9, <3>0
    <3>2. PICK l \in Int : l = IF c = "LYNX" THEN sale ELSE 0
      BY <2>9
    <3>3. Moves(x, z, c, k)
      <4>1. Holdings(d, c) = Holdings(x.books, c) + k
        BY <2>18, <3>1
      <4> QED
        BY <2>18, <2>22, <3>1, <4>1, BooksMove
    <3>4. Moves(z, v, c, l)
      <4>1. OrdersHold(os, c) = OrdersHold(z.orders, c) + l /\ OrdersSlack(os, c) = OrdersSlack(z.orders, c)
        BY <2>20, <2>24, <3>2
      <4> QED
        BY <2>20, <2>24, <2>25, <4>1, OrdersMove
    <3>5. Moves(x, y, c, k + l)
      BY <2>26, <3>1, <3>3, <3>4, MovesAdd
    <3>6. Slight(k + l)
      <4>1. CASE c = "LYNX"
        <5>1. k + l = cake + part + sale - e
          BY <2>5, <2>9, <3>1, <3>2, <4>1
        <5> QED
          BY <2>9, <5>1
      <4>2. CASE c # "LYNX"
        <5>1. k + l = 0
          BY <3>1, <3>2, <4>2
        <5> QED
          BY <5>1 DEF Slight
      <4> QED
        BY <4>1, <4>2
    <3>7. c = x.markets[m].currency => k + l = 0
      BY <1>2, <1>5, <3>1, <3>2
    <3>8. k + l \in Int
      BY <3>1
    <3> QED
      BY <3>5, <3>6, <3>7, <3>8
  <2> QED
    BY <2>27, <2>28 DEF MintSlips
<1> QED
  BY <1>4, <1>5

-----------------------------------------------------------------------------
(* Duels of a market that is resolved                                        *)

\* The LYNX minted for the protocol's part of a ternary duel.
LEMMA DuelMintFits ==
  ASSUME NEW b \in BooksSet, NEW w \in Wallets, NEW counterpart \in Nat,
         NEW a, a = mintProtocolDuelLynx(b, w, counterpart)
  PROVE  a \in BooksSet /\ \A c \in Currency : Holdings(a, c) = Holdings(b, c)
<1>1. PICK ratio : ratio = getMintRatio(getCirculatingSupply(b))
  OBVIOUS
<1>2. ratio \in Nat
  <2>1. "LYNX" \in Currency
    BY DEF Currency
  <2>2. getCirculatingSupply(b) \in Int
    BY <2>1, HoldingsInt
  <2> QED
    BY <1>1, <2>2, MintRatioNat
<1>3. PICK minted : minted = roundAmount(counterpart * ratio, 1000)
  OBVIOUS
<1>4. minted \in Nat
  <2>1. counterpart * ratio \in Nat /\ 1000 \in Nat \ {0}
    BY <1>2
  <2> QED
    BY <1>3, <2>1, RoundFits
<1>5. PICK d : d = credit(b, w, "LYNX", minted)
  OBVIOUS
<1>6. /\ d \in BooksSet /\ d.treasury = b.treasury
      /\ \A c \in Currency : Holdings(d, c) = Holdings(b, c) + (IF c = "LYNX" THEN minted ELSE 0)
  <2>1. "LYNX" \in Currency /\ minted \in Int
    BY <1>4 DEF Currency
  <2> QED
    BY <1>5, <2>1, CreditFits
<1>7. PICK old : old = d.treasury
  OBVIOUS
<1>8. PICK t : t = [old EXCEPT !.lynxTotalMinted = @ + minted]
  OBVIOUS
<1>9. a = [d EXCEPT !.treasury = t]
  <2>1. a = [d EXCEPT !.treasury.lynxTotalMinted = @ + minted]
    BY <1>1, <1>3, <1>5 DEF mintProtocolDuelLynx
  <2> QED
    BY <1>7, <1>8, <2>1
<1>10. old \in Treasury
  BY <1>6, <1>7 DEF BooksSet
<1>11. /\ t \in Treasury /\ t.lynxBurned = old.lynxBurned
       /\ t.lynxTotalMinted = old.lynxTotalMinted + minted
       /\ \A c \in Currency : t[c] = old[c]
  BY <1>4, <1>8, <1>10 DEF Treasury, Currency
<1>12. a.treasury = t
  BY <1>6, <1>9 DEF BooksSet
<1>13. /\ a \in BooksSet
       /\ \A c \in Currency :
            Holdings(a, c) = Holdings(d, c) + t[c] - d.treasury[c]
              - (IF c = "LYNX" THEN getCirculatingSupply(a) - getCirculatingSupply(d) ELSE 0)
  BY <1>6, <1>9, <1>11, TreasuryFits
<1>14. getCirculatingSupply(a) = getCirculatingSupply(d) + minted
  <2>1. old.lynxBurned \in Int /\ old.lynxTotalMinted \in Int
    BY <1>10 DEF Treasury
  <2> QED
    BY <1>4, <1>7, <1>11, <1>12, <2>1 DEF getCirculatingSupply
<1>15. ASSUME NEW c \in Currency PROVE Holdings(a, c) = Holdings(b, c)
  <2>1. Holdings(b, c) \in Int /\ d.treasury[c] \in Int /\ getCirculatingSupply(d) \in Int
    BY <1>6, HoldingsInt
  <2>2. t[c] = d.treasury[c]
    BY <1>7, <1>11
  <2>3. PICK h : h = d.treasury[c]
    OBVIOUS
  <2>4. PICK s : s = getCirculatingSupply(d)
    OBVIOUS
  <2>5. Holdings(a, c) = Holdings(d, c) + h - h - (IF c = "LYNX" THEN (s + minted) - s ELSE 0)
    BY <1>13, <1>14, <2>2, <2>3, <2>4
  <2>6. h \in Int /\ s \in Int
    BY <2>1, <2>3, <2>4
  <2> QED
    BY <1>4, <1>6, <2>1, <2>5, <2>6
<1> QED
  BY <1>13, <1>15

\* The protocol's part of a lost pot is counted in the treasury, and held in a wallet.
LostTo(b, w, c, amount) ==
  [credit(b, w, c, amount) EXCEPT !.treasury.protocolDuelSol = @ + amount]

LEMMA DuelLostFits ==
  ASSUME NEW b \in BooksSet, NEW w \in Wallets, NEW c \in Currency, NEW amount \in Int,
         NEW a, a = LostTo(b, w, c, amount)
  PROVE  /\ a \in BooksSet
         /\ \A e \in Currency : Holdings(a, e) = Holdings(b, e) + (IF e = c THEN amount ELSE 0)
<1>1. PICK d : d = credit(b, w, c, amount)
  OBVIOUS
<1>2. /\ d \in BooksSet
      /\ \A e \in Currency : Holdings(d, e) = Holdings(b, e) + (IF e = c THEN amount ELSE 0)
  BY <1>1, CreditFits
<1>3. PICK old : old = d.treasury
  OBVIOUS
<1>4. PICK t : t = [old EXCEPT !.protocolDuelSol = @ + amount]
  OBVIOUS
<1>5. a = [d EXCEPT !.treasury = t]
  BY <1>1, <1>3, <1>4 DEF LostTo
<1>6. old \in Treasury
  BY <1>2, <1>3 DEF BooksSet
<1>7. /\ t \in Treasury /\ t.lynxBurned = old.lynxBurned
      /\ t.lynxTotalMinted = old.lynxTotalMinted /\ \A e \in Currency : t[e] = old[e]
  BY <1>4, <1>6 DEF Treasury, Currency
<1>8. a.treasury = t
  BY <1>2, <1>5 DEF BooksSet
<1>9. /\ a \in BooksSet
      /\ \A e \in Currency :
           Holdings(a, e) = Holdings(d, e) + t[e] - d.treasury[e]
             - (IF e = "LYNX" THEN getCirculatingSupply(a) - getCirculatingSupply(d) ELSE 0)
  BY <1>2, <1>5, <1>7, TreasuryFits
<1>10. getCirculatingSupply(a) = getCirculatingSupply(d)
  BY <1>3, <1>7, <1>8 DEF getCirculatingSupply
<1>11. ASSUME NEW e \in Currency PROVE Holdings(a, e) = Holdings(d, e)
  <2>1. Holdings(d, e) \in Int /\ d.treasury[e] \in Int /\ getCirculatingSupply(d) \in Int
    BY <1>2, HoldingsInt
  <2>2. t[e] = d.treasury[e]
    BY <1>3, <1>7
  <2> QED
    BY <1>9, <1>10, <2>1, <2>2
<1> QED
  BY <1>2, <1>9, <1>11

\* A settled duel: the whole pot is paid out.
SettledIs(b, duel, market, s) ==
  /\ s.b \in BooksSet /\ s.winner \in Wallets
  /\ \A e \in Currency :
       Holdings(s.b, e) = Holdings(b, e) + (IF e = market.currency THEN duel.amount * 2 ELSE 0)

LEMMA SettleWon ==
  ASSUME NEW b, NEW duel, NEW market, NEW s, NEW winner, NEW c, NEW pot,
         b \in BooksSet, winner \in Wallets, c \in Currency, pot \in Nat,
         c = market.currency, pot = duel.amount * 2, duel.amount \in Nat, s.winner = winner,
         s.b = IF market.isTernary
               THEN mintProtocolDuelLynx(
                      PayEventFees(credit(b, winner, c, pot - DuelFees(pot)), pot, c),
                      winner, duel.amount)
               ELSE PayEventFees(credit(b, winner, c, pot - DuelFees(pot)), pot, c)
  PROVE  SettledIs(b, duel, market, s)
<1>1. PICK fee : fee = Percent(pot, 5)
  OBVIOUS
<1>2. fee \in Nat /\ DuelFees(pot) = fee + fee
  <2>1. fee \in Nat
    BY <1>1, PercentFits
  <2> QED
    BY <1>1, <2>1 DEF DuelFees, STAKER_REWARD_FEE, TREASURY_EVENT_FEE
<1>3. PICK net : net = pot - DuelFees(pot)
  OBVIOUS
<1>4. net \in Int /\ net + 2 * fee = pot
  BY <1>2, <1>3
<1>5. PICK paid : paid = credit(b, winner, c, net)
  OBVIOUS
<1>6. /\ paid \in BooksSet
      /\ \A e \in Currency : Holdings(paid, e) = Holdings(b, e) + (IF e = c THEN net ELSE 0)
  BY <1>4, <1>5, CreditFits
<1>7. PICK done : done = PayEventFees(paid, pot, c)
  OBVIOUS
<1>8. /\ done \in BooksSet
      /\ \A e \in Currency : Holdings(done, e) = Holdings(paid, e) + (IF e = c THEN 2 * fee ELSE 0)
  BY <1>1, <1>6, <1>7, PayEventFeesFit
<1>9. s.b = IF market.isTernary THEN mintProtocolDuelLynx(done, winner, duel.amount) ELSE done
  BY <1>3, <1>5, <1>7
<1>10. s.b \in BooksSet /\ \A e \in Currency : Holdings(s.b, e) = Holdings(done, e)
  <2>1. PICK a : a = mintProtocolDuelLynx(done, winner, duel.amount)
    OBVIOUS
  <2>2. a \in BooksSet /\ \A e \in Currency : Holdings(a, e) = Holdings(done, e)
    BY <1>8, <2>1, DuelMintFits
  <2> QED
    BY <1>8, <1>9, <2>1, <2>2
<1>11. ASSUME NEW e \in Currency
       PROVE  Holdings(s.b, e) = Holdings(b, e) + (IF e = c THEN pot ELSE 0)
  <2>1. Holdings(b, e) \in Int
    BY HoldingsInt
  <2>2. /\ Holdings(s.b, e) = Holdings(done, e)
        /\ Holdings(done, e) = Holdings(paid, e) + (IF e = c THEN 2 * fee ELSE 0)
        /\ Holdings(paid, e) = Holdings(b, e) + (IF e = c THEN net ELSE 0)
    BY <1>6, <1>8, <1>10
  <2> QED
    BY <1>2, <1>4, <2>1, <2>2
<1> QED
  BY <1>10, <1>11 DEF SettledIs

LEMMA SettleLost ==
  ASSUME NEW b, NEW duel, NEW market, NEW s, NEW c, NEW pot, NEW share,
         b \in BooksSet, c \in Currency, pot \in Nat, share = roundAmount(pot, 2),
         c = market.currency, pot = duel.amount * 2, s.winner = TREASURY_WALLET,
         s.b = distributeStakingRewards(LostTo(b, TREASURY_WALLET, c, pot - share), share, c)
  PROVE  SettledIs(b, duel, market, s)
<1>1. TREASURY_WALLET \in Wallets
  BY LedgerAssumption DEF Wallets
<1>2. share \in Nat
  <2>1. pot \in Nat /\ 2 \in Nat \ {0}
    OBVIOUS
  <2>2. roundAmount(pot, 2) \in Nat
    BY <2>1, RoundFits
  <2> QED
    BY <2>2
<1>3. PICK rest \in Int : rest = pot - share
  BY <1>2
<1>4. PICK lost : lost = LostTo(b, TREASURY_WALLET, c, rest)
  OBVIOUS
<1>5. /\ lost \in BooksSet
      /\ \A e \in Currency : Holdings(lost, e) = Holdings(b, e) + (IF e = c THEN rest ELSE 0)
  BY <1>1, <1>3, <1>4, DuelLostFits
<1>6. s.b = distributeStakingRewards(lost, share, c)
  BY <1>3, <1>4
<1>7. /\ s.b \in BooksSet
      /\ \A e \in Currency : Holdings(s.b, e) = Holdings(lost, e) + (IF e = c THEN share ELSE 0)
  <2>1. PICK a : a = distributeStakingRewards(lost, share, c)
    OBVIOUS
  <2>2. /\ a \in BooksSet
        /\ \A e \in Currency : Holdings(a, e) = Holdings(lost, e) + (IF e = c THEN share ELSE 0)
    BY <1>2, <1>5, <2>1, DistributeFits
  <2> QED
    BY <1>6, <2>1, <2>2
<1>8. ASSUME NEW e \in Currency
      PROVE  Holdings(s.b, e) = Holdings(b, e) + (IF e = c THEN pot ELSE 0)
  <2>1. Holdings(b, e) \in Int
    BY HoldingsInt
  <2>2. /\ Holdings(s.b, e) = Holdings(lost, e) + (IF e = c THEN share ELSE 0)
        /\ Holdings(lost, e) = Holdings(b, e) + (IF e = c THEN rest ELSE 0)
    BY <1>5, <1>7
  <2> QED
    BY <1>2, <1>3, <2>1, <2>2
<1> QED
  BY <1>1, <1>7, <1>8 DEF SettledIs

LEMMA SettleFits ==
  ASSUME NEW b, NEW duel, NEW market, NEW s, b \in BooksSet, duel \in DuelRecord,
         duel.rival \in Wallets, market \in MarketRecord, s = SettleDuel(b, duel, market)
  PROVE  SettledIs(b, duel, market, s)
<1>1. PICK c : c = market.currency
  OBVIOUS
<1>2. PICK pot : pot = duel.amount * 2
  OBVIOUS
<1>3. PICK share : share = roundAmount(pot, 2)
  OBVIOUS
<1>4. PICK winner : winner = IF market.result = duel.positionA THEN duel.creator ELSE duel.rival
  OBVIOUS
<1>5. duel.amount \in Nat /\ duel.creator \in Wallets /\ winner \in Wallets /\ c \in Currency
  BY <1>1, <1>4, DuelTypes, MarketTypes
<1>6. pot \in Nat
  BY <1>2, <1>5
<1>7. CASE market.result \in {duel.positionA, duel.positionB}
  <2>1. /\ s.winner = winner
        /\ s.b = IF market.isTernary
                 THEN mintProtocolDuelLynx(
                        PayEventFees(credit(b, winner, c, pot - DuelFees(pot)), pot, c),
                        winner, duel.amount)
                 ELSE PayEventFees(credit(b, winner, c, pot - DuelFees(pot)), pot, c)
    BY <1>1, <1>2, <1>4, <1>7 DEF SettleDuel
  <2> QED
    BY <1>1, <1>2, <1>5, <1>6, <2>1, SettleWon
<1>8. CASE market.result \notin {duel.positionA, duel.positionB}
  <2>1. PICK lost : lost = [credit(b, TREASURY_WALLET, c, pot - share)
                              EXCEPT !.treasury.protocolDuelSol = @ + pot - share]
    OBVIOUS
  <2>2. s.winner = TREASURY_WALLET /\ s.b = distributeStakingRewards(lost, share, c)
    BY <1>1, <1>2, <1>3, <1>8, <2>1 DEF SettleDuel
  <2>3. share \in Nat
    BY <1>3, <1>6, RoundFits
  <2>4. lost = LostTo(b, TREASURY_WALLET, c, pot - share)
    <3>1. PICK d : d = credit(b, TREASURY_WALLET, c, pot - share)
      OBVIOUS
    <3>2. d \in BooksSet
      <4>1. TREASURY_WALLET \in Wallets /\ pot - share \in Int
        BY <1>6, <2>3, LedgerAssumption DEF Wallets
      <4> QED
        BY <1>5, <3>1, <4>1, CreditFits
    <3>3. d.treasury.protocolDuelSol \in Int
      BY <3>2 DEF BooksSet, Treasury
    <3>4. d.treasury.protocolDuelSol + pot - share = d.treasury.protocolDuelSol + (pot - share)
      BY <1>6, <2>3, <3>3
    <3>5. lost = [d EXCEPT !.treasury.protocolDuelSol = d.treasury.protocolDuelSol + pot - share]
      BY <2>1, <3>1
    <3>6. LostTo(b, TREASURY_WALLET, c, pot - share)
            = [d EXCEPT !.treasury.protocolDuelSol = d.treasury.protocolDuelSol + (pot - share)]
      BY <3>1 DEF LostTo
    <3> QED
      BY <3>4, <3>5, <3>6
  <2> QED
    BY <1>1, <1>2, <1>3, <1>5, <1>6, <2>2, <2>4, SettleLost
<1> QED
  BY <1>7, <1>8

\* Duels of a store that were paid out; nothing else but the books has changed.
DuelsTo(x) ==
  {y \in StoreSet :
     /\ StoreFits(y) /\ \A c \in Currency : Moves(x, y, c, 0)
     /\ y.threw = x.threw /\ y.orders = x.orders /\ y.markets = x.markets
     /\ y.positions = x.positions /\ DOMAIN y.duels = DOMAIN x.duels
     /\ \A d \in DOMAIN x.duels :
          /\ y.duels[d].market = x.duels[d].market
          /\ y.duels[d].status \in Entering => y.duels[d].status = x.duels[d].status}

LEMMA DuelsChain ==
  ASSUME NEW x, StoreFits(x), NEW y \in DuelsTo(x), NEW z \in DuelsTo(y)
  PROVE  z \in DuelsTo(x)
<1>1. /\ z \in StoreSet /\ StoreFits(z)
      /\ z.threw = x.threw /\ z.orders = x.orders /\ z.markets = x.markets
      /\ z.positions = x.positions /\ DOMAIN z.duels = DOMAIN x.duels
      /\ \A d \in DOMAIN x.duels :
           /\ z.duels[d].market = x.duels[d].market
           /\ z.duels[d].status \in Entering => z.duels[d].status = x.duels[d].status
  BY DEF DuelsTo
<1>2. ASSUME NEW c \in Currency PROVE Moves(x, z, c, 0)
  <2>1. Moves(x, y, c, 0) /\ Moves(y, z, c, 0)
    BY DEF DuelsTo
  <2>2. Total(x, c) \in Int
    BY TotalInt
  <2> QED
    BY <2>1, <2>2 DEF Moves
<1> QED
  BY <1>1, <1>2 DEF DuelsTo

LEMMA DuelsStay ==
  ASSUME NEW x, StoreFits(x)
  PROVE  x \in DuelsTo(x)
<1>1. ASSUME NEW c \in Currency PROVE Moves(x, x, c, 0)
  BY TotalInt DEF Moves
<1> QED
  BY <1>1 DEF DuelsTo, StoreFits

\* One duel closed, and what it holds paid to wallets, rewards or the treasury.
Closes(x, d, b, q, ds, y) ==
  /\ q \in DuelRecord /\ DuelFits(x.markets, q) /\ q.status \notin Entering
  /\ q.market = x.duels[d].market /\ b \in BooksSet
  /\ \A c \in Currency : Holdings(b, c) = Holdings(x.books, c) + DuelHolds(x.markets, x.duels[d], c)
  /\ ds = [x.duels EXCEPT ![d] = q] /\ y = WithDuels(WithBooks(x, b), ds)

LEMMA DuelCloses ==
  ASSUME NEW x, NEW d, NEW b, NEW q, NEW ds, NEW y, StoreFits(x), d \in DOMAIN x.duels,
         Closes(x, d, b, q, ds, y)
  PROVE  y \in DuelsTo(x)
<1>1. /\ x \in StoreSet /\ x.duels \in Seq(DuelRecord) /\ DuelsFit(x.markets, x.duels)
      /\ x.books \in BooksSet
  BY StoreTypes DEF StoreFits
<1>2. /\ q \in DuelRecord /\ DuelFits(x.markets, q) /\ q.status \notin Entering
      /\ q.market = x.duels[d].market /\ b \in BooksSet
      /\ \A c \in Currency : Holdings(b, c) = Holdings(x.books, c) + DuelHolds(x.markets, x.duels[d], c)
  BY DEF Closes
<1>3. PICK old : old = x.duels
  OBVIOUS
<1>4. old \in Seq(DuelRecord) /\ d \in DOMAIN old
  BY <1>1, <1>3
<1>5. ds = [old EXCEPT ![d] = q]
  BY <1>3 DEF Closes
<1>6. /\ ds \in Seq(DuelRecord) /\ DOMAIN ds = DOMAIN old
      /\ ds[d] = q /\ \A j \in DOMAIN old \ {d} : ds[j] = old[j]
  BY <1>2, <1>4, <1>5, SeqReplaced
<1>7. PICK z : z = WithBooks(x, b)
  OBVIOUS
<1>8. y = WithDuels(z, ds)
  BY <1>7 DEF Closes
<1>9. BooksOnly(x, z, b)
  BY <1>2, <1>7, StoreBooks
<1>10. /\ StoreFits(z) /\ z.markets = x.markets /\ z.orders = x.orders /\ z.threw = x.threw
       /\ z.positions = x.positions /\ z.duels = old
  BY <1>3, <1>9 DEF BooksOnly
<1>11. DuelsFit(z.markets, ds)
  BY <1>1, <1>2, <1>3, <1>6, <1>10 DEF DuelsFit
<1>12. DuelsOnly(z, y, ds)
  BY <1>6, <1>8, <1>10, <1>11, StoreDuels
<1>13. ASSUME NEW c \in Currency PROVE Moves(x, y, c, 0)
  <2>1. PICK k : k = DuelHolds(x.markets, x.duels[d], c)
    OBVIOUS
  <2>2. k \in Int /\ 0 - k \in Int
    <3>1. x.duels[d] \in DuelRecord
      BY <1>1, OrdersFinite
    <3>2. k \in Int
      BY <2>1, <3>1, DuelHoldsInt
    <3> QED
      BY <3>2
  <2>3. Moves(x, z, c, k)
    <3>1. Holdings(b, c) = Holdings(x.books, c) + k
      BY <1>2, <2>1
    <3> QED
      BY <1>2, <1>9, <2>2, <3>1, BooksMove
  <2>4. DuelsHold(z.markets, ds, c) = DuelsHold(z.markets, z.duels, c) + (0 - k)
    <3>1. DuelsHold(x.markets, ds, c)
            = DuelsHold(x.markets, old, c) - DuelHolds(x.markets, old[d], c) + DuelHolds(x.markets, q, c)
      BY <1>2, <1>4, <1>5, DuelReplaced
    <3>2. DuelHolds(x.markets, q, c) = 0
      BY <1>2 DEF DuelHolds
    <3>3. DuelsHold(x.markets, old, c) \in Int
      BY <1>4, DuelsHoldInt
    <3> QED
      BY <1>3, <1>10, <2>1, <2>2, <3>1, <3>2, <3>3
  <2>5. Moves(z, y, c, 0 - k)
    BY <1>6, <1>10, <1>12, <2>2, <2>4, DuelsMove
  <2>6. Total(x, c) \in Int
    BY TotalInt
  <2> QED
    BY <2>2, <2>3, <2>5, <2>6 DEF Moves
<1>14. /\ StoreFits(y) /\ y.threw = x.threw /\ y.orders = x.orders /\ y.markets = x.markets
       /\ y.positions = x.positions /\ y.duels = ds
  BY <1>10, <1>12 DEF DuelsOnly
<1>15. ASSUME NEW j \in DOMAIN x.duels
       PROVE  /\ y.duels[j].market = x.duels[j].market
              /\ y.duels[j].status \in Entering => y.duels[j].status = x.duels[j].status
  <2>1. CASE j = d
    BY <1>2, <1>6, <1>14, <2>1
  <2>2. CASE j # d
    BY <1>3, <1>6, <1>14, <1>15, <2>2
  <2> QED
    BY <2>1, <2>2
<1>16. DOMAIN y.duels = DOMAIN x.duels /\ y \in StoreSet
  BY <1>3, <1>6, <1>14 DEF StoreFits
<1> QED
  BY <1>13, <1>14, <1>15, <1>16 DEF DuelsTo

\* What a duel of a store is, and the currency it is staked in.
LEMMA DuelOf ==
  ASSUME NEW x, StoreFits(x), NEW d \in DOMAIN x.duels
  PROVE  /\ x \in StoreSet /\ x.books \in BooksSet /\ x.duels \in Seq(DuelRecord)
         /\ x.duels[d] \in DuelRecord /\ DuelFits(x.markets, x.duels[d])
         /\ x.duels[d].market \in Markets /\ x.markets[x.duels[d].market] \in MarketRecord
         /\ x.markets[x.duels[d].market].currency \in Currency
<1>1. /\ x \in StoreSet /\ x.duels \in Seq(DuelRecord) /\ DuelsFit(x.markets, x.duels)
      /\ x.books \in BooksSet /\ x.markets \in [Markets -> MarketRecord]
  BY StoreTypes DEF StoreFits
<1>2. x.duels[d] \in DuelRecord /\ DuelFits(x.markets, x.duels[d])
  BY <1>1, OrdersFinite DEF DuelsFit
<1>3. x.duels[d].market \in Markets
  BY <1>2, DuelTypes
<1>4. x.markets[x.duels[d].market] \in MarketRecord
  BY <1>1, <1>3
<1> QED
  BY <1>1, <1>2, <1>3, <1>4, MarketTypes

LEMMA RefundUnmatchedFits ==
  ASSUME NEW x, NEW m, NEW d, NEW y, StoreFits(x), d \in DOMAIN x.duels, y = RefundUnmatched(m, x, d)
  PROVE  y \in DuelsTo(x)
<1>1. PICK duel : duel = x.duels[d]
  OBVIOUS
<1>2. PICK c : c = x.markets[duel.market].currency
  OBVIOUS
<1>3. /\ x.books \in BooksSet /\ duel \in DuelRecord /\ DuelFits(x.markets, duel)
      /\ duel.market \in Markets /\ c \in Currency
  BY <1>1, <1>2, DuelOf
<1>4. CASE duel.market = m /\ duel.status = "OPEN"
  <2>1. PICK b : b = credit(x.books, duel.creator, c, duel.amount)
    OBVIOUS
  <2>2. PICK q : q = [duel EXCEPT !.status = "CANCELLED"]
    OBVIOUS
  <2>3. q = [market |-> duel.market, creator |-> duel.creator, rival |-> duel.rival,
             gross |-> duel.gross, amount |-> duel.amount, status |-> "CANCELLED",
             positionA |-> duel.positionA, positionB |-> duel.positionB, winner |-> duel.winner]
    BY <1>3, <2>2, DuelIs
  <2>4. q \in DuelRecord /\ DuelFits(x.markets, q) /\ q.status \notin Entering /\ q.market = duel.market
    BY <1>3, <2>3, DuelTypes DEF DuelRecord, DuelFits, Entering
  <2>5. /\ b \in BooksSet
        /\ \A e \in Currency : Holdings(b, e) = Holdings(x.books, e) + DuelHolds(x.markets, duel, e)
    <3>1. duel.amount \in Int /\ duel.amount \in Nat /\ duel.creator \in Wallets
      BY <1>3, DuelTypes
    <3>2. /\ b \in BooksSet
          /\ \A e \in Currency : Holdings(b, e) = Holdings(x.books, e) + (IF e = c THEN duel.amount ELSE 0)
      BY <1>3, <2>1, <3>1, CreditFits
    <3>3. \A e \in Currency : DuelHolds(x.markets, duel, e) = IF e = c THEN duel.amount ELSE 0
      BY <1>2, <1>4, <3>1 DEF DuelHolds, Entering
    <3> QED
      BY <3>2, <3>3
  <2>6. PICK ds : ds = [x.duels EXCEPT ![d] = q]
    OBVIOUS
  <2>7. y = WithDuels(WithBooks(x, b), ds)
    <3>1. y = [x EXCEPT !.books = credit(x.books, duel.creator, c, duel.amount),
                        !.duels = [x.duels EXCEPT ![d] = [x.duels[d] EXCEPT !.status = "CANCELLED"]]]
      <4>1. y = [x EXCEPT !.books = credit(@, x.duels[d].creator, x.markets[m].currency, x.duels[d].amount),
                          !.duels[d].status = "CANCELLED"]
        BY <1>1, <1>4 DEF RefundUnmatched
      <4>2. x \in StoreSet /\ x.books = x.books
        BY DEF StoreFits
      <4> QED
        BY <1>1, <1>2, <1>4, <4>1, <4>2
    <3>2. y = [x EXCEPT !.books = b, !.duels = ds]
      BY <1>1, <2>1, <2>2, <2>6, <3>1
    <3> QED
      BY <3>2 DEF WithDuels, WithBooks
  <2>8. Closes(x, d, b, q, ds, y)
    BY <1>1, <2>4, <2>5, <2>6, <2>7 DEF Closes
  <2> QED
    BY <2>8, DuelCloses
<1>5. CASE ~(duel.market = m /\ duel.status = "OPEN")
  <2>1. y = x
    BY <1>1, <1>5 DEF RefundUnmatched
  <2> QED
    BY <2>1, DuelsStay
<1> QED
  BY <1>4, <1>5

LEMMA SettleMatchedFits ==
  ASSUME NEW x, NEW m, NEW d, NEW y, StoreFits(x), d \in DOMAIN x.duels, y = SettleMatched(m, x, d)
  PROVE  y \in DuelsTo(x)
<1>1. PICK duel : duel = x.duels[d]
  OBVIOUS
<1>2. PICK market : market = x.markets[duel.market]
  OBVIOUS
<1>3. /\ x.books \in BooksSet /\ duel \in DuelRecord /\ DuelFits(x.markets, duel)
      /\ duel.market \in Markets /\ market \in MarketRecord /\ market.currency \in Currency
  BY <1>1, <1>2, DuelOf
<1>4. CASE duel.market = m /\ duel.status = "ACTIVE"
  <2>1. PICK s : s = SettleDuel(x.books, duel, market)
    OBVIOUS
  <2>2. /\ s.b \in BooksSet /\ s.winner \in Wallets
        /\ \A e \in Currency :
             Holdings(s.b, e) = Holdings(x.books, e) + (IF e = market.currency THEN duel.amount * 2 ELSE 0)
    <3>1. duel.rival \in Wallets
      BY <1>3, <1>4 DEF DuelFits
    <3>2. SettledIs(x.books, duel, market, s)
      BY <1>3, <2>1, <3>1, SettleFits
    <3> QED
      BY <3>2 DEF SettledIs
  <2>3. PICK winner : winner = s.winner
    OBVIOUS
  <2>4. PICK q : q = [duel EXCEPT !.status = "RESOLVED", !.winner = winner]
    OBVIOUS
  <2>5. q = [market |-> duel.market, creator |-> duel.creator, rival |-> duel.rival,
             gross |-> duel.gross, amount |-> duel.amount, status |-> "RESOLVED",
             positionA |-> duel.positionA, positionB |-> duel.positionB, winner |-> winner]
    <3>1. duel = [market |-> duel.market, creator |-> duel.creator, rival |-> duel.rival,
                  gross |-> duel.gross, amount |-> duel.amount, status |-> duel.status,
                  positionA |-> duel.positionA, positionB |-> duel.positionB, winner |-> duel.winner]
      BY <1>3, DuelIs
    <3> QED
      BY <2>4, <3>1
  <2>6. q \in DuelRecord /\ DuelFits(x.markets, q) /\ q.status \notin Entering /\ q.market = duel.market
    BY <1>3, <2>2, <2>3, <2>5, DuelTypes DEF DuelRecord, DuelFits, Entering
  <2>7. PICK b : b = s.b
    OBVIOUS
  <2>8. \A e \in Currency : Holdings(b, e) = Holdings(x.books, e) + DuelHolds(x.markets, duel, e)
    <3>1. duel.amount \in Nat
      BY <1>3, DuelTypes
    <3>2. \A e \in Currency : DuelHolds(x.markets, duel, e)
                                = IF e = market.currency THEN duel.amount * 2 ELSE 0
      BY <1>2, <1>4, <3>1 DEF DuelHolds, Entering
    <3> QED
      BY <2>2, <2>7, <3>2
  <2>9. PICK ds : ds = [x.duels EXCEPT ![d] = q]
    OBVIOUS
  <2>10. y = WithDuels(WithBooks(x, b), ds)
    <3>1. y = [x EXCEPT !.books = s.b,
                        !.duels = [x.duels EXCEPT ![d] = [x.duels[d] EXCEPT !.status = "RESOLVED",
                                                                            !.winner = s.winner]]]
      <4>1. s = SettleDuel(x.books, x.duels[d], x.markets[m])
        BY <1>1, <1>2, <1>4, <2>1
      <4>2. y = [x EXCEPT !.books = s.b,
                          !.duels[d] = [@ EXCEPT !.status = "RESOLVED", !.winner = s.winner]]
        BY <1>1, <1>4, <4>1 DEF SettleMatched
      <4>3. x \in StoreSet
        BY DEF StoreFits
      <4> QED
        BY <4>2, <4>3
    <3>2. y = [x EXCEPT !.books = b, !.duels = ds]
      BY <1>1, <2>3, <2>4, <2>7, <2>9, <3>1
    <3> QED
      BY <3>2 DEF WithDuels, WithBooks
  <2>11. Closes(x, d, b, q, ds, y)
    BY <1>1, <2>2, <2>6, <2>7, <2>8, <2>9, <2>10 DEF Closes
  <2> QED
    BY <2>11, DuelCloses
<1>5. CASE ~(duel.market = m /\ duel.status = "ACTIVE")
  <2>1. y = x
    BY <1>1, <1>5 DEF SettleMatched
  <2> QED
    BY <2>1, DuelsStay
<1> QED
  BY <1>4, <1>5

\* All the duels of a market that was resolved.
LEMMA DuelsResolve ==
  ASSUME NEW x, NEW m, NEW y, StoreFits(x), y = resolveDuelsForMarket(x, m)
  PROVE  y \in DuelsTo(x)
<1>1. PICK z : z = RefundAll(m, x)
  OBVIOUS
<1>2. PICK n : n = Len(x.duels)
  OBVIOUS
<1>3. n \in Nat /\ DOMAIN x.duels = 1..n
  <2>1. x.duels \in Seq(DuelRecord)
    BY StoreTypes DEF StoreFits
  <2> QED
    BY <1>2, <2>1, OrdersFinite
<1>4. x \in DuelsTo(x)
  BY DuelsStay
<1>5. ASSUME NEW a \in DuelsTo(x), NEW i \in 1..n
      PROVE  RefundUnmatched(m, a, i) \in DuelsTo(x) /\ SettleMatched(m, a, i) \in DuelsTo(x)
  <2>1. StoreFits(a) /\ i \in DOMAIN a.duels
    BY <1>3 DEF DuelsTo
  <2>2. RefundUnmatched(m, a, i) \in DuelsTo(a)
    BY <2>1, RefundUnmatchedFits
  <2>3. SettleMatched(m, a, i) \in DuelsTo(a)
    BY <2>1, SettleMatchedFits
  <2> QED
    BY <2>2, <2>3, DuelsChain
<1>6. z \in DuelsTo(x)
  BY <1>1, <1>3, <1>4, <1>5, RefundAllIn
<1>7. DOMAIN z.duels = 1..n
  BY <1>3, <1>6 DEF DuelsTo
<1>8. SettleAll(m, z) \in DuelsTo(x)
  BY <1>3, <1>5, <1>6, <1>7, SettleAllIn
<1> QED
  BY <1>1, <1>8 DEF resolveDuelsForMarket

-----------------------------------------------------------------------------
(* Resolution                                                                *)

\* What the treasury takes of a net pool that no position won.
Unclaimed(market, c) ==
  IF c = market.currency /\ market.side[market.result] = 0 THEN NetPool(market) ELSE 0

LEMMA SweepFits ==
  ASSUME NEW x, NEW m, NEW y, StoreFits(x), m \in Markets, x.markets[m].result \in Position,
         y = SweepWithoutWinners(x, m)
  PROVE  MoneyOnly(x, y) /\ \A c \in Currency : Moves(x, y, c, Unclaimed(x.markets[m], c))
<1>1. PICK market : market = x.markets[m]
  OBVIOUS
<1>2. x \in StoreSet /\ x.books \in BooksSet /\ market \in MarketRecord
  <2>1. x.markets \in [Markets -> MarketRecord]
    BY StoreTypes DEF StoreFits
  <2> QED
    BY <1>1, <2>1, StoreTypes DEF StoreFits
<1>3. market.currency \in Currency /\ NetPool(market) \in Int
  BY <1>2, MarketTypes, NetPoolNat
<1>4. CASE market.side[market.result] = 0
  <2>1. PICK b : b = [x.books EXCEPT !.treasury[market.currency] = @ + NetPool(market)]
    OBVIOUS
  <2>2. /\ b \in BooksSet
        /\ \A c \in Currency : Holdings(b, c) = Holdings(x.books, c) + Unclaimed(market, c)
    <3>1. /\ b \in BooksSet
          /\ \A c \in Currency : Holdings(b, c) = Holdings(x.books, c)
                                   + (IF c = market.currency THEN NetPool(market) ELSE 0)
      <4>1. PICK k : k = market.currency
        OBVIOUS
      <4>2. PICK n : n = NetPool(market)
        OBVIOUS
      <4>3. PICK old : old = x.books
        OBVIOUS
      <4>4. b = [old EXCEPT !.treasury[k] = @ + n]
        BY <2>1, <4>1, <4>2, <4>3
      <4>5. old \in BooksSet /\ k \in Currency /\ n \in Int
        BY <1>2, <1>3, <4>1, <4>2, <4>3
      <4>6. b \in BooksSet /\ \A c \in Currency : Holdings(b, c) = Holdings(old, c) + (IF c = k THEN n ELSE 0)
        BY <4>4, <4>5, TreasuryTakes
      <4> QED
        BY <4>1, <4>2, <4>3, <4>6
    <3>2. \A c \in Currency : Unclaimed(market, c)
                                = IF c = market.currency THEN NetPool(market) ELSE 0
      BY <1>4 DEF Unclaimed
    <3> QED
      BY <3>1, <3>2
  <2>3. y = WithBooks(x, b)
    BY <1>1, <1>4, <2>1 DEF SweepWithoutWinners, WithBooks
  <2>4. BooksOnly(x, y, b)
    BY <2>2, <2>3, StoreBooks
  <2>5. ASSUME NEW c \in Currency PROVE Moves(x, y, c, Unclaimed(market, c))
    <3>1. PICK n : n = Unclaimed(market, c)
      OBVIOUS
    <3>2. n \in Int
      BY <1>3, <3>1 DEF Unclaimed
    <3>3. Holdings(b, c) = Holdings(x.books, c) + n
      BY <2>2, <3>1
    <3>4. Moves(x, y, c, n)
      BY <2>2, <2>4, <3>2, <3>3, BooksMove
    <3> QED
      BY <3>1, <3>4
  <2>6. MoneyOnly(x, y)
    BY <2>4 DEF MoneyOnly, BooksOnly
  <2> QED
    BY <1>1, <2>5, <2>6
<1>5. CASE market.side[market.result] # 0
  <2>1. y = x
    BY <1>1, <1>5 DEF SweepWithoutWinners
  <2>2. ASSUME NEW c \in Currency PROVE Moves(x, y, c, Unclaimed(market, c))
    <3>1. Unclaimed(market, c) = 0
      BY <1>5 DEF Unclaimed
    <3>2. Moves(x, x, c, 0)
      BY TotalInt DEF Moves
    <3> QED
      BY <2>1, <3>1, <3>2
  <2>3. MoneyOnly(x, y)
    BY <2>1 DEF MoneyOnly
  <2> QED
    BY <1>1, <2>2, <2>3
<1> QED
  BY <1>4, <1>5

\* The net pool and the two fees are the pool, but for their roundings.
LEMMA FeesSlight ==
  ASSUME NEW r, r \in MarketRecord
  PROVE  /\ r.poolAmount \in Nat /\ NetPool(r) \in Nat /\ Percent(r.poolAmount, 5) \in Nat
         /\ Slight(NetPool(r) + 2 * Percent(r.poolAmount, 5) - r.poolAmount)
<1>1. PICK pool : pool = r.poolAmount
  OBVIOUS
<1>2. PICK fee : fee = Percent(pool, 5)
  OBVIOUS
<1>3. PICK net : net = NetPool(r)
  OBVIOUS
<1>4. pool \in Nat
  BY <1>1, MarketTypes
<1>5. fee \in Nat /\ 200 * fee <= 2 * pool * 5 + 100 /\ 2 * pool * 5 - 100 <= 200 * fee
  <2>1. 5 \in Nat
    OBVIOUS
  <2> QED
    BY <1>2, <1>4, <2>1, PercentFits
<1>6. net \in Nat /\ 200 * net <= 180 * pool + 100 /\ 180 * pool - 100 <= 200 * net
  BY <1>1, <1>3, NetPoolNat
<1>7. Slight(net + 2 * fee - pool)
  <2>1. 2 * pool * 5 = 10 * pool
    BY <1>4
  <2> QED
    BY <1>4, <1>5, <1>6, <2>1 DEF Slight
<1> QED
  BY <1>1, <1>2, <1>3, <1>4, <1>5, <1>6, <1>7

\* A step that ends a market: what it does to the money are roundings.
Ends(x, y, m) ==
  /\ StoreFits(y) /\ y.threw = x.threw /\ OnlyMarket(m, x.markets, y.markets)
  /\ x.markets[m].status # "RESOLVED" /\ y.markets[m].status = "RESOLVED"
  /\ \A c \in Currency : \E n \in Int : Slight(n) /\ Moves(x, y, c, n)
  /\ \A k \in Markets : Untouched(x, y, k)

\* The market as it is closed, and the event fees its pool pays.
Closing(x, m, result, r, ms) ==
  /\ r = [x.markets[m] EXCEPT !.status = "RESOLVED", !.result = result]
  /\ ms = [x.markets EXCEPT ![m] = r]

LEMMA MarketReplacedAs ==
  ASSUME NEW x, NEW m, NEW r, NEW ms, NEW z, StoreFits(x), m \in Markets, Becomes(x.markets[m], r),
         ms = [x.markets EXCEPT ![m] = r], z = WithMarkets(x, ms)
  PROVE  /\ MarketsOnly(x, z, ms) /\ OnlyMarket(m, x.markets, ms) /\ ms[m] = r
         /\ \A c \in Currency : Moves(x, z, c, PoolHolds(r, c) - PoolHolds(x.markets[m], c))
<1>1. PICK old : old = x.markets
  OBVIOUS
<1>2. ms = [old EXCEPT ![m] = r]
  BY <1>1
<1>3. z = WithMarkets(x, [x.markets EXCEPT ![m] = r])
  OBVIOUS
<1> QED
  BY <1>2, <1>3, MarketReplaced

LEMMA ClosingReplaces ==
  ASSUME NEW x, NEW m, NEW result, NEW r, NEW ms, NEW z, StoreFits(x), m \in Markets,
         Becomes(x.markets[m], r), Closing(x, m, result, r, ms), z = WithMarkets(x, ms)
  PROVE  /\ MarketsOnly(x, z, ms) /\ OnlyMarket(m, x.markets, ms) /\ ms[m] = r
         /\ \A c \in Currency : Moves(x, z, c, PoolHolds(r, c) - PoolHolds(x.markets[m], c))
<1>1. ms = [x.markets EXCEPT ![m] = r]
  BY DEF Closing
<1> QED
  BY <1>1, Zenon, MarketReplacedAs

LEMMA MarketCloses ==
  ASSUME NEW x, NEW m, NEW r, NEW y, NEW result, NEW ms, StoreFits(x), m \in Markets, result \in Position,
         x.markets[m].status # "RESOLVED", Closing(x, m, result, r, ms),
         y = WithBooks(WithMarkets(x, ms), PayEventFees(x.books, r.poolAmount, r.currency))
  PROVE  /\ StoreFits(y) /\ y.threw = x.threw /\ y.duels = x.duels /\ y.markets = ms
         /\ OnlyMarket(m, x.markets, ms) /\ ms[m] = r
         /\ r \in MarketRecord /\ r.currency = x.markets[m].currency
         /\ r.poolAmount = x.markets[m].poolAmount /\ r.result = result /\ r.status = "RESOLVED"
         /\ \A c \in Currency :
              Moves(x, y, c, IF c = r.currency
                             THEN NetPool(r) + 2 * Percent(r.poolAmount, 5) - r.poolAmount
                                  - Unclaimed(r, c)
                             ELSE 0)
<1>1. PICK market : market = x.markets[m]
  OBVIOUS
<1>2. x.books \in BooksSet /\ market \in MarketRecord
  <2>1. x \in StoreSet /\ x.markets \in [Markets -> MarketRecord]
    BY StoreTypes DEF StoreFits
  <2> QED
    BY <1>1, <2>1, StoreTypes
<1>3. r = [currency |-> market.currency, isTernary |-> market.isTernary, status |-> "RESOLVED",
           poolAmount |-> market.poolAmount, side |-> market.side, result |-> result]
  <2>1. market = [currency |-> market.currency, isTernary |-> market.isTernary,
                  status |-> market.status, poolAmount |-> market.poolAmount,
                  side |-> market.side, result |-> market.result]
    BY <1>2, MarketIs
  <2>2. r = [market EXCEPT !.status = "RESOLVED", !.result = result]
    BY <1>1 DEF Closing
  <2> QED
    BY <2>1, <2>2
<1>4. /\ r \in MarketRecord /\ r.currency = market.currency /\ r.side = market.side
      /\ r.poolAmount = market.poolAmount /\ r.result = result /\ r.status = "RESOLVED"
  <2>1. r \in MarketRecord
    BY <1>2, <1>3, MarketTypes DEF MarketRecord
  <2> QED
    BY <1>3, <2>1
<1>5. Becomes(x.markets[m], r)
  BY <1>1, <1>4 DEF Becomes
<1>6. PICK z : z = WithMarkets(x, ms)
  OBVIOUS
<1>7. /\ MarketsOnly(x, z, ms) /\ OnlyMarket(m, x.markets, ms) /\ ms[m] = r
      /\ \A c \in Currency : Moves(x, z, c, PoolHolds(r, c) - PoolHolds(x.markets[m], c))
  BY <1>5, <1>6, ClosingReplaces
<1>8. PICK b : b = PayEventFees(x.books, r.poolAmount, r.currency)
  OBVIOUS
<1>9. PICK fee : fee = Percent(r.poolAmount, 5)
  OBVIOUS
<1>10. /\ r.poolAmount \in Nat /\ NetPool(r) \in Nat /\ fee \in Nat /\ r.currency \in Currency
  BY <1>4, <1>9, FeesSlight, MarketTypes
<1>11. /\ b \in BooksSet
       /\ \A c \in Currency : Holdings(b, c) = Holdings(x.books, c) + (IF c = r.currency THEN 2 * fee ELSE 0)
  BY <1>2, <1>8, <1>9, <1>10, PayEventFeesFit
<1>12. y = WithBooks(z, b)
  BY <1>6, <1>8
<1>13. StoreFits(z) /\ z.books = x.books /\ z.markets = ms /\ z.threw = x.threw /\ z.duels = x.duels
  BY <1>7 DEF MarketsOnly
<1>14. BooksOnly(z, y, b)
  BY <1>11, <1>12, <1>13, StoreBooks
<1>15. ASSUME NEW c \in Currency
       PROVE  Moves(x, y, c, IF c = r.currency
                             THEN NetPool(r) + 2 * fee - r.poolAmount - Unclaimed(r, c)
                             ELSE 0)
  <2>1. PICK n : n = IF c = r.currency THEN 2 * fee ELSE 0
    OBVIOUS
  <2>2. n \in Int
    BY <1>10, <2>1
  <2>3. Moves(z, y, c, n)
    <3>1. Holdings(b, c) = Holdings(z.books, c) + n
      BY <1>11, <1>13, <2>1
    <3> QED
      BY <1>11, <1>13, <1>14, <2>2, <3>1, BooksMove
  <2>4. PICK k : k = PoolHolds(r, c) - PoolHolds(x.markets[m], c)
    OBVIOUS
  <2>5. k = IF c = r.currency THEN NetPool(r) - Unclaimed(r, c) - r.poolAmount ELSE 0
    <3>1. PoolHolds(x.markets[m], c) = IF c = r.currency THEN r.poolAmount ELSE 0
      BY <1>1, <1>4 DEF PoolHolds
    <3>2. PoolHolds(r, c) = IF c = r.currency THEN NetPool(r) - Unclaimed(r, c) ELSE 0
      BY <1>4, <1>10 DEF PoolHolds, Unclaimed
    <3> QED
      BY <1>10, <2>4, <3>1, <3>2
  <2>6. Moves(x, z, c, k)
    BY <1>7, <2>4
  <2>7. Total(x, c) \in Int
    BY TotalInt
  <2>8. Unclaimed(r, c) \in Int
    BY <1>10 DEF Unclaimed
  <2>9. k \in Int
    BY <1>10, <2>5, <2>8
  <2>10. Moves(x, y, c, k + n)
    BY <2>2, <2>3, <2>6, <2>7, <2>9 DEF Moves
  <2>11. k + n = IF c = r.currency THEN NetPool(r) + 2 * fee - r.poolAmount - Unclaimed(r, c) ELSE 0
    BY <1>10, <2>1, <2>5, <2>8
  <2> QED
    BY <2>10, <2>11
<1>16. StoreFits(y) /\ y.threw = x.threw /\ y.duels = x.duels /\ y.markets = ms
  BY <1>13, <1>14 DEF BooksOnly
<1> QED
  BY <1>1, <1>4, <1>7, <1>9, <1>15, <1>16

\* A market is closed, its LYNX is minted, its duels end, and what no claim
\* will take is swept.
LEMMA ResolveEnds ==
  ASSUME NEW x, NEW m, NEW r, NEW a, NEW result, NEW ms, NEW b, NEW d, NEW y,
         StoreFits(x), m \in Markets, result \in Position,
         x.markets[m].status # "RESOLVED", Closing(x, m, result, r, ms),
         a = WithBooks(WithMarkets(x, ms), PayEventFees(x.books, r.poolAmount, r.currency)),
         b = mintLynxForSolvedSolMarket(a, m), d = resolveDuelsForMarket(b, m),
         y = SweepWithoutWinners(d, m)
  PROVE  Ends(x, y, m)
<1>1. PICK fees : fees = NetPool(r) + 2 * Percent(r.poolAmount, 5) - r.poolAmount
  OBVIOUS
<1>2. /\ StoreFits(a) /\ a.threw = x.threw /\ a.duels = x.duels /\ a.markets = ms
      /\ OnlyMarket(m, x.markets, ms) /\ ms[m] = r
      /\ r \in MarketRecord /\ r.currency = x.markets[m].currency
      /\ r.poolAmount = x.markets[m].poolAmount /\ r.result = result /\ r.status = "RESOLVED"
      /\ \A c \in Currency : Moves(x, a, c, IF c = r.currency THEN fees - Unclaimed(r, c) ELSE 0)
  <2>1. /\ StoreFits(a) /\ a.threw = x.threw /\ a.duels = x.duels /\ a.markets = ms
        /\ OnlyMarket(m, x.markets, ms) /\ ms[m] = r
        /\ r \in MarketRecord /\ r.currency = x.markets[m].currency
        /\ r.poolAmount = x.markets[m].poolAmount /\ r.result = result /\ r.status = "RESOLVED"
        /\ \A c \in Currency :
             Moves(x, a, c, IF c = r.currency
                            THEN NetPool(r) + 2 * Percent(r.poolAmount, 5) - r.poolAmount
                                 - Unclaimed(r, c)
                            ELSE 0)
    BY MarketCloses
  <2>2. ASSUME NEW c \in Currency
        PROVE  Moves(x, a, c, IF c = r.currency THEN fees - Unclaimed(r, c) ELSE 0)
    <3>1. CASE c = r.currency
      <4>1. Moves(x, a, c, NetPool(r) + 2 * Percent(r.poolAmount, 5) - r.poolAmount - Unclaimed(r, c))
        BY <2>1, <3>1
      <4>2. /\ r.poolAmount \in Nat /\ NetPool(r) \in Nat /\ Percent(r.poolAmount, 5) \in Nat
            /\ Unclaimed(r, c) \in Int /\ fees \in Int
        BY <1>1, <2>1, FeesSlight DEF Unclaimed
      <4>3. NetPool(r) + 2 * Percent(r.poolAmount, 5) - r.poolAmount - Unclaimed(r, c) = fees - Unclaimed(r, c)
        BY <1>1, <4>2
      <4>4. Moves(x, a, c, fees - Unclaimed(r, c))
        BY <4>1, <4>2, <4>3
      <4> QED
        BY <3>1, <4>4
    <3>2. CASE c # r.currency
      BY <2>1, <3>2
    <3> QED
      BY <3>1, <3>2
  <2> QED
    BY <2>1, <2>2
<1>3. MoneyOnly(a, b) /\ MintSlips(a, b, m)
  BY <1>2, MintFits
<1>4. StoreFits(b) /\ b.threw = x.threw /\ b.duels = x.duels /\ b.markets = ms
  BY <1>2, <1>3 DEF MoneyOnly
<1>5. d \in DuelsTo(b)
  BY <1>4, DuelsResolve
<1>6. /\ StoreFits(d) /\ d.threw = x.threw /\ d.markets = ms /\ DOMAIN d.duels = DOMAIN x.duels
      /\ \A c \in Currency : Moves(b, d, c, 0)
      /\ \A i \in DOMAIN x.duels :
           /\ d.duels[i].market = x.duels[i].market
           /\ d.duels[i].status \in Entering => d.duels[i].status = x.duels[i].status
  BY <1>4, <1>5 DEF DuelsTo
<1>7. d.markets[m].result \in Position /\ d.markets[m] = r
  BY <1>2, <1>6
<1>8. MoneyOnly(d, y) /\ \A c \in Currency : Moves(d, y, c, Unclaimed(r, c))
  BY <1>6, <1>7, SweepFits
<1>9. StoreFits(y) /\ y.threw = x.threw /\ y.markets = ms /\ y.duels = d.duels
  BY <1>6, <1>8 DEF MoneyOnly
<1>10. ASSUME NEW c \in Currency
       PROVE  \E n \in Int : Slight(n) /\ Moves(x, y, c, n)
  <2>1. PICK un : un = Unclaimed(r, c)
    OBVIOUS
  <2>2. PICK k : k = IF c = r.currency THEN fees - un ELSE 0
    OBVIOUS
  <2>3. PICK n \in Int : Moves(a, b, c, n) /\ Slight(n) /\ (c = a.markets[m].currency => n = 0)
    BY <1>3 DEF MintSlips
  <2>4. c = r.currency => n = 0
    BY <1>2, <2>3
  <2>5. /\ r.poolAmount \in Nat /\ NetPool(r) \in Nat /\ Percent(r.poolAmount, 5) \in Nat
        /\ Slight(fees)
    BY <1>1, <1>2, FeesSlight
  <2>6. fees \in Int /\ un \in Int
    BY <1>1, <2>1, <2>5 DEF Unclaimed
  <2>7. c # r.currency => un = 0
    BY <2>1 DEF Unclaimed
  <2>8. Moves(x, a, c, k) /\ Moves(b, d, c, 0) /\ Moves(d, y, c, un)
    BY <1>2, <1>6, <1>8, <2>1, <2>2
  <2>9. Total(x, c) \in Int /\ k \in Int
    BY <2>2, <2>6, TotalInt
  <2>10. Moves(x, y, c, k + n + un)
    BY <2>3, <2>6, <2>8, <2>9 DEF Moves
  <2>11. CASE c = r.currency
    <3>1. k + n + un = fees
      BY <2>2, <2>4, <2>6, <2>11
    <3> QED
      BY <2>5, <2>6, <2>10, <3>1
  <2>12. CASE c # r.currency
    <3>1. k + n + un = n
      BY <2>2, <2>3, <2>7, <2>12
    <3> QED
      BY <2>3, <2>10, <3>1
  <2> QED
    BY <2>11, <2>12
<1>11. ASSUME NEW k \in Markets PROVE Untouched(x, y, k)
  <2>1. y.markets[k].poolAmount = x.markets[k].poolAmount
    BY <1>2, <1>9 DEF OnlyMarket
  <2> QED
    BY <1>6, <1>9, <2>1 DEF Untouched
<1> QED
  BY <1>2, <1>9, <1>10, <1>11 DEF Ends

LEMMA ResolveSteps ==
  ASSUME StoreFits(Store), NEW m \in Markets, NEW result \in Position, resolveMarket(m, result)
  PROVE  Ends(Store, Store', m) /\ pastCutoff' = pastCutoff
<1>1. PICK x : x = Store
  OBVIOUS
<1>2. /\ x.markets = markets /\ x.books = Books /\ StoreFits(x) /\ x \in StoreSet
      /\ markets \in [Markets -> MarketRecord] /\ Books \in BooksSet
  BY <1>1, StoreIs
<1>3. PICK market : market = markets[m]
  OBVIOUS
<1>4. PICK r : r = [market EXCEPT !.status = "RESOLVED", !.result = result]
  OBVIOUS
<1>5. PICK ms : ms = [markets EXCEPT ![m] = r]
  OBVIOUS
<1>6. Closing(x, m, result, r, ms)
  BY <1>2, <1>3, <1>4, <1>5 DEF Closing
<1>7. PICK closed : closed = WithMarkets(x, ms)
  OBVIOUS
<1>8. closed = [x EXCEPT !.markets[m] = r]
  BY <1>2, <1>5, <1>7 DEF WithMarkets
<1>9. closed.books = x.books
  <2>1. closed = [books |-> x.books, orders |-> x.orders, trades |-> x.trades,
                  threw |-> x.threw, markets |-> ms,
                  positions |-> x.positions, duels |-> x.duels]
    BY <1>2, <1>7, WithMarketsIs
  <2> QED
    BY <2>1
<1>10. r.poolAmount = market.poolAmount /\ r.currency = market.currency
  <2>1. market = [currency |-> market.currency, isTernary |-> market.isTernary,
                  status |-> market.status, poolAmount |-> market.poolAmount,
                  side |-> market.side, result |-> market.result]
    BY <1>2, <1>3, MarketIs
  <2>2. r = [currency |-> market.currency, isTernary |-> market.isTernary, status |-> "RESOLVED",
             poolAmount |-> market.poolAmount, side |-> market.side, result |-> result]
    BY <1>4, <2>1
  <2> QED
    BY <2>2
<1>11. PICK a : a = WithBooks(closed, PayEventFees(x.books, r.poolAmount, r.currency))
  OBVIOUS
<1>12. PICK b : b = mintLynxForSolvedSolMarket(a, m)
  OBVIOUS
<1>13. PICK d : d = resolveDuelsForMarket(b, m)
  OBVIOUS
<1>14. PICK y : y = SweepWithoutWinners(d, m)
  OBVIOUS
<1>15. markets[m].status # "RESOLVED"
  BY DEF resolveMarket
<1>16. SetStore(y)
  <2>1. /\ closed = [Store EXCEPT !.markets[m] = [market EXCEPT !.status = "RESOLVED", !.result = result]]
        /\ a = [closed EXCEPT !.books = PayEventFees(@, market.poolAmount, market.currency)]
    <3>1. a = WithBooks(closed, PayEventFees(closed.books, market.poolAmount, market.currency))
      BY <1>9, <1>10, <1>11
    <3>2. a = [closed EXCEPT !.books = PayEventFees(@, market.poolAmount, market.currency)]
      BY <3>1 DEF WithBooks
    <3> QED
      BY <1>1, <1>4, <1>8, <3>2
  <2> QED
    BY <1>3, <1>12, <1>13, <1>14, <2>1 DEF resolveMarket
<1>17. Ends(x, y, m)
  <2>1. a = WithBooks(WithMarkets(x, ms), PayEventFees(x.books, r.poolAmount, r.currency))
    BY <1>7, <1>11
  <2>2. x.markets[m].status # "RESOLVED"
    BY <1>2, <1>15
  <2> QED
    BY <1>2, <1>6, <1>12, <1>13, <1>14, <2>1, <2>2, ResolveEnds
<1>18. Store' = y /\ pastCutoff' = pastCutoff
  <2>1. y \in StoreSet
    BY <1>17 DEF Ends, StoreFits
  <2> QED
    BY <1>16, <2>1, StoreBecomes
<1> QED
  BY <1>1, <1>17, <1>18

-----------------------------------------------------------------------------
(* The inductive invariant                                                   *)

Opened(w, c) == OpeningBalance[w].balance[c] + IF c = "LYNX" THEN OpeningBalance[w].staked ELSE 0
Opening(c) == SumFunctionOnSet([w \in Wallets |-> Opened(w, c)], Wallets)

Ended(ms) == {m \in Markets : ms[m].status = "RESOLVED"}

\* What the store holds is what was brought in, but for three halves of a unit
\* of every resolution and the unit a buyer may end above its lock.
Between(n, lost, gained) == n \in Int /\ 0 - lost <= 2 * n /\ 2 * n <= gained
BalancesIn(x, c) ==
  Between(Total(x, c) - Opening(c), 3 * Cardinality(Ended(x.markets)),
          3 * Cardinality(Ended(x.markets)) + 2 * OrdersSlack(x.orders, c))
Balanced(x) == x.threw \/ \A c \in Currency : BalancesIn(x, c)

MarketInv == StoreFits(Store) /\ Balanced(Store)

LEMMA OpeningInt ==
  ASSUME NEW c \in Currency
  PROVE  Opening(c) \in Int /\ \A w \in Wallets : Opened(w, c) \in Int
<1>1. ASSUME NEW w \in Wallets PROVE Opened(w, c) \in Int
  <2>1. OpeningBalance[w] \in [balance : [{"SOL", "LYNX"} -> Nat], staked : Nat]
    BY LedgerAssumption DEF Wallets
  <2>2. OpeningBalance[w].balance[c] \in Nat /\ OpeningBalance[w].staked \in Nat
    BY <2>1 DEF Currency
  <2> QED
    BY <2>2 DEF Opened
<1> DEFINE f == [w \in Wallets |-> Opened(w, c)]
<1>2. \A w \in Wallets : f[w] \in Int
  BY <1>1
<1>3. Opening(c) = SumFunctionOnSet(f, Wallets)
  BY DEF Opening
<1> HIDE DEF f
<1> QED
  BY <1>1, <1>2, <1>3, WalletsFinite, SumInt

LEMMA EndedFinite ==
  ASSUME NEW ms
  PROVE  IsFiniteSet(Ended(ms)) /\ Cardinality(Ended(ms)) \in Nat
<1>1. Ended(ms) \subseteq Markets /\ IsFiniteSet(Markets)
  BY MarketAssumption DEF Ended
<1> QED
  BY <1>1, FS_Subset, FS_CardinalityType

LEMMA BooksInit ==
  ASSUME LedgerInit, NEW c \in Currency
  PROVE  Books \in BooksSet /\ Holdings(Books, c) = Opening(c)
<1>1. treasury = EmptyTreasury /\ Books.treasury = treasury /\ Books.wallets = wallets
  BY DEF LedgerInit, Books
<1>2. treasury \in Treasury /\ Books.treasury[c] = 0 /\ getCirculatingSupply(Books) = 0
  BY <1>1 DEF Treasury, EmptyTreasury, getCirculatingSupply, Currency
<1>3. ASSUME NEW w \in Wallets
      PROVE  wallets[w] \in Wallet /\ WalletHolds(Books, w, c) = Opened(w, c)
  <2>1. PICK b : b = OpeningBalance[w]
    OBVIOUS
  <2>2. b \in [balance : [{"SOL", "LYNX"} -> Nat], staked : Nat]
    BY <2>1, LedgerAssumption DEF Wallets
  <2>3. b.balance \in [Currency -> Nat] /\ b.staked \in Nat
    BY <2>2 DEF Currency
  <2>4. wallets[w] = [balance |-> b.balance, staked |-> b.staked, rewards |-> [d \in Currency |-> 0]]
    BY <2>1 DEF LedgerInit
  <2>5. wallets[w] \in Wallet
    BY <2>3, <2>4 DEF Wallet
  <2>6. /\ wallets[w].balance[c] = b.balance[c] /\ wallets[w].rewards[c] = 0
        /\ wallets[w].staked = b.staked /\ b.balance[c] \in Nat
    BY <2>3, <2>4
  <2>7. WalletHolds(Books, w, c) = Opened(w, c)
    BY <1>1, <2>1, <2>3, <2>6 DEF WalletHolds, Opened
  <2> QED
    BY <2>5, <2>7
<1>4. Books \in BooksSet
  <2>1. DOMAIN wallets = Wallets /\ wallets = [w \in Wallets |-> wallets[w]]
    BY DEF LedgerInit
  <2>2. wallets \in [Wallets -> Wallet]
    BY <1>3, <2>1
  <2> QED
    BY <1>2, <2>2 DEF Books, BooksSet
<1>5. SumFunctionOnSet([w \in Wallets |-> WalletHolds(Books, w, c)], Wallets) = Opening(c)
  <2> DEFINE f == [w \in Wallets |-> WalletHolds(Books, w, c)]
             g == [w \in Wallets |-> Opened(w, c)]
  <2>1. \A w \in Wallets : f[w] = g[w]
    BY <1>3
  <2>2. Opening(c) = SumFunctionOnSet(g, Wallets)
    BY DEF Opening
  <2> HIDE DEF f, g
  <2>3. SumFunctionOnSet(f, Wallets) = SumFunctionOnSet(g, Wallets)
    BY <2>1, WalletsFinite, SumSame
  <2> QED
    BY <2>2, <2>3 DEF f
<1> QED
  BY <1>2, <1>4, <1>5, OpeningInt DEF Holdings

LEMMA MarketInvInit ==
  ASSUME MarketInit
  PROVE  MarketInv
<1>1. /\ LedgerInit /\ orders = << >> /\ trades = << >> /\ threw = FALSE
      /\ positions = << >> /\ duels = << >>
  BY DEF MarketInit, BookInit
<1>2. PICK x : x = Store
  OBVIOUS
<1>3. /\ x.books = Books /\ x.orders = << >> /\ x.trades = << >> /\ x.threw = FALSE
      /\ x.markets = markets /\ x.positions = << >> /\ x.duels = << >>
  BY <1>1, <1>2 DEF Store
<1>4. ASSUME NEW m \in Markets
      PROVE  /\ markets[m] \in MarketRecord /\ markets[m].status = "OPEN"
             /\ markets[m].poolAmount = 0 /\ \A p \in Position : markets[m].side[p] = 0
  <2>1. PICK k \in MarketKinds :
          markets[m] = [currency |-> k.currency, isTernary |-> k.isTernary,
                        status |-> "OPEN", poolAmount |-> 0,
                        side |-> [p \in Position |-> 0], result |-> NoResult]
    BY DEF MarketInit
  <2>2. k.currency \in Currency /\ k.isTernary \in BOOLEAN
    BY MarketAssumption
  <2> QED
    BY <2>1, <2>2 DEF MarketRecord
<1>5. markets \in [Markets -> MarketRecord]
  <2>1. DOMAIN markets = Markets /\ markets = [m \in Markets |-> markets[m]]
    BY DEF MarketInit
  <2> QED
    BY <1>4, <2>1
<1>6. \A c \in Currency : Books \in BooksSet /\ Holdings(Books, c) = Opening(c)
  BY <1>1, BooksInit
<1>7. Books \in BooksSet
  <2>1. "SOL" \in Currency
    BY DEF Currency
  <2> QED
    BY <1>6, <2>1
<1>8. x \in StoreSet
  <2>1. /\ << >> \in Seq(Order) /\ << >> \in Seq(TradeRecord)
        /\ << >> \in Seq(PositionRecord) /\ << >> \in Seq(DuelRecord)
    BY EmptySeq
  <2>2. x = [books |-> Books, orders |-> << >>, trades |-> << >>, threw |-> FALSE,
             markets |-> markets, positions |-> << >>, duels |-> << >>]
    BY <1>1, <1>2 DEF Store
  <2>3. FALSE \in BOOLEAN
    OBVIOUS
  <2> QED
    BY <1>5, <1>7, <2>1, <2>2, <2>3, StoreMade
<1>9. /\ DOMAIN x.orders = {} /\ DOMAIN x.positions = {} /\ DOMAIN x.duels = {}
  BY <1>3
<1>10. StoreFits(x)
  <2>1. Uncrossed(x.orders) /\ \A j \in DOMAIN x.orders : ~Overspent(x.orders[j])
    BY <1>9 DEF Uncrossed
  <2>2. LocksFit(x.markets, x.orders) /\ DuelsFit(x.markets, x.duels) /\ ClaimsFit(x.markets, x.positions)
    BY <1>9 DEF LocksFit, DuelsFit, ClaimsFit
  <2>3. PoolsFit(x.markets, x.positions)
    <3>1. ASSUME NEW m \in Markets, NEW p \in Position PROVE Weighs(x.positions, m, p) = 0
      BY <1>9, SumEmpty DEF Weighs
    <3>2. ASSUME NEW m \in Markets PROVE PaysIn(x.positions, m) = 0
      BY <1>9, SumEmpty DEF PaysIn
    <3> QED
      BY <1>3, <1>4, <3>1, <3>2 DEF PoolsFit
  <2> QED
    BY <1>8, <2>1, <2>2, <2>3 DEF StoreFits
<1>11. ASSUME NEW c \in Currency PROVE Total(x, c) = Opening(c)
  <2>1. OrdersHold(x.orders, c) = 0
    BY <1>9, SumEmpty DEF OrdersHold
  <2>2. DuelsHold(x.markets, x.duels, c) = 0
    BY <1>9, SumEmpty DEF DuelsHold
  <2>3. ClaimsTook(x.markets, x.positions, c) = 0
    BY <1>9, SumEmpty DEF ClaimsTook
  <2>4. PoolsHold(x.markets, c) = 0
    <3> DEFINE f == [m \in Markets |-> PoolHolds(x.markets[m], c)]
    <3>1. \A m \in Markets : f[m] = 0
      BY <1>3, <1>4 DEF PoolHolds
    <3> HIDE DEF f
    <3>2. SumFunctionOnSet(f, Markets) = 0
      BY <3>1, SumZero, MarketAssumption
    <3> QED
      BY <3>2 DEF PoolsHold, f
  <2>5. Holdings(x.books, c) = Opening(c)
    BY <1>3, <1>6
  <2> QED
    BY <2>1, <2>2, <2>3, <2>4, <2>5, OpeningInt, TotalIs
<1>12. ASSUME NEW c \in Currency PROVE BalancesIn(x, c)
  <2>1. Cardinality(Ended(x.markets)) \in Nat
    BY EndedFinite
  <2>2. OrdersSlack(x.orders, c) = 0
    BY <1>9, SumEmpty DEF OrdersSlack
  <2>3. Total(x, c) - Opening(c) = 0
    BY <1>11, OpeningInt
  <2> QED
    BY <2>1, <2>2, <2>3 DEF BalancesIn, Between
<1> QED
  BY <1>2, <1>10, <1>12 DEF MarketInv, Balanced

\* A step that keeps the money keeps the balance.
LEMMA StepsBalance ==
  ASSUME NEW x, NEW y, StoreFits(x), StoreSteps(x, y), Balanced(x)
  PROVE  Balanced(y)
<1>1. Ended(y.markets) = Ended(x.markets) /\ (y.threw <=> x.threw)
  BY DEF StoreSteps, SameEnds, Ended
<1>2. ASSUME NEW c \in Currency, BalancesIn(x, c)
      PROVE  BalancesIn(y, c)
  <2>1. Moves(x, y, c, 0)
    BY DEF StoreSteps
  <2>2. Total(y, c) = Total(x, c) /\ OrdersSlack(y.orders, c) = OrdersSlack(x.orders, c)
    BY <2>1, TotalInt DEF Moves
  <2> QED
    BY <1>1, <1>2, <2>2 DEF BalancesIn
<1> QED
  BY <1>1, <1>2 DEF Balanced

LEMMA TradesBalance ==
  ASSUME NEW x, NEW y, StoreFits(x), StoreFits(y), Balanced(x), y.threw \/ MoneyKept(x, y),
         x.threw => y.threw, y.markets = x.markets
  PROVE  Balanced(y)
<1>1. ASSUME NEW c \in Currency, BalancesIn(x, c), MoneyKept(x, y)
      PROVE  BalancesIn(y, c)
  <2>1. /\ Total(x, c) <= Total(y, c)
        /\ Total(y, c) - OrdersSlack(y.orders, c) <= Total(x, c) - OrdersSlack(x.orders, c)
    BY <1>1 DEF MoneyKept
  <2>2. Total(x, c) \in Int /\ Total(y, c) \in Int /\ Opening(c) \in Int
    BY TotalInt, OpeningInt
  <2>3. x.orders \in Seq(Order) /\ y.orders \in Seq(Order)
    BY StoreTypes DEF StoreFits
  <2>4. OrdersSlack(x.orders, c) \in Nat /\ OrdersSlack(y.orders, c) \in Nat
    BY <2>3, OrdersHoldInt
  <2>5. Cardinality(Ended(x.markets)) \in Nat
    BY EndedFinite
  <2>6. /\ 0 - 3 * Cardinality(Ended(x.markets)) <= 2 * (Total(x, c) - Opening(c))
        /\ 2 * (Total(x, c) - Opening(c))
             <= 3 * Cardinality(Ended(x.markets)) + 2 * OrdersSlack(x.orders, c)
    BY <1>1 DEF BalancesIn, Between
  <2>7. PICK r : r = Cardinality(Ended(x.markets))
    OBVIOUS
  <2>8. Between(Total(y, c) - Opening(c), 3 * r, 3 * r + 2 * OrdersSlack(y.orders, c))
    BY <2>1, <2>2, <2>4, <2>5, <2>6, <2>7 DEF Between
  <2> QED
    BY <2>7, <2>8 DEF BalancesIn
<1> QED
  BY <1>1 DEF Balanced

LEMMA EndsBalance ==
  ASSUME NEW x, NEW y, NEW m, m \in Markets, StoreFits(x), Ends(x, y, m), Balanced(x)
  PROVE  Balanced(y)
<1>1. /\ StoreFits(y) /\ y.threw = x.threw /\ OnlyMarket(m, x.markets, y.markets)
      /\ x.markets[m].status # "RESOLVED" /\ y.markets[m].status = "RESOLVED"
  BY DEF Ends
<1>2. Ended(y.markets) = Ended(x.markets) \cup {m} /\ m \notin Ended(x.markets)
  BY <1>1 DEF Ended, OnlyMarket
<1>3. /\ Cardinality(Ended(x.markets)) \in Nat
      /\ Cardinality(Ended(y.markets)) = Cardinality(Ended(x.markets)) + 1
  BY <1>2, EndedFinite, FS_AddElement
<1>4. ASSUME NEW c \in Currency, BalancesIn(x, c)
      PROVE  BalancesIn(y, c)
  <2>1. PICK n \in Int : Slight(n) /\ Moves(x, y, c, n)
    BY DEF Ends
  <2>2. Total(y, c) = Total(x, c) + n /\ OrdersSlack(y.orders, c) = OrdersSlack(x.orders, c)
    BY <2>1 DEF Moves
  <2>3. Total(x, c) \in Int /\ Opening(c) \in Int
    BY TotalInt, OpeningInt
  <2>4. x.orders \in Seq(Order)
    BY StoreTypes DEF StoreFits
  <2>5. OrdersSlack(x.orders, c) \in Nat
    BY <2>4, OrdersHoldInt
  <2>6. PICK r : r = Cardinality(Ended(x.markets))
    OBVIOUS
  <2>7. /\ 0 - 3 * r <= 2 * (Total(x, c) - Opening(c))
        /\ 2 * (Total(x, c) - Opening(c)) <= 3 * r + 2 * OrdersSlack(x.orders, c)
    BY <1>4, <2>6 DEF BalancesIn, Between
  <2>8. 0 - 3 <= 2 * n /\ 2 * n <= 3
    BY <2>1 DEF Slight
  <2>9. r \in Nat
    BY <1>3, <2>6
  <2>10. Between(Total(y, c) - Opening(c), 3 * (r + 1), 3 * (r + 1) + 2 * OrdersSlack(y.orders, c))
    BY <2>2, <2>3, <2>5, <2>7, <2>8, <2>9 DEF Between
  <2> QED
    BY <1>3, <2>6, <2>10 DEF BalancesIn
<1> QED
  BY <1>1, <1>4 DEF Balanced

\* What a step leaves true of the store, and of the markets that take no entries.
Advances ==
  /\ StoreFits(Store') /\ Balanced(Store')
  /\ \A k \in Markets : AcceptsEntries(k) \/ Untouched(Store, Store', k)

LEMMA StepAdvances ==
  ASSUME MarketInv, StoreSteps(Store, Store')
  PROVE  Advances
<1>1. StoreFits(Store) /\ Balanced(Store)
  BY DEF MarketInv
<1>2. Balanced(Store')
  BY <1>1, StepsBalance
<1> QED
  BY <1>2 DEF StoreSteps, Advances

LEMMA TradeAdvances ==
  ASSUME MarketInv, Trade
  PROVE  Advances
<1>1. StoreFits(Store) /\ Balanced(Store)
  BY DEF MarketInv
<1>2. /\ StoreFits(Store') /\ (threw' \/ MoneyKept(Store, Store')) /\ (threw => threw')
      /\ markets' = markets /\ duels' = duels
  BY <1>1, TradeSteps
<1>3. /\ Store.threw = threw /\ Store'.threw = threw' /\ Store.markets = markets
      /\ Store'.markets = markets' /\ Store.duels = duels /\ Store'.duels = duels'
  BY DEF Store
<1>4. Balanced(Store')
  BY <1>1, <1>2, <1>3, TradesBalance
<1>5. \A k \in Markets : Untouched(Store, Store', k)
  BY <1>2, <1>3 DEF Untouched
<1> QED
  BY <1>2, <1>4, <1>5 DEF Advances

LEMMA ResolveAdvances ==
  ASSUME MarketInv, NEW m \in Markets, NEW result \in Position, resolveMarket(m, result)
  PROVE  Advances
<1>1. StoreFits(Store) /\ Balanced(Store)
  BY DEF MarketInv
<1>2. Ends(Store, Store', m)
  BY <1>1, ResolveSteps
<1>3. Balanced(Store')
  BY <1>1, <1>2, EndsBalance
<1> QED
  BY <1>2, <1>3 DEF Ends, Advances

LEMMA StutterAdvances ==
  ASSUME MarketInv, UNCHANGED storeVars
  PROVE  Advances
<1>1. Store' = Store
  BY DEF storeVars, bookVars, marketVars, Store, Books
<1>2. \A k \in Markets : Untouched(Store, Store, k)
  <2>1. PICK x : x = Store
    OBVIOUS
  <2>2. \A k \in Markets : Untouched(x, x, k)
    BY DEF Untouched
  <2> QED
    BY <2>1, <2>2
<1> QED
  BY <1>1, <1>2 DEF MarketInv, Advances

LEMMA EnterAdvances ==
  ASSUME MarketInv, Enter
  PROVE  Advances
<1>1. StoreFits(Store)
  BY DEF MarketInv
<1>2. ASSUME NEW m \in Markets, NEW w \in Wallets \ {TREASURY_WALLET}, NEW amount \in MarketAmounts,
             NEW p \in Sides(m), executePredictionTrade(w, m, p, amount)
      PROVE  Advances
  BY <1>1, <1>2, TradeEnters, StepAdvances
<1>3. ASSUME NEW m \in Markets, NEW w \in Wallets \ {TREASURY_WALLET}, NEW amount \in MarketAmounts,
             NEW p \in Sides(m), NEW limit \in LimitOdds \cup {NoPrice},
             placePredictionOrder(w, m, p, amount, limit)
      PROVE  Advances
  BY <1>1, <1>3, OrderEnters, StepAdvances
<1> QED
  BY <1>2, <1>3 DEF Enter

LEMMA DuelAdvances ==
  ASSUME MarketInv, Duel
  PROVE  Advances
<1>1. StoreFits(Store)
  BY DEF MarketInv
<1>2. ASSUME NEW m \in Markets, NEW w \in Wallets \ {TREASURY_WALLET}, NEW amount \in MarketAmounts,
             NEW p \in Sides(m), createDuel(w, m, p, amount)
      PROVE  Advances
  BY <1>1, <1>2, DuelCreates, StepAdvances
<1>3. ASSUME NEW d \in DOMAIN duels, cancelDuel(d)
      PROVE  Advances
  BY <1>1, <1>3, DuelCancels, StepAdvances
<1>4. ASSUME NEW d \in DOMAIN duels, NEW w \in Wallets \ {TREASURY_WALLET},
             NEW p \in Sides(duels[d].market), acceptDuel(w, d, p)
      PROVE  Advances
  <2>1. p \in Position
    BY SidesIn
  <2> QED
    BY <1>1, <1>4, <2>1, DuelAccepts, StepAdvances
<1> QED
  BY <1>2, <1>3, <1>4 DEF Duel

LEMMA UseAdvances ==
  ASSUME MarketInv, UsePosition
  PROVE  Advances
<1>1. StoreFits(Store)
  BY DEF MarketInv
<1>2. ASSUME NEW i \in DOMAIN positions, claimPosition(i)
      PROVE  Advances
  BY <1>1, <1>2, ClaimSteps, StepAdvances
<1>3. ASSUME NEW i \in DOMAIN positions, NEW lynx \in BoostAmounts, boostPositionWithLynxBurn(i, lynx)
      PROVE  Advances
  BY <1>1, <1>3, BoostSteps, StepAdvances
<1> QED
  BY <1>2, <1>3 DEF UsePosition

LEMMA CloseAdvances ==
  ASSUME MarketInv, CloseMarket
  PROVE  Advances
<1>1. StoreFits(Store)
  BY DEF MarketInv
<1>2. ASSUME NEW m \in Markets, cutOffMarket(m) PROVE Advances
  BY <1>1, <1>2, CutOffSteps, StepAdvances
<1>3. ASSUME NEW m \in Markets, CutoffPasses(m) PROVE Advances
  BY <1>1, <1>3, ClockSteps, StepAdvances
<1>4. ASSUME NEW m \in Markets, reconcileMarketStatus(m) PROVE Advances
  BY <1>1, <1>4, ReconcileSteps, StepAdvances
<1>5. ASSUME NEW m \in Markets, NEW result \in Sides(m), resolveMarket(m, result) PROVE Advances
  BY <1>5, SidesIn, ResolveAdvances
<1> QED
  BY <1>2, <1>3, <1>4, <1>5 DEF CloseMarket

LEMMA StakeAdvances ==
  ASSUME MarketInv, Stake
  PROVE  Advances
<1>1. StoreFits(Store)
  BY DEF MarketInv
<1>2. UNCHANGED <<orders, trades, threw, marketVars>>
  BY DEF Stake
<1>3. PICK w \in Wallets, amount \in MarketAmounts :
        stake(w, amount) \/ unstake(w, amount) \/ claimRewards(w)
  BY DEF Stake
<1>4. CASE stake(w, amount)
  BY <1>1, <1>2, <1>4, StakeSteps, StepAdvances
<1>5. CASE unstake(w, amount)
  BY <1>1, <1>2, <1>5, UnstakeSteps, StepAdvances
<1>6. CASE claimRewards(w)
  BY <1>1, <1>2, <1>6, RewardSteps, StepAdvances
<1> QED
  BY <1>3, <1>4, <1>5, <1>6

LEMMA MarketAdvances ==
  ASSUME MarketInv, [MarketNext]_storeVars
  PROVE  Advances
<1>1. CASE Trade
  BY <1>1, TradeAdvances
<1>2. CASE Enter
  BY <1>2, EnterAdvances
<1>3. CASE Duel
  BY <1>3, DuelAdvances
<1>4. CASE UsePosition
  BY <1>4, UseAdvances
<1>5. CASE CloseMarket
  BY <1>5, CloseAdvances
<1>6. CASE Stake
  BY <1>6, StakeAdvances
<1>7. CASE UNCHANGED storeVars
  BY <1>7, StutterAdvances
<1> QED
  BY <1>1, <1>2, <1>3, <1>4, <1>5, <1>6, <1>7 DEF MarketNext

LEMMA MarketInvNext ==
  ASSUME MarketInv, [MarketNext]_storeVars
  PROVE  MarketInv'
<1>1. StoreFits(Store') /\ Balanced(Store')
  BY MarketAdvances DEF Advances
<1> QED
  BY <1>1 DEF MarketInv

\* The invariant of the legacy engine: LynxState's store stays well formed and
\* its money balances.
THEOREM MarketInvariant == MarketSpec => []MarketInv
<1>1. MarketInit => MarketInv
  BY MarketInvInit
<1>2. MarketInv /\ [MarketNext]_storeVars => MarketInv'
  BY MarketInvNext
<1> QED
  BY <1>1, <1>2, PTL DEF MarketSpec

\* NoEntryAfterCutoff holds of every behaviour: no entry, fill or duel of
\* LynxState reaches a market that is past its cutoff or closed.
THEOREM EntriesStop == MarketSpec => NoEntryAfterCutoff
<1> DEFINE Stops ==
      \A m \in Markets :
        m \in pastCutoff \/ markets[m].status \in {"CUT_OFF", "RESOLVED"} =>
        /\ markets'[m].poolAmount = markets[m].poolAmount
        /\ \A d \in DOMAIN duels' :
             duels'[d].market = m /\ duels'[d].status \in {"OPEN", "ACTIVE"}
             => d \in DOMAIN duels /\ duels[d].status = duels'[d].status
<1>1. ASSUME MarketInv, [MarketNext]_storeVars PROVE Stops
  <2>1. \A k \in Markets : AcceptsEntries(k) \/ Untouched(Store, Store', k)
    BY <1>1, MarketAdvances DEF Advances
  <2>2. /\ Store.markets = markets /\ Store'.markets = markets'
        /\ Store.duels = duels /\ Store'.duels = duels'
    BY DEF Store
  <2> QED
    BY <2>1, <2>2 DEF AcceptsEntries, Untouched, Entering
<1>2. MarketInv /\ [MarketNext]_storeVars => [Stops]_storeVars
  BY <1>1
<1> QED
  BY <1>2, MarketInvariant, PTL DEF MarketSpec, NoEntryAfterCutoff

-----------------------------------------------------------------------------
(* What the invariant says of the properties                                 *)

LEMMA SumRestricted ==
  ASSUME NEW S, IsFiniteSet(S), NEW T \in SUBSET S, NEW f, NEW g,
         \A x \in T : f[x] \in Int /\ g[x] = f[x], \A x \in S \ T : f[x] = 0
  PROVE  SumFunctionOnSet(g, T) = SumFunctionOnSet(f, S)
<1> DEFINE R == S \ T
<1>1. IsFiniteSet(T) /\ IsFiniteSet(R) /\ T \cap R = {} /\ T \cup R = S
  BY FS_Subset
<1>2. \A x \in T \cup R : f[x] \in Int
  OBVIOUS
<1>3. SumFunctionOnSet(f, R) = 0
  BY <1>1, SumZero
<1>4. SumFunctionOnSet(f, T) \in Int
  BY <1>1, SumInt
<1>5. SumFunctionOnSet(g, T) = SumFunctionOnSet(f, T)
  BY <1>1, SumSame
<1>6. SumFunctionOnSet(f, S) = SumFunctionOnSet(f, T) + SumFunctionOnSet(f, R)
  <2>1. SumFunctionOnSet(f, T \cup R) = SumFunctionOnSet(f, T) + SumFunctionOnSet(f, R)
    BY <1>1, <1>2, SumDisjoint
  <2> QED
    BY <1>1, <2>1
<1> QED
  BY <1>3, <1>4, <1>5, <1>6

LEMMA SumOnes ==
  ASSUME NEW f, NEW S, IsFiniteSet(S), \A x \in S : f[x] = 1
  PROVE  SumFunctionOnSet(f, S) = Cardinality(S) /\ Cardinality(S) \in Nat
<1> DEFINE Q == {T \in SUBSET S : SumFunctionOnSet(f, T) = Cardinality(T)}
<1>1. {} \in Q
  BY SumEmpty, FS_EmptySet
<1>2. ASSUME NEW T \in SUBSET S, T # {}, \A x \in T : T \ {x} \in Q
      PROVE  T \in Q
  <2>1. IsFiniteSet(T) /\ \A x \in T : f[x] \in Int
    BY FS_Subset
  <2>2. PICK x \in T : TRUE
    BY <1>2
  <2>3. SumFunctionOnSet(f, T) = f[x] + SumFunctionOnSet(f, T \ {x})
    BY <2>1, <2>2, SumSplit
  <2>4. Cardinality(T \ {x}) = Cardinality(T) - 1 /\ Cardinality(T) \in Nat
    BY <2>1, <2>2, FS_RemoveElement, FS_CardinalityType
  <2>5. SumFunctionOnSet(f, T \ {x}) = Cardinality(T \ {x})
    BY <1>2, <2>2
  <2>6. f[x] = 1
    BY <2>2
  <2> QED
    BY <2>3, <2>4, <2>5, <2>6
<1> HIDE DEF Q
<1>3. S \in Q
  BY <1>1, <1>2, SubsetInduction
<1> QED
  BY <1>3, FS_CardinalityType DEF Q

LEMMA UncrossedIs ==
  ASSUME MarketInv
  PROVE  BookUncrossed
<1>1. StoreFits(Store)
  BY DEF MarketInv
<1>2. Store.orders = orders /\ Store.threw = threw
  BY DEF Store
<1>3. threw \/ Uncrossed(orders)
  BY <1>1, <1>2 DEF StoreFits
<1> QED
  BY <1>3 DEF BookUncrossed, Uncrossed

\* BookUncrossed holds of every behaviour: matchLynxOrder leaves no two live orders
\* that cross.
THEOREM UncrossedAlways == MarketSpec => []BookUncrossed
<1>1. MarketInv => BookUncrossed
  BY UncrossedIs
<1> QED
  BY <1>1, MarketInvariant, PTL

LEMMA OrdersHeld ==
  ASSUME MarketInv, NEW c \in Currency
  PROVE  HeldByOrders(c) = OrdersHold(orders, c)
<1>1. orders \in Seq(Order)
  BY StoreIs DEF MarketInv
<1>2. IsFiniteSet(DOMAIN orders) /\ \A i \in DOMAIN orders : orders[i] \in Order
  BY <1>1, OrdersFinite
<1> DEFINE live == {i \in DOMAIN orders : orders[i].status \notin {"FILLED", "CANCELLED"}}
           Held(i) == IF orders[i].locked = NoLock
                      THEN IF c = "LYNX" THEN orders[i].remaining ELSE 0
                      ELSE IF orders[i].lockedCurrency = c
                           THEN orders[i].locked - orders[i].spent ELSE 0
           f == [i \in DOMAIN orders |-> OrderHolds(orders[i], c)]
           g == [i \in live |-> Held(i)]
<1>3. live \in SUBSET (DOMAIN orders)
  OBVIOUS
<1>4. \A i \in live : f[i] \in Int /\ g[i] = f[i]
  <2>1. \A i \in live : OrderHolds(orders[i], c) \in Int
    BY <1>2, OrderHoldsInt
  <2>2. \A i \in live : OrderHolds(orders[i], c) = Held(i)
    BY DEF OrderHolds, Closed
  <2> QED
    BY <2>1, <2>2
<1>5. \A i \in DOMAIN orders \ live : f[i] = 0
  BY DEF OrderHolds, Closed
<1>6. HeldByOrders(c) = SumFunctionOnSet(g, live)
  BY DEF HeldByOrders, SumOver
<1>7. OrdersHold(orders, c) = SumFunctionOnSet(f, DOMAIN orders)
  BY DEF OrdersHold
<1> HIDE DEF live, f, g
<1> QED
  BY <1>2, <1>3, <1>4, <1>5, <1>6, <1>7, SumRestricted

LEMMA MarketsHeld ==
  ASSUME MarketInv, NEW c \in Currency
  PROVE  HeldByMarkets(c)
           = PoolsHold(markets, c) + DuelsHold(markets, duels, c) - ClaimsTook(markets, positions, c)
<1>1. /\ markets \in [Markets -> MarketRecord] /\ positions \in Seq(PositionRecord)
      /\ duels \in Seq(DuelRecord) /\ PoolsFit(markets, positions) /\ ClaimsFit(markets, positions)
  <2>1. StoreFits(Store)
    BY DEF MarketInv
  <2> QED
    BY <2>1, StoreIs DEF StoreFits
<1>2. /\ IsFiniteSet(DOMAIN positions) /\ IsFiniteSet(DOMAIN duels) /\ IsFiniteSet(Markets)
      /\ \A d \in DOMAIN duels : duels[d] \in DuelRecord
  BY <1>1, OrdersFinite, MarketAssumption
<1> DEFINE Of(m) == markets[m].currency = c
           Pool(m) == IF markets[m].status # "RESOLVED" THEN markets[m].poolAmount
                      ELSE IF markets[m].side[markets[m].result] = 0 THEN 0 ELSE NetPool(markets[m])
           Stakes(d) == duels[d].amount * (IF duels[d].status = "OPEN" THEN 1 ELSE 2)
           MS == {m \in Markets : Of(m)}
           DS == {d \in DOMAIN duels : Of(duels[d].market) /\ duels[d].status \in {"OPEN", "ACTIVE"}}
           PS == {i \in DOMAIN positions : Of(positions[i].market) /\ positions[i].claimed}
           pools == [m \in MS |-> Pool(m)]
           stakes == [d \in DS |-> Stakes(d)]
           claims == [i \in PS |-> Payout(i)]
           allPools == [m \in Markets |-> PoolHolds(markets[m], c)]
           allStakes == [d \in DOMAIN duels |-> DuelHolds(markets, duels[d], c)]
           allClaims == [i \in DOMAIN positions |-> ClaimTook(markets, positions[i], c)]
<1>3. HeldByMarkets(c) = SumFunctionOnSet(pools, MS) + SumFunctionOnSet(stakes, DS)
                         - SumFunctionOnSet(claims, PS)
  BY DEF HeldByMarkets, SumIf, SumOver
<1>4. MS \in SUBSET Markets /\ DS \in SUBSET (DOMAIN duels) /\ PS \in SUBSET (DOMAIN positions)
  OBVIOUS
<1>5. /\ \A m \in MS : allPools[m] \in Int /\ pools[m] = allPools[m]
      /\ \A m \in Markets \ MS : allPools[m] = 0
  <2>1. \A m \in Markets : PoolHolds(markets[m], c) \in Int
    BY <1>1, PoolHoldsInt
  <2>2. \A m \in MS : PoolHolds(markets[m], c) = Pool(m)
    BY DEF PoolHolds
  <2>3. \A m \in Markets \ MS : PoolHolds(markets[m], c) = 0
    BY DEF PoolHolds
  <2> QED
    BY <2>1, <2>2, <2>3
<1>6. /\ \A d \in DS : allStakes[d] \in Int /\ stakes[d] = allStakes[d]
      /\ \A d \in DOMAIN duels \ DS : allStakes[d] = 0
  <2>1. \A d \in DOMAIN duels : DuelHolds(markets, duels[d], c) \in Int
    BY <1>2, DuelHoldsInt
  <2>2. \A d \in DS : DuelHolds(markets, duels[d], c) = Stakes(d)
    BY DEF DuelHolds, Entering
  <2>3. \A d \in DOMAIN duels \ DS : DuelHolds(markets, duels[d], c) = 0
    BY DEF DuelHolds, Entering
  <2> QED
    BY <2>1, <2>2, <2>3
<1>7. /\ \A i \in PS : allClaims[i] \in Int /\ claims[i] = allClaims[i]
      /\ \A i \in DOMAIN positions \ PS : allClaims[i] = 0
  <2>1. \A i \in DOMAIN positions : ClaimTook(markets, positions[i], c) \in Int
    BY <1>1, ClaimTookInt
  <2>2. \A i \in PS : ClaimTook(markets, positions[i], c) = Payout(i)
    BY DEF ClaimTook, Pays, Payout
  <2>3. \A i \in DOMAIN positions \ PS : ClaimTook(markets, positions[i], c) = 0
    BY DEF ClaimTook
  <2> QED
    BY <2>1, <2>2, <2>3
<1>8. /\ PoolsHold(markets, c) = SumFunctionOnSet(allPools, Markets)
      /\ DuelsHold(markets, duels, c) = SumFunctionOnSet(allStakes, DOMAIN duels)
      /\ ClaimsTook(markets, positions, c) = SumFunctionOnSet(allClaims, DOMAIN positions)
  BY DEF PoolsHold, DuelsHold, ClaimsTook
<1> HIDE DEF MS, DS, PS, pools, stakes, claims, allPools, allStakes, allClaims
<1>9. SumFunctionOnSet(pools, MS) = SumFunctionOnSet(allPools, Markets)
  BY <1>2, <1>4, <1>5, SumRestricted
<1>10. SumFunctionOnSet(stakes, DS) = SumFunctionOnSet(allStakes, DOMAIN duels)
  BY <1>2, <1>4, <1>6, SumRestricted
<1>11. SumFunctionOnSet(claims, PS) = SumFunctionOnSet(allClaims, DOMAIN positions)
  BY <1>2, <1>4, <1>7, SumRestricted
<1> QED
  BY <1>3, <1>8, <1>9, <1>10, <1>11

LEMMA WalletsHeld ==
  ASSUME MarketInv, NEW c \in Currency
  PROVE  /\ HeldInWallets(c) + treasury[c] - BroughtIn(c) = Holdings(Books, c) - Opening(c)
         /\ HeldInWallets(c) \in Int /\ treasury[c] \in Int /\ BroughtIn(c) \in Int
<1>1. Books \in BooksSet /\ Books.wallets = wallets /\ Books.treasury = treasury
  BY StoreIs DEF MarketInv, Books
<1>2. treasury[c] \in Int /\ getCirculatingSupply(Books) \in Int
  BY <1>1, HoldingsInt
<1> DEFINE f == [w \in Wallets |-> WalletHolds(Books, w, c)]
           g == [w \in Wallets |-> Opened(w, c)]
<1>3. HeldInWallets(c) = SumFunctionOnSet(f, Wallets)
  <2> DEFINE h == [w \in Wallets |-> wallets[w].balance[c] + wallets[w].rewards[c]
                                       + IF c = "LYNX" THEN wallets[w].staked ELSE 0]
  <2>1. HeldInWallets(c) = SumFunctionOnSet(h, Wallets)
    BY DEF HeldInWallets, SumOver
  <2>2. \A w \in Wallets : h[w] = f[w]
    BY <1>1 DEF WalletHolds
  <2> HIDE DEF f, h
  <2>3. SumFunctionOnSet(h, Wallets) = SumFunctionOnSet(f, Wallets)
    BY <2>2, WalletsFinite, SumSame
  <2> QED
    BY <2>1, <2>3
<1>4. BroughtIn(c) = Opening(c) + IF c = "LYNX" THEN getCirculatingSupply(Books) ELSE 0
  <2> DEFINE h == [w \in Wallets |-> OpeningBalance[w].balance[c]
                                       + IF c = "LYNX" THEN OpeningBalance[w].staked ELSE 0]
  <2>1. BroughtIn(c) = SumFunctionOnSet(h, Wallets) + IF c = "LYNX" THEN getCirculatingSupply(Books) ELSE 0
    BY DEF BroughtIn, SumOver
  <2>2. \A w \in Wallets : h[w] = g[w]
    BY DEF Opened
  <2> HIDE DEF g, h
  <2>3. SumFunctionOnSet(h, Wallets) = SumFunctionOnSet(g, Wallets)
    BY <2>2, WalletsFinite, SumSame
  <2> QED
    BY <2>1, <2>3 DEF Opening, g
<1>5. Holdings(Books, c) = SumFunctionOnSet(f, Wallets) + treasury[c]
                           - IF c = "LYNX" THEN getCirculatingSupply(Books) ELSE 0
  BY <1>1 DEF Holdings
<1>6. SumFunctionOnSet(f, Wallets) \in Int
  <2>1. \A w \in Wallets : f[w] \in Int
    BY <1>1, WalletHoldsInt
  <2> HIDE DEF f
  <2> QED
    BY <2>1, WalletsFinite, SumInt
<1> HIDE DEF f, g
<1> QED
  BY <1>2, <1>3, <1>4, <1>5, <1>6, OpeningInt

\* At most every buyer is a unit above its lock.
LEMMA SlackFits ==
  ASSUME MarketInv, NEW c \in Currency
  PROVE  /\ OrdersSlack(orders, c) \in Nat
         /\ OrdersSlack(orders, c)
              <= IF c = "SOL" THEN Cardinality({i \in DOMAIN orders : orders[i].side = "BUY"}) ELSE 0
         /\ Cardinality({i \in DOMAIN orders : orders[i].side = "BUY"}) \in Nat
<1> DEFINE buys == {i \in DOMAIN orders : orders[i].side = "BUY"}
           f == [i \in DOMAIN orders |-> OrderSlack(orders[i], c)]
           g == [i \in DOMAIN orders |-> IF i \in buys THEN 1 ELSE 0]
           h == [i \in buys |-> 1]
<1>1. IsFiniteSet(DOMAIN orders) /\ orders \in Seq(Order)
  <2>1. orders \in Seq(Order)
    BY StoreIs DEF MarketInv
  <2> QED
    BY <2>1, OrdersFinite
<1>2. OrdersSlack(orders, c) \in Nat /\ OrdersSlack(orders, c) = SumFunctionOnSet(f, DOMAIN orders)
  BY <1>1, OrdersHoldInt DEF OrdersSlack
<1>3. \A i \in DOMAIN orders : f[i] \in Int /\ g[i] \in Int /\ f[i] <= g[i]
  BY DEF OrderSlack
<1>4. c # "SOL" => \A i \in DOMAIN orders : f[i] = 0
  BY DEF OrderSlack
<1>5. buys \in SUBSET (DOMAIN orders) /\ IsFiniteSet(buys)
  BY <1>1, FS_Subset
<1>6. /\ \A i \in buys : g[i] \in Int /\ h[i] = g[i] /\ h[i] = 1
      /\ \A i \in DOMAIN orders \ buys : g[i] = 0
  OBVIOUS
<1> HIDE DEF buys, f, g, h
<1>7. SumFunctionOnSet(f, DOMAIN orders) <= SumFunctionOnSet(g, DOMAIN orders)
  BY <1>1, <1>3, SumAtMost
<1>8. SumFunctionOnSet(h, buys) = SumFunctionOnSet(g, DOMAIN orders)
  BY <1>1, <1>5, <1>6, SumRestricted
<1>9. SumFunctionOnSet(h, buys) = Cardinality(buys) /\ Cardinality(buys) \in Nat
  BY <1>5, <1>6, SumOnes
<1>10. c # "SOL" => SumFunctionOnSet(f, DOMAIN orders) = 0
  BY <1>1, <1>4, SumZero
<1>11. OrdersSlack(orders, c) <= IF c = "SOL" THEN Cardinality(buys) ELSE 0
  BY <1>2, <1>7, <1>8, <1>9, <1>10
<1> QED
  BY <1>2, <1>9, <1>11 DEF buys

LEMMA ConservedIs ==
  ASSUME MarketInv
  PROVE  MoneyConserved
<1> SUFFICES ASSUME threw # TRUE, NEW c \in Currency
             PROVE  2 * Abs(HeldInWallets(c) + treasury[c] + HeldByOrders(c) + HeldByMarkets(c)
                            - BroughtIn(c)) <= Rounding(c)
  BY DEF MoneyConserved
<1>1. StoreFits(Store) /\ threw \in BOOLEAN
  BY StoreIs DEF MarketInv
<1>2. /\ Store.books = Books /\ Store.orders = orders /\ Store.markets = markets
      /\ Store.positions = positions /\ Store.duels = duels /\ Store.threw = threw
  BY DEF Store
<1>3. BalancesIn(Store, c)
  BY <1>1, <1>2 DEF MarketInv, Balanced
<1>4. PICK r : r = Cardinality(Ended(markets))
  OBVIOUS
<1>5. PICK s : s = OrdersSlack(orders, c)
  OBVIOUS
<1>6. PICK n : n = Total(Store, c) - Opening(c)
  OBVIOUS
<1>7. n \in Int /\ 0 - 3 * r <= 2 * n /\ 2 * n <= 3 * r + 2 * s
  BY <1>2, <1>3, <1>4, <1>5, <1>6 DEF BalancesIn, Between
<1>8. r \in Nat
  BY <1>4, EndedFinite
<1>9. /\ Holdings(Books, c) \in Int /\ OrdersHold(orders, c) \in Int /\ Opening(c) \in Int
      /\ PoolsHold(markets, c) \in Int /\ DuelsHold(markets, duels, c) \in Int
      /\ ClaimsTook(markets, positions, c) \in Int
  BY <1>1, <1>2, TotalInt, OpeningInt
<1>10. Total(Store, c) = Holdings(Books, c) + OrdersHold(orders, c) + PoolsHold(markets, c)
                         + DuelsHold(markets, duels, c) - ClaimsTook(markets, positions, c)
  BY <1>2, TotalIs
<1>11. /\ HeldInWallets(c) + treasury[c] - BroughtIn(c) = Holdings(Books, c) - Opening(c)
       /\ HeldInWallets(c) \in Int /\ treasury[c] \in Int /\ BroughtIn(c) \in Int
  BY WalletsHeld
<1>12. /\ HeldByOrders(c) = OrdersHold(orders, c)
       /\ HeldByMarkets(c) = PoolsHold(markets, c) + DuelsHold(markets, duels, c)
                             - ClaimsTook(markets, positions, c)
  BY OrdersHeld, MarketsHeld
<1>14. HeldInWallets(c) + treasury[c] + HeldByOrders(c) + HeldByMarkets(c) - BroughtIn(c) = n
  BY <1>6, <1>9, <1>10, <1>11, <1>12
<1>15. PICK b : b = Cardinality({i \in DOMAIN orders : orders[i].side = "BUY"})
  OBVIOUS
<1>16. b \in Nat /\ s \in Nat /\ s <= IF c = "SOL" THEN b ELSE 0
  BY <1>5, <1>15, SlackFits
<1>17. Rounding(c) = 3 * r + IF c = "SOL" THEN 2 * b ELSE 0
  BY <1>4, <1>15 DEF Rounding, Ended
<1>18. 2 * Abs(n) <= Rounding(c)
  BY <1>7, <1>8, <1>16, <1>17 DEF Abs
<1> QED
  BY <1>14, <1>18

\* MoneyConserved holds of every behaviour: no operation of LynxState mints or
\* loses money, but for the roundings of its resolutions and of its trades.
THEOREM MoneyIsConserved == MarketSpec => []MoneyConserved
<1>1. MarketInv => MoneyConserved
  BY ConservedIs
<1> QED
  BY <1>1, MarketInvariant, PTL

\* What rounded shares of a net pool add up to.
LEMMA SharesRounded ==
  ASSUME NEW pay, NEW part, NEW S, IsFiniteSet(S), NEW whole \in Nat, NEW total \in Nat \ {0},
         SumFunctionOnSet(part, S) = total,
         \A i \in S : part[i] \in Nat /\ pay[i] = roundAmount(whole * part[i], total)
  PROVE  /\ SumFunctionOnSet(pay, S) \in Int /\ Cardinality(S) \in Nat
         /\ 2 * whole <= 2 * SumFunctionOnSet(pay, S) + Cardinality(S)
         /\ 2 * SumFunctionOnSet(pay, S) <= 2 * whole + Cardinality(S)
<1> DEFINE one == [i \in S |-> 1]
           less == [i \in S |-> 0 - 1]
           pays == [i \in S |-> 2 * pay[i]]
           above == [i \in S |-> 2 * pay[i] + 1]
           below == [i \in S |-> 2 * pay[i] - 1]
<1>1. ASSUME NEW i \in S
      PROVE  /\ part[i] \in Int /\ pay[i] \in Int
             /\ total * below[i] <= (2 * whole) * part[i]
             /\ (2 * whole) * part[i] <= total * above[i]
  <2>1. PICK p \in Nat : p = part[i]
    OBVIOUS
  <2>2. PICK n : n = whole * p
    OBVIOUS
  <2>3. n \in Nat
    BY <2>2
  <2>4. PICK k : k = roundAmount(n, total)
    OBVIOUS
  <2>5. /\ k \in Nat /\ 2 * (total * k) <= 2 * n + total /\ 2 * n - total <= 2 * (total * k)
    BY <2>3, <2>4, RoundFits
  <2>6. pay[i] = k
    BY <2>1, <2>2, <2>4
  <2>7. total * (2 * k - 1) = 2 * (total * k) - total /\ total * (2 * k + 1) = 2 * (total * k) + total
    BY <2>5
  <2>8. (2 * whole) * p = 2 * n
    BY <2>2
  <2>9. total * k \in Nat
    BY <2>5
  <2>10. total * (2 * k - 1) <= (2 * whole) * p /\ (2 * whole) * p <= total * (2 * k + 1)
    BY <2>3, <2>5, <2>7, <2>8, <2>9
  <2>11. below[i] = 2 * k - 1 /\ above[i] = 2 * k + 1
    BY <2>6
  <2> HIDE DEF below, above
  <2> QED
    BY <2>1, <2>5, <2>6, <2>10, <2>11
<1>2. \A i \in S : /\ one[i] = 1 /\ one[i] \in Int /\ less[i] = 0 - 1 /\ less[i] \in Int
                   /\ pays[i] \in Int /\ pays[i] = 2 * pay[i] /\ above[i] \in Int /\ below[i] \in Int
                   /\ above[i] = pays[i] + one[i] /\ pays[i] = below[i] + one[i]
  BY <1>1
<1> HIDE DEF one, less, pays, above, below
<1>3. PICK a : a = SumFunctionOnSet(above, S)
  OBVIOUS
<1>4. PICK b : b = SumFunctionOnSet(below, S)
  OBVIOUS
<1>5. PICK s : s = SumFunctionOnSet(pay, S)
  OBVIOUS
<1>6. PICK k : k = Cardinality(S)
  OBVIOUS
<1>7. a \in Int /\ b \in Int /\ s \in Int /\ SumFunctionOnSet(pays, S) \in Int
  BY <1>1, <1>2, <1>3, <1>4, <1>5, SumInt
<1>8. SumFunctionOnSet(one, S) = k /\ k \in Nat
  BY <1>2, <1>6, SumOnes
<1>9. SumFunctionOnSet(pays, S) = s + s
  <2>1. \A i \in S : pay[i] \in Int /\ pays[i] = pay[i] + pay[i]
    BY <1>1, <1>2
  <2> QED
    BY <1>5, <2>1, SumPlus
<1>10. a = s + s + k
  BY <1>2, <1>3, <1>8, <1>9, SumPlus
<1>11. s + s = b + k
  BY <1>2, <1>4, <1>8, <1>9, SumPlus
<1>12. total * b <= (2 * whole) * total /\ (2 * whole) * total <= total * a
  <2>1. total \in Int /\ 2 * whole \in Int
    OBVIOUS
  <2>2. \A i \in S : below[i] \in Int /\ part[i] \in Int /\ total * below[i] <= (2 * whole) * part[i]
    BY <1>1, <1>2
  <2>3. \A i \in S : part[i] \in Int /\ above[i] \in Int /\ (2 * whole) * part[i] <= total * above[i]
    BY <1>1, <1>2
  <2>4. PICK t \in Int : t = 2 * whole
    BY <2>1
  <2>5. total * SumFunctionOnSet(below, S) <= t * SumFunctionOnSet(part, S)
    BY <2>1, <2>2, <2>4, SumScaled
  <2>6. t * SumFunctionOnSet(part, S) <= total * SumFunctionOnSet(above, S)
    BY <2>1, <2>3, <2>4, SumScaled
  <2> QED
    BY <1>3, <1>4, <2>4, <2>5, <2>6
<1>13. ASSUME NEW u \in Int, NEW v \in Int, total * u <= total * v
       PROVE  u <= v
  <2>1. ASSUME u >= v + 1 PROVE FALSE
    <3>1. total * u = total * v + total * (u - v)
      OBVIOUS
    <3>2. total * (u - v) >= 1
      <4>1. PICK e \in Nat : u - v = e + 1
        BY <2>1
      <4>2. total * (e + 1) = total * e + total /\ total * e \in Nat
        OBVIOUS
      <4> QED
        BY <4>1, <4>2
    <3>3. total * u \in Int /\ total * v \in Int
      OBVIOUS
    <3> QED
      BY <1>13, <3>1, <3>2, <3>3
  <2> QED
    BY <2>1
<1>14. b <= 2 * whole /\ 2 * whole <= a
  <2>1. PICK t \in Int : t = 2 * whole
    OBVIOUS
  <2>2. t * total = total * t
    OBVIOUS
  <2>3. total * b <= total * t /\ total * t <= total * a
    BY <1>12, <2>1, <2>2
  <2> QED
    BY <1>7, <1>13, <2>1, <2>3
<1> QED
  BY <1>5, <1>6, <1>7, <1>8, <1>10, <1>11, <1>14

LEMMA PoolMatchesIs ==
  ASSUME MarketInv
  PROVE  PoolMatchesPositions
<1>1. /\ markets \in [Markets -> MarketRecord] /\ positions \in Seq(PositionRecord)
      /\ PoolsFit(markets, positions)
  <2>1. StoreFits(Store)
    BY DEF MarketInv
  <2> QED
    BY <2>1, StoreIs DEF StoreFits
<1>2. IsFiniteSet(DOMAIN positions) /\ \A i \in DOMAIN positions : positions[i] \in PositionRecord
  BY <1>1, OrdersFinite
<1>3. \A i \in DOMAIN positions : positions[i].amount \in Nat /\ positions[i].solPrincipal \in Nat
  BY <1>2, PositionTypes
<1> SUFFICES ASSUME NEW m \in Markets
             PROVE  LET own == {i \in DOMAIN positions : positions[i].market = m}
                        winners == {i \in own : IsWinner(i)}
                    IN  /\ \A p \in Position :
                             markets[m].side[p] = SumIf(LAMBDA i: positions[i].amount, own,
                                                        LAMBDA i: positions[i].position = p)
                        /\ markets[m].poolAmount = SumOver(LAMBDA i: positions[i].solPrincipal, own)
                        /\ winners # {} =>
                             2 * Abs(SumOver(Payout, winners) - NetPool(markets[m])) <= Cardinality(winners)
  BY DEF PoolMatchesPositions
<1> DEFINE own == {i \in DOMAIN positions : positions[i].market = m}
           On(p) == {i \in own : positions[i].position = p}
           winners == {i \in own : IsWinner(i)}
           weights(p) == [i \in On(p) |-> positions[i].amount]
<1>4. own \in SUBSET (DOMAIN positions) /\ winners \in SUBSET (DOMAIN positions)
      /\ IsFiniteSet(own) /\ IsFiniteSet(winners)
  <2>1. own \in SUBSET (DOMAIN positions) /\ winners \in SUBSET (DOMAIN positions)
    OBVIOUS
  <2> HIDE DEF own, winners
  <2> QED
    BY <1>2, <2>1, FS_Subset
<1>5. ASSUME NEW p \in Position
      PROVE  markets[m].side[p] = SumFunctionOnSet(weights(p), On(p))
  <2> DEFINE T == On(p)
             g == weights(p)
             f == [i \in DOMAIN positions |-> Weight(positions[i], m, p)]
  <2>1. T \in SUBSET (DOMAIN positions)
    OBVIOUS
  <2>2. \A i \in T : f[i] \in Int /\ g[i] = f[i]
    BY <1>3 DEF Weight
  <2>3. \A i \in DOMAIN positions \ T : f[i] = 0
    BY DEF Weight
  <2>4. markets[m].side[p] = SumFunctionOnSet(f, DOMAIN positions)
    BY <1>1 DEF PoolsFit, Weighs
  <2> HIDE DEF T, g, f
  <2>5. SumFunctionOnSet(g, T) = SumFunctionOnSet(f, DOMAIN positions)
    BY <1>2, <2>1, <2>2, <2>3, SumRestricted
  <2> QED
    BY <2>4, <2>5 DEF T, g
<1>6. markets[m].poolAmount = SumOver(LAMBDA i: positions[i].solPrincipal, own)
  <2> DEFINE g == [i \in own |-> positions[i].solPrincipal]
             f == [i \in DOMAIN positions |-> PaidIn(positions[i], m)]
  <2>1. \A i \in own : f[i] \in Int /\ g[i] = f[i]
    BY <1>3 DEF PaidIn
  <2>2. \A i \in DOMAIN positions \ own : f[i] = 0
    BY DEF PaidIn
  <2>3. markets[m].poolAmount = SumFunctionOnSet(f, DOMAIN positions)
    BY <1>1 DEF PoolsFit, PaysIn
  <2>4. SumOver(LAMBDA i: positions[i].solPrincipal, own) = SumFunctionOnSet(g, own)
    BY DEF SumOver
  <2> HIDE DEF own, g, f
  <2>5. SumFunctionOnSet(g, own) = SumFunctionOnSet(f, DOMAIN positions)
    BY <1>2, <1>4, <2>1, <2>2, SumRestricted
  <2> QED
    BY <2>3, <2>4, <2>5
<1>7. ASSUME winners # {}
      PROVE  2 * Abs(SumOver(Payout, winners) - NetPool(markets[m])) <= Cardinality(winners)
  <2>1. PICK result : result = markets[m].result
    OBVIOUS
  <2>2. markets[m].status = "RESOLVED" /\ result \in Position
    <3>1. markets[m].status = "RESOLVED"
      BY <1>7 DEF IsWinner
    <3> QED
      BY <1>1, <2>1, <3>1 DEF PoolsFit
  <2>3. winners = On(result)
    BY <2>1, <2>2 DEF IsWinner
  <2>4. PICK total : total = markets[m].side[result]
    OBVIOUS
  <2>5. PICK whole : whole = NetPool(markets[m])
    OBVIOUS
  <2> DEFINE part == weights(result)
             pay == [i \in winners |-> Payout(i)]
  <2>6. SumFunctionOnSet(part, winners) = total
    BY <1>5, <2>2, <2>3, <2>4
  <2>7. \A i \in winners : part[i] \in Nat \ {0} /\ pay[i] = roundAmount(whole * part[i], total)
    <3>1. ASSUME NEW i \in winners
          PROVE  positions[i].market = m /\ positions[i].amount \in Nat \ {0}
      BY <1>2, PositionTypes
    <3>2. ASSUME NEW i \in winners
          PROVE  Payout(i) = roundAmount(whole * positions[i].amount, total)
      BY <2>1, <2>4, <2>5, <3>1 DEF Payout
    <3>3. \A i \in winners : part[i] = positions[i].amount
      BY <2>3
    <3> QED
      BY <3>1, <3>2, <3>3
  <2>8. whole \in Nat
    BY <1>1, <2>5, NetPoolNat
  <2>9. SumOver(Payout, winners) = SumFunctionOnSet(pay, winners)
    BY DEF SumOver
  <2> HIDE DEF own, winners, On, part, pay
  <2>10. total \in Nat \ {0}
    <3>1. PICK i \in winners : TRUE
      BY <1>7
    <3>2. part[i] <= SumFunctionOnSet(part, winners) /\ SumFunctionOnSet(part, winners) \in Nat
      BY <1>4, <2>7, SumElement, SumNat
    <3> QED
      BY <2>6, <2>7, <3>1, <3>2
  <2>11. /\ SumFunctionOnSet(pay, winners) \in Int /\ Cardinality(winners) \in Nat
         /\ 2 * whole <= 2 * SumFunctionOnSet(pay, winners) + Cardinality(winners)
         /\ 2 * SumFunctionOnSet(pay, winners) <= 2 * whole + Cardinality(winners)
    <3>1. \A i \in winners : part[i] \in Nat /\ pay[i] = roundAmount(whole * part[i], total)
      BY <2>7
    <3> QED
      BY <1>4, <2>6, <2>8, <2>10, <3>1, SharesRounded
  <2> QED
    BY <2>5, <2>8, <2>9, <2>11 DEF Abs
<1>8. ASSUME NEW p \in Position
      PROVE  markets[m].side[p] = SumIf(LAMBDA i: positions[i].amount, own,
                                        LAMBDA i: positions[i].position = p)
  BY <1>5 DEF SumIf, SumOver
<1> QED
  BY <1>6, <1>7, <1>8

\* PoolMatchesPositions holds of every behaviour: weights, pool and payouts of
\* a market agree with its positions.
THEOREM PoolsMatch == MarketSpec => []PoolMatchesPositions
<1>1. MarketInv => PoolMatchesPositions
  BY PoolMatchesIs
<1> QED
  BY <1>1, MarketInvariant, PTL
=============================================================================
