--------------------------- MODULE OffchainMarket ---------------------------
(* The legacy markets of LynxState: entries, prediction limit orders, duels, *)
(* the LYNX boost, resolution with its fees and emission, and claims.  The   *)
(* wallets are those of the order book, the protocol's LYNX is put up for    *)
(* sale on it and its trades price the boost, so the module extends it.      *)
EXTENDS OffchainBook

CONSTANTS
  Markets,           \* the markets an admin has created
  MarketKinds,       \* the [currency, isTernary] a market may have
  MarketAmounts,     \* the amounts of an entry or a duel
  BoostAmounts,      \* the LYNX of a boost
  LimitOdds,         \* limit prices of prediction orders, in percent
  MaxPositions,      \* bound: positions ever opened
  MaxDuels           \* bound: duels ever opened

VARIABLES
  markets,           \* kind, status, pool, the amount of each side, result
  positions,         \* every position ever opened, in order
  duels,             \* every duel ever opened, in order
  pastCutoff         \* the markets whose cutoffAt the clock has passed

ASSUME MarketAssumption ==
  /\ IsFiniteSet(Markets) /\ Pair \notin Markets
  /\ MarketKinds \subseteq [currency : Currency, isTernary : BOOLEAN]
  /\ MarketAmounts \subseteq Nat \ {0} /\ BoostAmounts \subseteq Nat /\ LimitOdds \subseteq Nat

marketVars == <<markets, positions, duels, pastCutoff>>

Position == {"YES", "NO", "A", "B", "DRAW"}
NoResult == "NONE"

normalizePosition(p, ternary) ==
  CASE ternary /\ p = "YES" -> "A"
    [] ternary /\ p = "NO" -> "B"
    [] ~ternary /\ p = "A" -> "YES"
    [] ~ternary /\ p = "B" -> "NO"
    [] OTHER -> p

\* What the inputs a client may send come down to, DRAW refused where there is none.
Sides(m) ==
  {normalizePosition(p, markets[m].isTernary) :
     p \in IF markets[m].isTernary THEN Position ELSE Position \ {"DRAW"}}

MarketInit ==
  /\ BookInit
  /\ markets \in [Markets -> {[currency |-> k.currency, isTernary |-> k.isTernary,
                               status |-> "OPEN", poolAmount |-> 0,
                               side |-> [p \in Position |-> 0], result |-> NoResult] :
                              k \in MarketKinds}]
  /\ positions = << >>
  /\ duels = << >>
  /\ pastCutoff = {}

Store == [books |-> Books, orders |-> orders, trades |-> trades, threw |-> threw,
          markets |-> markets, positions |-> positions, duels |-> duels]

SetStore(x) ==
  /\ SetExchange(x)
  /\ markets' = x.markets /\ positions' = x.positions /\ duels' = x.duels
  /\ UNCHANGED pastCutoff

\* assertMarketAcceptsEntries, after the reconciliation of getMarket.
AcceptsEntries_ByStatus(m) == markets[m].status \in {"OPEN", "ACTIVE"}
AcceptsEntries(m) == markets[m].status \in {"OPEN", "ACTIVE"} /\ m \notin pastCutoff

\* The implied odds in percent, within 1 and 99.
estimatePositionPrice(x, m, p) ==
  LET market == x.markets[m]
      odds == roundAmount(market.side[p] * 100, market.poolAmount)
  IN  IF market.poolAmount = 0 THEN IF market.isTernary THEN 33 ELSE 50
      ELSE IF odds < 1 THEN 1 ELSE IF odds > 99 THEN 99 ELSE odds

\* Money already taken from w enters the pool on side p, less the LYNX burned.
EnterPool(x, m, w, p, amount) ==
  LET market == x.markets[m]
      burn == Burn(market.currency, amount)
      credited == amount - burn
  IN  [x EXCEPT
         !.books = CountBurn(@, burn),
         !.markets[m] = [market EXCEPT !.status = "ACTIVE", !.poolAmount = @ + credited,
                                       !.side[p] = @ + credited],
         !.positions = Append(@, [market |-> m, wallet |-> w, position |-> p,
                                  amount |-> credited, solPrincipal |-> credited,
                                  boosted |-> 0, claimed |-> FALSE])]

FillLimitOrder(x, i) ==
  LET o == x.orders[i]
      entered == EnterPool(x, o.pair, o.owner, o.position, o.remaining)
  IN  [entered EXCEPT
         !.orders[i] = [o EXCEPT !.remaining = 0, !.status = "FILLED", !.spent = o.locked]]

\* One order of a pass over the resting orders of m.
TryFill(m, x, i) ==
  LET o == x.orders[i]
  IN  IF /\ o.pair = m /\ o.status = "OPEN"
         /\ estimatePositionPrice(x, m, o.position) < o.price
      THEN FillLimitOrder(x, i) ELSE x

FillPass(m, x) == FoldLeftDomain(LAMBDA acc, i: TryFill(m, acc, i), x, x.orders)
FillPasses(m, x) == FoldLeftDomain(LAMBDA acc, n: FillPass(m, acc), x, x.orders)

\* Passes, oldest order first, until one fills nothing: as many as there are
\* orders suffice, and MAX_PASSES is not reached.
matchPredictionOrders(x, m) ==
  IF x.markets[m].status \in {"OPEN", "ACTIVE"} THEN FillPasses(m, x) ELSE x

executePredictionTrade(w, m, p, amount) ==
  LET c == markets[m].currency
      paid == [Store EXCEPT !.books = debit(@, w, c, amount)]
  IN  /\ AcceptsEntries(m)
      /\ CanDebit(Books, w, c, amount)
      /\ Len(positions) < MaxPositions
      /\ SetStore(matchPredictionOrders(EnterPool(paid, m, w, p, amount), m))

\* A limit entry: its whole amount is locked, and it fills in full once the
\* odds are below its price.  Without a price it asks for the odds of now.
placePredictionOrder(w, m, p, amount, limit) ==
  LET c == markets[m].currency
      price == IF limit = NoPrice THEN estimatePositionPrice(Store, m, p) ELSE limit
      order == [NewOrder(w, "BUY", amount, price, [c |-> c, amount |-> amount])
                  EXCEPT !.pair = m, !.position = p]
      placed == [Store EXCEPT !.books = debit(@, w, c, amount), !.orders = Append(@, order)]
  IN  /\ AcceptsEntries(m)
      /\ CanDebit(Books, w, c, amount)
      /\ Len(orders) < MaxOrders /\ Len(positions) < MaxPositions
      /\ SetStore(matchPredictionOrders(placed, m))

createDuel(w, m, p, amount) ==
  LET c == markets[m].currency
      burn == Burn(c, amount)
      duel == [market |-> m, creator |-> w, rival |-> NoResult, gross |-> amount,
               amount |-> amount - burn, status |-> "OPEN", positionA |-> p,
               positionB |-> NoResult, winner |-> NoResult]
  IN  /\ AcceptsEntries(m)
      /\ ~(c = "LYNX" /\ markets[m].isTernary)
      /\ CanDebit(Books, w, c, amount)
      /\ Len(duels) < MaxDuels
      /\ SetStore([Store EXCEPT !.books = CountBurn(debit(@, w, c, amount), burn),
                                !.duels = Append(@, duel)])

acceptDuel(w, d, p) ==
  LET duel == duels[d]
      c == markets[duel.market].currency
  IN  /\ duel.status = "OPEN" /\ w # duel.creator /\ p # duel.positionA
      /\ AcceptsEntries(duel.market)
      /\ CanDebit(Books, w, c, duel.gross)
      /\ SetStore([Store EXCEPT
            !.books = CountBurn(debit(@, w, c, duel.gross), Burn(c, duel.gross)),
            !.duels[d] = [@ EXCEPT !.status = "ACTIVE", !.rival = w, !.positionB = p]])

cancelDuel(d) ==
  LET duel == duels[d]
  IN  /\ duel.status = "OPEN"
      /\ SetStore([Store EXCEPT
            !.books = credit(@, duel.creator, markets[duel.market].currency, duel.amount),
            !.duels[d].status = "CANCELLED"])

\* The burn buys weight on a side of the pool, never a larger pool.
Boosted_LargerPool(x, i, solEquivalent) ==
  [x EXCEPT
     !.positions[i] = [@ EXCEPT !.amount = @ + solEquivalent, !.boosted = @ + solEquivalent],
     !.markets[x.positions[i].market].side[x.positions[i].position] = @ + solEquivalent,
     !.markets[x.positions[i].market].poolAmount = @ + solEquivalent]
Boosted(x, i, solEquivalent) ==
  LET o == x.positions[i]
  IN  [x EXCEPT
         !.positions[i] = [o EXCEPT !.amount = @ + solEquivalent, !.boosted = @ + solEquivalent],
         !.markets[o.market] = [x.markets[o.market] EXCEPT !.side[o.position] = @ + solEquivalent]]

boostPositionWithLynxBurn(i, lynxAmount) ==
  LET position == positions[i]
      w == position.wallet
      solEquivalent == roundAmount(lynxAmount * getLynxTwapPrice, PriceUnit)
  IN  /\ ~position.claimed
      /\ markets[position.market].currency = "SOL" /\ AcceptsEntries(position.market)
      /\ getLynxTwapPrice # NoPrice /\ getLynxTwapPrice > 0
      /\ CanDebit(Books, w, "LYNX", lynxAmount)
      /\ position.boosted < position.solPrincipal
      /\ position.boosted + solEquivalent <= position.solPrincipal
      /\ SetStore(Boosted([Store EXCEPT
                             !.books = CountBurn(debit(@, w, "LYNX", lynxAmount), lynxAmount)],
                          i, solEquivalent))

-----------------------------------------------------------------------------
(* Resolution                                                                *)

\* The LYNX minted for the pool of a resolved SOL market: to every position,
\* winner or not, to the treasury, and to a sale order that locks nothing and
\* is not matched when it is put on the book.
mintLynxForSolvedSolMarket(x, m) ==
  LET emission == roundAmount(x.markets[m].poolAmount
                              * getMintRatio(getCirculatingSupply(x.books)), 1000)
      held == {i \in DOMAIN x.positions : x.positions[i].market = m}
      shares == SharesOf(Percent(emission, LYNX_PARTICIPANT_SHARE), held,
                         [i \in held |-> x.positions[i].amount])
      Of(w) == SumFunctionOnSet(shares, {i \in held : x.positions[i].wallet = w})
      sale == Percent(emission, LYNX_INITIAL_SALE_SHARE)
      order == NewOrder(TREASURY_WALLET, "SELL", sale, PriceUnit,
                        [c |-> "LYNX", amount |-> NoLock])
  IN  IF x.markets[m].currency # "SOL" \/ x.markets[m].poolAmount = 0 THEN x
      ELSE [x EXCEPT
              !.books = [wallets |-> [w \in Wallets |->
                           [x.books.wallets[w] EXCEPT !.balance["LYNX"] = @ + Of(w)]],
                         treasury |-> [x.books.treasury EXCEPT
                           !.lynxTotalMinted = @ + emission,
                           !.LYNX = @ + Percent(emission, LYNX_TREASURY_SHARE),
                           !.lynxForInitialSale = @ + sale]],
              !.orders = IF sale > 0 THEN Append(@, order) ELSE @]

mintProtocolDuelLynx(b, w, protocolSolCounterpart) ==
  LET minted == roundAmount(protocolSolCounterpart
                            * getMintRatio(getCirculatingSupply(b)), 1000)
  IN  [credit(b, w, "LYNX", minted) EXCEPT !.treasury.lynxTotalMinted = @ + minted]

DuelFees(pot) == Percent(pot, STAKER_REWARD_FEE) + Percent(pot, TREASURY_EVENT_FEE)

\* The user who called the result takes the pot less the fee and, of a ternary
\* duel, LYNX for the protocol's stake; the side nobody took is the protocol's.
SettleDuel(b, duel, market) ==
  LET c == market.currency
      pot == duel.amount * 2
      winner == IF market.result = duel.positionA THEN duel.creator ELSE duel.rival
      paid == PayEventFees(credit(b, winner, c, pot - DuelFees(pot)), pot, c)
      stakerShare == roundAmount(pot, 2)
      lost == [credit(b, TREASURY_WALLET, c, pot - stakerShare)
                 EXCEPT !.treasury.protocolDuelSol = @ + pot - stakerShare]
  IN  IF market.result \in {duel.positionA, duel.positionB}
      THEN [b |-> IF market.isTernary THEN mintProtocolDuelLynx(paid, winner, duel.amount)
                  ELSE paid,
            winner |-> winner]
      ELSE [b |-> distributeStakingRewards(lost, stakerShare, c), winner |-> TREASURY_WALLET]

RefundUnmatched(m, x, d) ==
  LET duel == x.duels[d]
  IN  IF duel.market = m /\ duel.status = "OPEN"
      THEN [x EXCEPT !.books = credit(@, duel.creator, x.markets[m].currency, duel.amount),
                     !.duels[d].status = "CANCELLED"]
      ELSE x

SettleMatched(m, x, d) ==
  LET s == SettleDuel(x.books, x.duels[d], x.markets[m])
  IN  IF x.duels[d].market = m /\ x.duels[d].status = "ACTIVE"
      THEN [x EXCEPT !.books = s.b,
                     !.duels[d] = [@ EXCEPT !.status = "RESOLVED", !.winner = s.winner]]
      ELSE x

RefundAll(m, x) == FoldLeftDomain(LAMBDA acc, d: RefundUnmatched(m, acc, d), x, x.duels)
SettleAll(m, x) == FoldLeftDomain(LAMBDA acc, d: SettleMatched(m, acc, d), x, x.duels)

\* Unmatched duels are refunded first, then the matched ones are settled.
resolveDuelsForMarket(x, m) == SettleAll(m, RefundAll(m, x))

NetPool(market) == Percent(market.poolAmount, 100 - STAKER_REWARD_FEE - TREASURY_EVENT_FEE)

\* With no weight on the winning side, what no claim will take is the treasury's.
SweepWithoutWinners(x, m) ==
  LET market == x.markets[m]
  IN  IF market.side[market.result] = 0
      THEN [x EXCEPT !.books = [x.books EXCEPT !.treasury[market.currency] = @ + NetPool(market)]]
      ELSE x

resolveMarket(m, result) ==
  LET market == markets[m]
      closed == [Store EXCEPT
                   !.markets[m] = [market EXCEPT !.status = "RESOLVED", !.result = result]]
      charged == [closed EXCEPT !.books = PayEventFees(@, market.poolAmount, market.currency)]
  IN  /\ market.status # "RESOLVED"
      /\ SetStore(SweepWithoutWinners(
           resolveDuelsForMarket(mintLynxForSolvedSolMarket(charged, m), m), m))

Payout(i) ==
  LET market == markets[positions[i].market]
  IN  roundAmount(NetPool(market) * positions[i].amount, market.side[market.result])

IsWinner(i) ==
  LET market == markets[positions[i].market]
  IN  market.status = "RESOLVED" /\ positions[i].position = market.result

claimPosition(i) ==
  /\ ~positions[i].claimed
  /\ IsWinner(i)
  /\ SetStore([Store EXCEPT
        !.books = credit(@, positions[i].wallet, markets[positions[i].market].currency, Payout(i)),
        !.positions[i].claimed = TRUE])

cutOffMarket(m) ==
  /\ markets[m].status \in {"OPEN", "ACTIVE"}
  /\ SetStore([Store EXCEPT !.markets[m].status = "CUT_OFF"])

\* The clock passes cutoffAt; the status follows at the next read of the market.
CutoffPasses(m) ==
  /\ m \notin pastCutoff
  /\ pastCutoff' = pastCutoff \cup {m}
  /\ UNCHANGED <<bookVars, markets, positions, duels>>

reconcileMarketStatus(m) == m \in pastCutoff /\ cutOffMarket(m)

Enter ==
  \E m \in Markets, w \in Wallets \ {TREASURY_WALLET}, amount \in MarketAmounts :
    \E p \in Sides(m) :
      \/ executePredictionTrade(w, m, p, amount)
      \/ \E limit \in LimitOdds \cup {NoPrice} : placePredictionOrder(w, m, p, amount, limit)

Duel ==
  \/ \E m \in Markets, w \in Wallets \ {TREASURY_WALLET}, amount \in MarketAmounts :
       \E p \in Sides(m) : createDuel(w, m, p, amount)
  \/ \E d \in DOMAIN duels :
       \/ cancelDuel(d)
       \/ \E w \in Wallets \ {TREASURY_WALLET}, p \in Sides(duels[d].market) : acceptDuel(w, d, p)

UsePosition ==
  \E i \in DOMAIN positions :
    claimPosition(i) \/ \E lynx \in BoostAmounts : boostPositionWithLynxBurn(i, lynx)

CloseMarket ==
  \E m \in Markets :
    \/ cutOffMarket(m) \/ CutoffPasses(m) \/ reconcileMarketStatus(m)
    \/ \E result \in Sides(m) : resolveMarket(m, result)

Stake ==
  /\ \E w \in Wallets, amount \in MarketAmounts :
       stake(w, amount) \/ unstake(w, amount) \/ claimRewards(w)
  /\ UNCHANGED <<orders, trades, threw, marketVars>>

Trade == BookNext /\ UNCHANGED marketVars

storeVars == <<bookVars, marketVars>>

MarketNext == Trade \/ Enter \/ Duel \/ UsePosition \/ CloseMarket \/ Stake
MarketSpec == MarketInit /\ [][MarketNext]_storeVars

-----------------------------------------------------------------------------
(* Properties                                                                *)

SumIf(f(_), S, P(_)) == SumOver(f, {s \in S : P(s)})

\* What markets and duels hold of a currency.
HeldByMarkets(c) ==
  LET Of(m) == markets[m].currency = c
      Pool(m) == IF markets[m].status # "RESOLVED" THEN markets[m].poolAmount
                 ELSE IF markets[m].side[markets[m].result] = 0 THEN 0 ELSE NetPool(markets[m])
      Stakes(d) == duels[d].amount * (IF duels[d].status = "OPEN" THEN 1 ELSE 2)
  IN  SumIf(Pool, Markets, Of)
      + SumIf(Stakes, DOMAIN duels,
              LAMBDA d: Of(duels[d].market) /\ duels[d].status \in {"OPEN", "ACTIVE"})
      - SumIf(Payout, DOMAIN positions,
              LAMBDA i: Of(positions[i].market) /\ positions[i].claimed)

\* Roundings that may each be off by half a unit, doubled: three of a
\* resolution, in the currency of the market those of its two fees and its net
\* pool, in LYNX those of the three parts of what a SOL market's pool mints; a
\* buyer's order may end one unit of SOL above its lock.
Rounding(c) ==
  3 * Cardinality({m \in Markets : markets[m].status = "RESOLVED"})
  + IF c = "SOL" THEN 2 * Cardinality({i \in DOMAIN orders : orders[i].side = "BUY"}) ELSE 0

Abs(n) == IF n < 0 THEN -n ELSE n

(* No operation mints or loses money: what wallets, rewards, treasury, order *)
(* locks, pools and duel stakes hold is what was brought in, plus the LYNX   *)
(* emitted and less the LYNX burned, but for the roundings of roundAmount.   *)
(* A match that an exception stopped half-way is the one exception.          *)
MoneyConserved ==
  threw \/ \A c \in Currency :
    2 * Abs(HeldInWallets(c) + treasury[c] + HeldByOrders(c) + HeldByMarkets(c) - BroughtIn(c))
      <= Rounding(c)

(* The weights claims divide by and the money they divide agree with the     *)
(* positions: each side's amount is the weight of its positions, the pool is *)
(* what they paid in, and all the winners' payouts fit the net pool but for  *)
(* half a unit each.  A boost that paid the pool would break the second.     *)
PoolMatchesPositions ==
  \A m \in Markets :
    LET own == {i \in DOMAIN positions : positions[i].market = m}
        winners == {i \in own : IsWinner(i)}
    IN  /\ \A p \in Position :
             markets[m].side[p] = SumIf(LAMBDA i: positions[i].amount, own,
                                        LAMBDA i: positions[i].position = p)
        /\ markets[m].poolAmount = SumOver(LAMBDA i: positions[i].solPrincipal, own)
        /\ winners # {} =>
             2 * Abs(SumOver(Payout, winners) - NetPool(markets[m])) <= Cardinality(winners)

(* Once its cutoff has passed or it is closed, no call adds money to a       *)
(* market: not an entry, nor the fill of an order placed before, nor a duel, *)
(* opened or accepted.                                                       *)
NoEntryAfterCutoff ==
  [][\A m \in Markets :
       m \in pastCutoff \/ markets[m].status \in {"CUT_OFF", "RESOLVED"} =>
       /\ markets'[m].poolAmount = markets[m].poolAmount
       /\ \A d \in DOMAIN duels' :
            duels'[d].market = m /\ duels'[d].status \in {"OPEN", "ACTIVE"}
            => d \in DOMAIN duels /\ duels[d].status = duels'[d].status]_storeVars
=============================================================================
