---------------------------- MODULE OffchainBook ----------------------------
(* The LYNX/SOL order book of LynxState: limit orders, market orders, the    *)
(* matching loop, cancellation, and the price that executed trades leave.    *)
(* A call of the store is one step, a call that throws half-way included:    *)
(* what it had already assigned stays, for nothing rolls the store back.     *)
(* GLOBAL_TRADE_FEE is 0 in the source and is left out.                      *)
EXTENDS OffchainLedger

CONSTANTS
  BookAmounts,       \* the LYNX amounts an order may ask for
  BookPrices,        \* the prices, in 1/PriceUnit SOL
  MaxOrders,         \* bound: orders ever made
  TwapMinTrades,     \* LYNX_BURN_TWAP_MIN_TRADES
  TwapMinVolume,     \* LYNX_BURN_TWAP_MIN_VOLUME
  NoLock,            \* lockedAmount is undefined
  NoPrice            \* a bound the client did not give

VARIABLES
  orders,            \* every order ever made, in order of creation
  trades,            \* the LYNX/SOL trades of the TWAP window, oldest first
  threw              \* some match stopped half-way on an exception

ASSUME BookAssumption ==
  /\ BookAmounts \subseteq Nat \ {0} /\ BookPrices \subseteq Nat
  /\ TwapMinVolume \in Nat \ {0}
  /\ NoLock \notin Nat /\ NoPrice \notin Nat

bookVars == <<wallets, treasury, orders, trades, threw>>

Pair == "LYNX/SOL"
Opposite(side) == IF side = "BUY" THEN "SELL" ELSE "BUY"

BookInit == LedgerInit /\ orders = << >> /\ trades = << >> /\ threw = FALSE

Exchange == [books |-> Books, orders |-> orders, trades |-> trades, threw |-> threw]

SetExchange(x) ==
  /\ SetBooks(x.books)
  /\ orders' = x.orders /\ trades' = x.trades /\ threw' = x.threw

IsLive(o) == o.status \notin {"FILLED", "CANCELLED"} /\ o.remaining > 0

\* The lock of an order: SOL for what a buyer pays, LYNX for what a seller gives.
LockFor(side, amount, price) ==
  IF side = "BUY" THEN [c |-> "SOL", amount |-> roundAmount(amount * price, PriceUnit)]
  ELSE [c |-> "LYNX", amount |-> amount]

NewOrder(w, side, amount, price, lock) ==
  [pair |-> Pair, owner |-> w, side |-> side, position |-> "NONE", amount |-> amount,
   remaining |-> amount, price |-> price, status |-> "OPEN",
   lockedCurrency |-> lock.c, locked |-> lock.amount, spent |-> 0]

Within_Strictly(side, makerPrice, bound) ==
  IF side = "BUY" THEN makerPrice < bound ELSE makerPrice > bound
Within(side, makerPrice, bound) ==
  IF side = "BUY" THEN makerPrice <= bound ELSE makerPrice >= bound

\* The live orders of others on the far side of the book, within a price.
OppositeOrders(os, w, side, bound) ==
  {i \in DOMAIN os : /\ os[i].pair = Pair
                     /\ os[i].owner # w
                     /\ os[i].side = Opposite(side)
                     /\ IsLive(os[i])
                     /\ bound = NoPrice \/ Within(side, os[i].price, bound)}

\* The order of the loops over them: best price first, oldest first at a price.
Better(os, side, i, j) ==
  \/ os[i].price = os[j].price /\ i < j
  \/ IF side = "BUY" THEN os[i].price < os[j].price ELSE os[i].price > os[j].price

Worst(os, side, S) == CHOOSE i \in S : \A j \in S \ {i} : Better(os, side, j, i)

\* op over S in that order, from base: the worst one last.
FoldBestFirst(op(_, _), base, os, side, S) ==
  MapThenFoldSet(LAMBDA m, acc: op(acc, m), base, LAMBDA m: m,
                 LAMBDA T: Worst(os, side, T), S)

consumeLockedAmount(o, amount) ==
  IF o.locked = NoLock THEN o ELSE [o EXCEPT !.spent = @ + amount]

\* The tolerance of the source's check, one unit, is what rounding may take.
LockExceeded(o) == o.locked # NoLock /\ o.spent > o.locked + 1

releaseUnusedLock(x, i) ==
  LET o == x.orders[i]
      refund == IF o.locked > o.spent THEN o.locked - o.spent ELSE 0
  IN  IF o.status # "FILLED" \/ o.locked = NoLock THEN x
      ELSE [x EXCEPT !.books = credit(@, o.owner, o.lockedCurrency, refund),
                     !.orders[i].locked = o.spent]

Reduce(o, amount) ==
  [o EXCEPT !.remaining = @ - amount,
            !.status = IF o.remaining = amount THEN "FILLED" ELSE "PARTIAL_FILLED"]

\* One fill of the loop: the two wallets are credited before the locks are
\* consumed, and consuming a lock may throw.
Fill(x, taker, maker) ==
  LET buyer == IF x.orders[taker].side = "BUY" THEN taker ELSE maker
      seller == IF buyer = taker THEN maker ELSE taker
      amount == IF x.orders[taker].remaining < x.orders[maker].remaining
                THEN x.orders[taker].remaining ELSE x.orders[maker].remaining
      notional == roundAmount(amount * x.orders[maker].price, PriceUnit)
      paid == [x EXCEPT
                 !.books = credit(credit(@, x.orders[buyer].owner, "LYNX", amount),
                                  x.orders[seller].owner, "SOL", notional),
                 !.orders[buyer] = consumeLockedAmount(@, notional)]
      done == [paid EXCEPT
                 !.orders[seller] = Reduce(consumeLockedAmount(@, amount), amount),
                 !.orders[buyer] = Reduce(@, amount),
                 !.trades = Append(@, [amount |-> amount, price |-> x.orders[maker].price])]
  IN  IF LockExceeded(paid.orders[buyer]) THEN [paid EXCEPT !.threw = TRUE]
      ELSE releaseUnusedLock(releaseUnusedLock(done, taker), maker)

\* The loop ends with the taker, or on an exception.
FillNext(x, taker, maker) ==
  IF x.threw \/ x.orders[taker].remaining = 0 THEN x ELSE Fill(x, taker, maker)

matchLynxOrder(x, i) ==
  LET o == x.orders[i]
  IN  FoldBestFirst(LAMBDA acc, m: FillNext(acc, i, m), [x EXCEPT !.threw = FALSE],
                    x.orders, o.side, OppositeOrders(x.orders, o.owner, o.side, o.price))

\* Debit the lock, append the order and match it.  An exception of an earlier
\* call is not forgotten.
Submit(w, side, amount, price) ==
  LET lock == LockFor(side, amount, price)
      placed == [Exchange EXCEPT
                   !.books = debit(@, w, lock.c, lock.amount),
                   !.orders = Append(@, NewOrder(w, side, amount, price, lock))]
      matched == matchLynxOrder(placed, Len(placed.orders))
  IN  /\ CanDebit(Books, w, lock.c, lock.amount)
      /\ SetExchange([matched EXCEPT !.threw = @ \/ threw])

placeOrder(w, side, amount, price) ==
  /\ Len(orders) < MaxOrders
  /\ Submit(w, side, amount, price)

\* What the book can fill of a market order within the client's bound, and
\* what that costs: totalNotional adds the rounded notional of every level.
WalkLevel(acc, maker) ==
  LET take == IF acc.left < maker.remaining THEN acc.left ELSE maker.remaining
  IN  IF acc.left = 0 THEN acc
      ELSE [left |-> acc.left - take, worst |-> maker.price,
            notional |-> acc.notional + roundAmount(take * maker.price, PriceUnit)]

Walk(w, side, amount, bound) ==
  FoldBestFirst(LAMBDA acc, m: WalkLevel(acc, orders[m]),
                [left |-> amount, worst |-> 0, notional |-> 0],
                orders, side, OppositeOrders(orders, w, side, bound))

placeLynxMarketOrder(w, side, amount, bound) ==
  LET walk == Walk(w, side, amount, bound)
      fillable == amount - walk.left
      lock == IF side = "BUY" THEN [c |-> "SOL", amount |-> walk.notional]
              ELSE [c |-> "LYNX", amount |-> fillable]
      placed == [Exchange EXCEPT
                   !.books = debit(@, w, lock.c, lock.amount),
                   !.orders = Append(@, NewOrder(w, side, fillable, walk.worst, lock))]
      matched == matchLynxOrder(placed, Len(placed.orders))
  IN  /\ Len(orders) < MaxOrders
      /\ fillable > 0
      /\ CanDebit(Books, w, lock.c, lock.amount)
      /\ SetExchange([matched EXCEPT !.threw = @ \/ threw])

\* What cancelOrder gives back: the lock that was not spent, or, for the
\* protocol's sale orders, which lock nothing, the LYNX that remains.
Refund_WholeLock(o) ==
  IF o.locked = NoLock THEN [c |-> "LYNX", amount |-> o.remaining]
  ELSE [c |-> o.lockedCurrency, amount |-> o.locked]
Refund(o) ==
  IF o.locked = NoLock THEN [c |-> "LYNX", amount |-> o.remaining]
  ELSE [c |-> o.lockedCurrency,
        amount |-> IF o.locked > o.spent THEN o.locked - o.spent ELSE 0]

cancelOrder(i) ==
  LET o == orders[i]
  IN  /\ o.status \notin {"FILLED", "CANCELLED"}
      /\ SetBooks(credit(Books, o.owner, Refund(o).c, Refund(o).amount))
      /\ orders' = [orders EXCEPT ![i].status = "CANCELLED",
                                  ![i].locked = IF o.locked = NoLock THEN @ ELSE o.spent]
      /\ UNCHANGED <<trades, threw>>

\* Time passes: the oldest trade leaves the TWAP window.
TradeLeavesWindow ==
  /\ trades # << >>
  /\ trades' = Tail(trades)
  /\ UNCHANGED <<wallets, treasury, orders, threw>>

\* The volume-weighted price of the window, once it holds enough trades.
getLynxTwapPrice ==
  LET volume == SumOver(LAMBDA i: trades[i].amount, DOMAIN trades)
  IN  IF Len(trades) < TwapMinTrades \/ volume < TwapMinVolume THEN NoPrice
      ELSE roundAmount(SumOver(LAMBDA i: trades[i].amount * trades[i].price, DOMAIN trades),
                       volume)

BookNext ==
  \/ \E w \in Wallets \ {TREASURY_WALLET}, side \in {"BUY", "SELL"}, amount \in BookAmounts :
       \/ \E price \in BookPrices : placeOrder(w, side, amount, price)
       \/ \E bound \in BookPrices \cup {NoPrice} : placeLynxMarketOrder(w, side, amount, bound)
  \/ \E i \in DOMAIN orders : cancelOrder(i)
  \/ TradeLeavesWindow

-----------------------------------------------------------------------------
\* What the orders hold of a currency: what is left of their locks, and the
\* LYNX the protocol offers without a lock.
HeldByOrders(c) ==
  LET live == {i \in DOMAIN orders : orders[i].status \notin {"FILLED", "CANCELLED"}}
      Held(i) == IF orders[i].locked = NoLock
                 THEN IF c = "LYNX" THEN orders[i].remaining ELSE 0
                 ELSE IF orders[i].lockedCurrency = c
                      THEN orders[i].locked - orders[i].spent ELSE 0
  IN  SumOver(Held, live)

(* Matching leaves nothing to match: no two live orders of different owners  *)
(* cross, unless one of them is a sale of the protocol, which resolveMarket  *)
(* puts on the book without matching it, or a match stopped on an exception. *)
BookUncrossed ==
  threw \/ \A i, j \in DOMAIN orders :
    ( /\ orders[i].pair = Pair /\ orders[j].pair = Pair
      /\ IsLive(orders[i]) /\ IsLive(orders[j])
      /\ orders[i].side = "BUY" /\ orders[j].side = "SELL"
      /\ orders[i].owner # orders[j].owner
      /\ orders[j].locked # NoLock )
    => orders[i].price < orders[j].price
=============================================================================
