---------------------------- MODULE ClientProofs ----------------------------
(***************************************************************************)
(* Proofs about modules Orders and Client, for any wallets, orders,        *)
(* markets, prices, amounts, price scale and clock. First the orders by    *)
(* themselves: an escrow always covers its order. Then the whole of chain, *)
(* index, keeper and web client: what module Orders promises of escrows    *)
(* holds whoever sends the instructions and whatever the index shows, and  *)
(* the program holds a buyer to the price that was on the screen.          *)
(*                                                                         *)
(* The orders: an order and its escrow are created together, and every     *)
(* instruction that changes one changes the other. A fill is charged at    *)
(* the buyer's own price, rounded down, so what is left of the escrow is   *)
(* at least the rounded price of what is left of the order, and exceeds it *)
(* by at most a lamport more than before the fill.                         *)
(*                                                                         *)
(* The system: every step of it leaves the orders alone, lets time pass,   *)
(* or is one instruction that module Orders accepts. Quotes: from the      *)
(* click to the landing the transaction carries the limit that was built   *)
(* from the quote, and the program compares it with its own pool.          *)
(***************************************************************************)
EXTENDS Client, TLAPS


-----------------------------------------------------------------------------
\* Division with a remainder, the only fact about \div the rest needs.
LEMMA Quotient ==
  ASSUME NEW x \in Nat, NEW s \in Nat \ {0}
  PROVE  /\ x \div s \in Nat
         /\ x % s \in Nat
         /\ x % s < s
         /\ x = s * (x \div s) + (x % s)
OBVIOUS

\* Two quotients rounded down add up to that of the sum, or to one less.
LEMMA QuotientOfSum ==
  ASSUME NEW x \in Nat, NEW y \in Nat, NEW s \in Nat \ {0}
  PROVE  /\ x \div s + y \div s <= (x + y) \div s
         /\ (x + y) \div s <= x \div s + y \div s + 1
<1> DEFINE a == x \div s
           b == y \div s
           c == (x + y) \div s
           ra == x % s
           rb == y % s
           rc == (x + y) % s
<1>1. a \in Nat /\ ra \in Nat /\ ra < s /\ x = s * a + ra
  BY Quotient
<1>2. b \in Nat /\ rb \in Nat /\ rb < s /\ y = s * b + rb
  BY Quotient
<1>3. c \in Nat /\ rc \in Nat /\ rc < s /\ x + y = s * c + rc
  <2>1. x + y \in Nat
    OBVIOUS
  <2> QED
    BY <2>1, Quotient
<1> HIDE DEF a, b, c, ra, rb, rc
<1>4. s * c - s * a - s * b = ra + rb - rc
  BY <1>1, <1>2, <1>3
<1>5. s * (c - a - b) = s * c - s * a - s * b
  BY <1>1, <1>2, <1>3
<1>6. s * (c - a - b) < 2 * s /\ s * (c - a - b) > -s
  BY <1>1, <1>2, <1>3, <1>4, <1>5
<1>7. ASSUME NEW d \in Int, s * d < 2 * s, s * d > -s
      PROVE  d \in {0, 1}
  <2>1. CASE d >= 2
    BY <2>1, <1>7
  <2>2. CASE d <= -1
    BY <2>2, <1>7
  <2> QED
    BY <2>1, <2>2, <1>7
<1>8. c - a - b \in {0, 1}
  BY <1>1, <1>2, <1>3, <1>6, <1>7
<1>9. a + b <= c /\ c <= a + b + 1
  BY <1>1, <1>2, <1>3, <1>8
<1> QED
  BY <1>9 DEF a, b, c
-----------------------------------------------------------------------------
LEMMA CostNat ==
  ASSUME NEW a \in Nat, NEW p \in Nat
  PROVE  SpotSolAmount(a, p) \in Nat
<1>1. a * p \in Nat
  OBVIOUS
<1> QED
  BY <1>1, Quotient, OrderNumbersAssumption DEF SpotSolAmount

\* The cost of an order is that of a part and of the rest, or a lamport more.
LEMMA CostOfParts ==
  ASSUME NEW r \in Nat, NEW f \in Nat, f <= r, NEW p \in Nat
  PROVE  /\ SpotSolAmount(r - f, p) + SpotSolAmount(f, p) <= SpotSolAmount(r, p)
         /\ SpotSolAmount(r, p) <= SpotSolAmount(r - f, p) + SpotSolAmount(f, p) + 1
<1>1. (r - f) * p \in Nat /\ f * p \in Nat
  OBVIOUS
<1>2. (r - f) * p + f * p = r * p
  OBVIOUS
<1> DEFINE x == (r - f) * p
           y == f * p
<1> HIDE DEF x, y
<1>3. /\ x \div PriceScale + y \div PriceScale <= (x + y) \div PriceScale
      /\ (x + y) \div PriceScale <= x \div PriceScale + y \div PriceScale + 1
  BY <1>1, QuotientOfSum, OrderNumbersAssumption DEF x, y
<1>4. x + y = r * p
  BY <1>2 DEF x, y
<1> QED
  BY <1>3, <1>4 DEF SpotSolAmount, x, y
-----------------------------------------------------------------------------
\* One order and its escrow.
BuyCovered(order, escrow) ==
  /\ SpotSolAmount(order.remaining, order.price_scaled) <= escrow
  /\ escrow <= SpotSolAmount(order.remaining, order.price_scaled)
                 + (order.amount - order.remaining)

SpotCovered(order, escrow) ==
  /\ order.side = "Buy" => BuyCovered(order, escrow)
  /\ order.side = "Sell" => escrow = order.remaining
  /\ (order.remaining > 0) = (order.status = "Open")
  /\ order.remaining <= order.amount

LimitCovered(order, escrow) == escrow = IF order.status = "Open" THEN order.amount ELSE 0

SpotSound ==
  /\ spotOrders \in [SpotKeys -> SpotOrder]
  /\ spotEscrow \in [SpotKeys -> Nat]
  /\ \A k \in SpotKeys : SpotCovered(spotOrders[k], spotEscrow[k])

LimitSound ==
  /\ limitOrders \in [LimitKeys -> LimitOrder]
  /\ limitEscrow \in [LimitKeys -> Nat]
  /\ \A k \in LimitKeys : LimitCovered(limitOrders[k], limitEscrow[k])

IInv == clock \in Nat /\ SpotSound /\ LimitSound

LEMMA CoversFollows == IInv => EscrowCovers
BY DEF IInv, SpotSound, LimitSound, SpotCovered, BuyCovered, LimitCovered, EscrowCovers, BuyIsCovered

LEMMA InitHolds == OrdersInit => IInv
<1> SUFFICES ASSUME OrdersInit PROVE IInv
  OBVIOUS
<1>1. 0 * 0 = 0 /\ SpotSolAmount(0, 0) = 0
  BY OrderNumbersAssumption DEF SpotSolAmount
<1>2. NoOrder \in SpotOrder /\ SpotCovered(NoOrder, 0)
  BY <1>1 DEF NoOrder, SpotOrder, SpotCovered, BuyCovered, OrderStatuses, Sides
<1>3. NoLimit \in LimitOrder /\ LimitCovered(NoLimit, 0)
  BY DEF NoLimit, LimitOrder, LimitCovered, OrderStatuses
<1> QED
  BY <1>2, <1>3 DEF OrdersInit, IInv, SpotSound, LimitSound
-----------------------------------------------------------------------------
\* An order that is written over with its escrow, both sound, keeps the book.
LEMMA SpotKept ==
  ASSUME SpotSound, NEW k \in SpotKeys, NEW order \in SpotOrder, NEW escrow \in Nat,
         SpotCovered(order, escrow),
         spotOrders' = [spotOrders EXCEPT ![k] = order],
         spotEscrow' = [spotEscrow EXCEPT ![k] = escrow]
  PROVE  SpotSound'
<1>1. \A j \in SpotKeys : spotOrders'[j] = IF j = k THEN order ELSE spotOrders[j]
  BY DEF SpotSound
<1>2. \A j \in SpotKeys : spotEscrow'[j] = IF j = k THEN escrow ELSE spotEscrow[j]
  BY DEF SpotSound
<1>3. \A j \in SpotKeys : SpotCovered(spotOrders'[j], spotEscrow'[j])
  BY <1>1, <1>2 DEF SpotSound
<1>4. spotOrders' \in [SpotKeys -> SpotOrder] /\ spotEscrow' \in [SpotKeys -> Nat]
  BY DEF SpotSound
<1> QED
  BY <1>3, <1>4 DEF SpotSound

LEMMA LimitKept ==
  ASSUME LimitSound, NEW k \in LimitKeys, NEW order \in LimitOrder, NEW escrow \in Nat,
         LimitCovered(order, escrow),
         limitOrders' = [limitOrders EXCEPT ![k] = order],
         limitEscrow' = [limitEscrow EXCEPT ![k] = escrow]
  PROVE  LimitSound'
<1>1. \A j \in LimitKeys : limitOrders'[j] = IF j = k THEN order ELSE limitOrders[j]
  BY DEF LimitSound
<1>2. \A j \in LimitKeys : limitEscrow'[j] = IF j = k THEN escrow ELSE limitEscrow[j]
  BY DEF LimitSound
<1>3. \A j \in LimitKeys : LimitCovered(limitOrders'[j], limitEscrow'[j])
  BY <1>1, <1>2 DEF LimitSound
<1>4. limitOrders' \in [LimitKeys -> LimitOrder] /\ limitEscrow' \in [LimitKeys -> Nat]
  BY DEF LimitSound
<1> QED
  BY <1>3, <1>4 DEF LimitSound

\* What an instruction leaves alone stays sound.
LEMMA SpotUnchanged ==
  ASSUME SpotSound, UNCHANGED spotVars
  PROVE  SpotSound'
BY DEF SpotSound, spotVars

LEMMA LimitUnchanged ==
  ASSUME LimitSound, UNCHANGED limitVars
  PROVE  LimitSound'
BY DEF LimitSound, limitVars
-----------------------------------------------------------------------------
LEMMA NewOrderTyped ==
  ASSUME NEW ix, IsInstruction(ix), clock \in Nat, NEW side \in Sides
  PROVE  NewOrder(ix, side) \in SpotOrder
BY DEF NewOrder, SpotOrder, IsInstruction, OrderStatuses

LEMMA PlaceBuyKeeps ==
  ASSUME IInv, NEW ix, IsInstruction(ix), CanPlaceSpotOrderBuy(ix), PlaceSpotOrderBuy(ix)
  PROVE  IInv'
<1> DEFINE order == NewOrder(ix, "Buy")
           cost == SpotSolAmount(ix.amount, ix.price)
<1>1. order \in SpotOrder
  BY NewOrderTyped DEF IInv, Sides
<1>2. cost \in Nat
  BY CostNat DEF IsInstruction
<1>3. SpotCovered(order, cost)
  BY <1>2 DEF SpotCovered, BuyCovered, NewOrder, CanPlaceSpotOrderBuy, MayPlace, IsInstruction
<1>4. ix.key \in SpotKeys
  BY DEF CanPlaceSpotOrderBuy, MayPlace
<1>5. SpotSound'
  <2> HIDE DEF order, cost
  <2>1. spotOrders' = [spotOrders EXCEPT ![ix.key] = order]
        /\ spotEscrow' = [spotEscrow EXCEPT ![ix.key] = cost]
    BY DEF PlaceSpotOrderBuy, order, cost
  <2> QED
    BY <1>1, <1>2, <1>3, <1>4, <2>1, SpotKept DEF IInv
<1>6. LimitSound'
  BY LimitUnchanged DEF IInv, PlaceSpotOrderBuy
<1> QED
  BY <1>5, <1>6 DEF IInv, PlaceSpotOrderBuy

LEMMA PlaceSellKeeps ==
  ASSUME IInv, NEW ix, IsInstruction(ix), CanPlaceSpotOrderSell(ix), PlaceSpotOrderSell(ix)
  PROVE  IInv'
<1> DEFINE order == NewOrder(ix, "Sell")
<1>1. order \in SpotOrder /\ ix.amount \in Nat
  BY NewOrderTyped DEF IInv, Sides, IsInstruction
<1>2. SpotCovered(order, ix.amount)
  BY DEF SpotCovered, NewOrder, CanPlaceSpotOrderSell, MayPlace, IsInstruction
<1>3. ix.key \in SpotKeys
  BY DEF CanPlaceSpotOrderSell, MayPlace
<1>4. SpotSound'
  <2> HIDE DEF order
  <2>1. spotOrders' = [spotOrders EXCEPT ![ix.key] = order]
        /\ spotEscrow' = [spotEscrow EXCEPT ![ix.key] = ix.amount]
    BY DEF PlaceSpotOrderSell, order
  <2> QED
    BY <1>1, <1>2, <1>3, <2>1, SpotKept DEF IInv
<1>5. LimitSound'
  BY LimitUnchanged DEF IInv, PlaceSpotOrderSell
<1> QED
  BY <1>4, <1>5 DEF IInv, PlaceSpotOrderSell

\* A fill leaves both orders and both escrows sound.
LEMMA FilledBuy ==
  ASSUME NEW order \in SpotOrder, NEW escrow \in Nat, NEW fill \in Nat \ {0},
         SpotCovered(order, escrow), order.side = "Buy", order.status = "Open",
         fill <= order.remaining, SpotSolAmount(fill, order.price_scaled) <= escrow
  PROVE  /\ Reduced(order, fill) \in SpotOrder
         /\ escrow - SpotSolAmount(fill, order.price_scaled) \in Nat
         /\ SpotCovered(Reduced(order, fill), escrow - SpotSolAmount(fill, order.price_scaled))
<1> DEFINE left == order.remaining - fill
           paid == SpotSolAmount(fill, order.price_scaled)
           rest == SpotSolAmount(left, order.price_scaled)
           whole == SpotSolAmount(order.remaining, order.price_scaled)
<1>1. /\ order.remaining \in Nat /\ order.amount \in Nat /\ order.price_scaled \in Nat
      /\ left \in Nat
  BY DEF SpotOrder
<1>2. Reduced(order, fill) \in SpotOrder
  BY <1>1 DEF Reduced, SpotOrder, OrderStatuses
<1>3. /\ Reduced(order, fill).remaining = left
      /\ Reduced(order, fill).status = IF order.remaining = fill THEN "Filled" ELSE "Open"
      /\ Reduced(order, fill).side = "Buy"
      /\ Reduced(order, fill).amount = order.amount
      /\ Reduced(order, fill).price_scaled = order.price_scaled
  BY DEF Reduced, SpotOrder
<1>4. rest \in Nat /\ paid \in Nat /\ whole \in Nat
  BY <1>1, CostNat
<1>5. rest + paid <= whole /\ whole <= rest + paid + 1
  BY <1>1, CostOfParts
<1>6. whole <= escrow /\ escrow <= whole + (order.amount - order.remaining)
  BY DEF SpotCovered, BuyCovered
<1>7. paid <= escrow
  OBVIOUS
<1>8. rest <= escrow - paid /\ escrow - paid <= rest + (order.amount - left)
  <2> HIDE DEF rest, paid, whole
  <2>1. order.amount - left = order.amount - order.remaining + fill
    BY <1>1
  <2> QED
    BY <1>1, <1>4, <1>5, <1>6, <2>1
<1>9. (left > 0) = (Reduced(order, fill).status = "Open")
  BY <1>1, <1>3
<1>10. left <= order.amount
  BY <1>1 DEF SpotCovered
<1>11. SpotCovered(Reduced(order, fill), escrow - paid)
  <2> HIDE DEF left, paid, rest
  <2>1. BuyCovered(Reduced(order, fill), escrow - paid)
    BY <1>3, <1>8 DEF BuyCovered, rest
  <2> QED
    BY <2>1, <1>3, <1>9, <1>10 DEF SpotCovered
<1> QED
  BY <1>2, <1>4, <1>7, <1>11

LEMMA FilledSell ==
  ASSUME NEW order \in SpotOrder, NEW escrow \in Nat, NEW fill \in Nat \ {0},
         SpotCovered(order, escrow), order.side = "Sell", order.status = "Open",
         fill <= order.remaining
  PROVE  /\ Reduced(order, fill) \in SpotOrder
         /\ escrow - fill \in Nat
         /\ SpotCovered(Reduced(order, fill), escrow - fill)
<1>1. /\ order.remaining \in Nat /\ order.amount \in Nat
      /\ order.remaining - fill \in Nat
      /\ escrow = order.remaining /\ order.remaining <= order.amount
  BY DEF SpotOrder, SpotCovered
<1>2. Reduced(order, fill) \in SpotOrder
  BY <1>1 DEF Reduced, SpotOrder, OrderStatuses
<1>3. /\ Reduced(order, fill).remaining = order.remaining - fill
      /\ Reduced(order, fill).status = IF order.remaining = fill THEN "Filled" ELSE "Open"
      /\ Reduced(order, fill).side = "Sell"
      /\ Reduced(order, fill).amount = order.amount
  BY DEF Reduced, SpotOrder
<1>4. (order.remaining - fill > 0) = (Reduced(order, fill).status = "Open")
  BY <1>1, <1>3
<1> QED
  BY <1>1, <1>2, <1>3, <1>4 DEF SpotCovered

LEMMA MatchKeeps ==
  ASSUME IInv, NEW ix, IsInstruction(ix), CanMatchSpotOrders(ix), MatchSpotOrders(ix)
  PROVE  IInv'
<1> DEFINE buy == ix.key
           sell == ix.other
           fill == ix.amount
           paid == SpotSolAmount(fill, spotOrders[buy].price_scaled)
<1>1. buy \in SpotKeys /\ sell \in SpotKeys /\ fill \in Nat \ {0}
  BY DEF CanMatchSpotOrders, IsInstruction
<1>2. /\ spotOrders[buy] \in SpotOrder /\ spotEscrow[buy] \in Nat
      /\ spotOrders[sell] \in SpotOrder /\ spotEscrow[sell] \in Nat
      /\ SpotCovered(spotOrders[buy], spotEscrow[buy])
      /\ SpotCovered(spotOrders[sell], spotEscrow[sell])
  BY <1>1 DEF IInv, SpotSound
<1>3. /\ spotOrders[buy].side = "Buy" /\ spotOrders[buy].status = "Open"
      /\ spotOrders[sell].side = "Sell" /\ spotOrders[sell].status = "Open"
      /\ fill <= spotOrders[buy].remaining /\ fill <= spotOrders[sell].remaining
      /\ paid <= spotEscrow[buy]
  <2>1. paid <= spotEscrow[buy]
    <3>1. paid \in Nat
      BY <1>1, <1>2, CostNat DEF SpotOrder
    <3> QED
      BY <3>1, <1>2 DEF CanMatchSpotOrders, BuyerReserved
  <2> QED
    BY <2>1 DEF CanMatchSpotOrders, IsLive
<1>4. buy # sell
  BY <1>3
<1>5. /\ Reduced(spotOrders[buy], fill) \in SpotOrder
      /\ spotEscrow[buy] - paid \in Nat
      /\ SpotCovered(Reduced(spotOrders[buy], fill), spotEscrow[buy] - paid)
  BY <1>1, <1>2, <1>3, FilledBuy
<1>6. /\ Reduced(spotOrders[sell], fill) \in SpotOrder
      /\ spotEscrow[sell] - fill \in Nat
      /\ SpotCovered(Reduced(spotOrders[sell], fill), spotEscrow[sell] - fill)
  BY <1>1, <1>2, <1>3, FilledSell
<1>7. /\ spotOrders' = [spotOrders EXCEPT ![buy] = Reduced(spotOrders[buy], fill),
                                         ![sell] = Reduced(spotOrders[sell], fill)]
      /\ spotEscrow' = [spotEscrow EXCEPT ![buy] = spotEscrow[buy] - paid,
                                         ![sell] = spotEscrow[sell] - fill]
  BY DEF MatchSpotOrders, BuyerReserved
<1>8. SpotSound'
  <2> DEFINE newBuy == Reduced(spotOrders[buy], fill)
             newSell == Reduced(spotOrders[sell], fill)
             buyRest == spotEscrow[buy] - paid
             sellRest == spotEscrow[sell] - fill
  <2>1. /\ newBuy \in SpotOrder /\ newSell \in SpotOrder
        /\ buyRest \in Nat /\ sellRest \in Nat
        /\ SpotCovered(newBuy, buyRest) /\ SpotCovered(newSell, sellRest)
    BY <1>5, <1>6
  <2>2. /\ spotOrders' = [spotOrders EXCEPT ![buy] = newBuy, ![sell] = newSell]
        /\ spotEscrow' = [spotEscrow EXCEPT ![buy] = buyRest, ![sell] = sellRest]
    BY <1>7
  <2> HIDE DEF newBuy, newSell, buyRest, sellRest, buy, sell, fill, paid
  <2>3. /\ spotOrders' \in [SpotKeys -> SpotOrder]
        /\ spotEscrow' \in [SpotKeys -> Nat]
    BY <1>1, <2>1, <2>2 DEF IInv, SpotSound
  <2>4. ASSUME NEW k \in SpotKeys
        PROVE  SpotCovered(spotOrders'[k], spotEscrow'[k])
    <3>1. CASE k = buy
      <4>1. spotOrders'[k] = newBuy /\ spotEscrow'[k] = buyRest
        BY <1>1, <1>4, <2>2, <3>1 DEF IInv, SpotSound
      <4> QED
        BY <4>1, <2>1
    <3>2. CASE k = sell
      <4>1. spotOrders'[k] = newSell /\ spotEscrow'[k] = sellRest
        BY <1>1, <1>4, <2>2, <3>2 DEF IInv, SpotSound
      <4> QED
        BY <4>1, <2>1
    <3>3. CASE k # buy /\ k # sell
      <4>1. spotOrders'[k] = spotOrders[k] /\ spotEscrow'[k] = spotEscrow[k]
        BY <2>2, <3>3 DEF IInv, SpotSound
      <4> QED
        BY <4>1 DEF IInv, SpotSound
    <3> QED
      BY <3>1, <3>2, <3>3
  <2> QED
    BY <2>3, <2>4 DEF SpotSound
<1>9. LimitSound'
  BY LimitUnchanged DEF IInv, MatchSpotOrders
<1> QED
  BY <1>8, <1>9 DEF IInv, MatchSpotOrders

LEMMA CancelSpotKeeps ==
  ASSUME IInv, NEW ix, NEW side \in Sides, CanCancelSpotOrder(ix, side), CancelSpotOrder(ix)
  PROVE  IInv'
<1> DEFINE k == ix.key
           order == [spotOrders[k] EXCEPT !.remaining = 0, !.status = "Cancelled"]
           escrow == spotEscrow[k] - Refund(k)
<1>1. k \in SpotKeys /\ spotOrders[k].status = "Open"
  BY DEF CanCancelSpotOrder
<1>2. /\ spotOrders[k] \in SpotOrder /\ spotEscrow[k] \in Nat
      /\ SpotCovered(spotOrders[k], spotEscrow[k])
  BY <1>1 DEF IInv, SpotSound
<1>3. /\ spotOrders[k].remaining \in Nat /\ spotOrders[k].amount \in Nat
      /\ spotOrders[k].price_scaled \in Nat /\ spotOrders[k].side \in Sides
      /\ spotOrders[k].remaining <= spotOrders[k].amount
  BY <1>2 DEF SpotOrder, SpotCovered
<1>4. order \in SpotOrder
  BY <1>2 DEF SpotOrder, OrderStatuses
<1>5. /\ order.remaining = 0 /\ order.status = "Cancelled"
      /\ order.side = spotOrders[k].side /\ order.amount = spotOrders[k].amount
      /\ order.price_scaled = spotOrders[k].price_scaled
  BY <1>2 DEF SpotOrder
<1>6. escrow \in Nat /\ SpotCovered(order, escrow)
  <2>1. CASE spotOrders[k].side = "Buy"
    <3> DEFINE cost == SpotSolAmount(spotOrders[k].remaining, spotOrders[k].price_scaled)
    <3>1. cost \in Nat /\ Refund(k) = cost
      BY <1>3, <2>1, CostNat DEF Refund
    <3>2. /\ cost <= spotEscrow[k]
          /\ spotEscrow[k] <= cost + (spotOrders[k].amount - spotOrders[k].remaining)
      BY <1>2, <2>1 DEF SpotCovered, BuyCovered
    <3>3. SpotSolAmount(0, spotOrders[k].price_scaled) = 0
      <4>1. 0 * spotOrders[k].price_scaled = 0
        BY <1>3
      <4> QED
        BY <4>1, OrderNumbersAssumption DEF SpotSolAmount
    <3>4. escrow \in Nat /\ escrow <= spotOrders[k].amount
      <4> HIDE DEF cost
      <4> QED
        BY <1>2, <1>3, <3>1, <3>2
    <3>5. BuyCovered(order, escrow)
      <4> HIDE DEF order, escrow
      <4> QED
        BY <1>3, <1>5, <3>3, <3>4 DEF BuyCovered
    <3> QED
      <4> HIDE DEF order, escrow
      <4> QED
        BY <1>3, <1>5, <2>1, <3>4, <3>5 DEF SpotCovered
  <2>2. CASE spotOrders[k].side = "Sell"
    <3>1. Refund(k) = spotOrders[k].remaining /\ spotEscrow[k] = spotOrders[k].remaining
      BY <1>2, <2>2 DEF Refund, SpotCovered
    <3>2. escrow = 0
      BY <1>2, <3>1
    <3> HIDE DEF order, escrow
    <3> QED
      BY <1>3, <1>5, <2>2, <3>2 DEF SpotCovered
  <2> QED
    BY <1>3, <2>1, <2>2 DEF Sides
<1>7. SpotSound'
  <2>1. spotOrders' = [spotOrders EXCEPT ![k] = order]
        /\ spotEscrow' = [spotEscrow EXCEPT ![k] = escrow]
    BY DEF CancelSpotOrder
  <2> HIDE DEF k, order, escrow
  <2> QED
    BY <1>1, <1>4, <1>6, <2>1, SpotKept DEF IInv
<1>8. LimitSound'
  BY LimitUnchanged DEF IInv, CancelSpotOrder
<1> QED
  BY <1>7, <1>8 DEF IInv, CancelSpotOrder
-----------------------------------------------------------------------------
LEMMA CreateLimitKeeps ==
  ASSUME IInv, NEW ix, IsInstruction(ix), NEW currency, CanCreateLimitOrder(ix, currency),
         CreateLimitOrder(ix)
  PROVE  IInv'
<1> DEFINE order == [status |-> "Open", owner |-> ix.signer, market |-> ix.other,
                     outcome |-> ix.outcome, amount |-> ix.amount,
                     limit_price_bps |-> ix.price, created_ts |-> clock,
                     expires_ts |-> ix.expires]
<1>1. ix.key \in LimitKeys /\ ix.other \in Markets /\ ix.amount \in Nat
  BY DEF CanCreateLimitOrder, MayEnter, IsInstruction
<1>2. order \in LimitOrder
  BY <1>1 DEF IInv, LimitOrder, OrderStatuses, IsInstruction
<1>3. LimitCovered(order, ix.amount)
  BY DEF LimitCovered
<1>4. LimitSound'
  <2>1. /\ limitOrders' = [limitOrders EXCEPT ![ix.key] = order]
        /\ limitEscrow' = [limitEscrow EXCEPT ![ix.key] = ix.amount]
    BY DEF CreateLimitOrder
  <2> HIDE DEF order
  <2> QED
    BY <1>1, <1>2, <1>3, <2>1, LimitKept DEF IInv
<1>5. SpotSound'
  BY SpotUnchanged DEF IInv, CreateLimitOrder
<1> QED
  BY <1>4, <1>5 DEF IInv, CreateLimitOrder

\* An order that ends pays out exactly what its escrow has.
LEMMA EndedLimit ==
  ASSUME IInv, NEW k \in LimitKeys, limitOrders[k].status = "Open",
         NEW status \in {"Filled", "Cancelled"},
         limitEscrow' = [limitEscrow EXCEPT ![k] = limitEscrow[k] - limitOrders[k].amount],
         limitOrders' = [limitOrders EXCEPT ![k] = [limitOrders[k] EXCEPT !.status = status]]
  PROVE  LimitSound'
<1> DEFINE order == [limitOrders[k] EXCEPT !.status = status]
           escrow == limitEscrow[k] - limitOrders[k].amount
<1>1. /\ limitOrders[k] \in LimitOrder /\ limitEscrow[k] \in Nat
      /\ limitEscrow[k] = limitOrders[k].amount
  BY DEF IInv, LimitSound, LimitCovered
<1>2. order \in LimitOrder /\ order.status = status
  BY <1>1 DEF LimitOrder, OrderStatuses
<1>3. escrow = 0
  BY <1>1
<1>4. LimitCovered(order, escrow)
  BY <1>2, <1>3 DEF LimitCovered
<1> HIDE DEF order, escrow
<1>5. /\ limitOrders' = [limitOrders EXCEPT ![k] = order]
      /\ limitEscrow' = [limitEscrow EXCEPT ![k] = escrow]
  BY DEF order, escrow
<1> QED
  BY <1>2, <1>3, <1>4, <1>5, LimitKept DEF IInv

LEMMA ExecuteLimitKeeps ==
  ASSUME IInv, NEW ix, NEW currency, CanExecuteLimitOrder(ix, currency), ExecuteLimitOrder(ix)
  PROVE  IInv'
<1>1. ix.key \in LimitKeys /\ limitOrders[ix.key].status = "Open"
  BY DEF CanExecuteLimitOrder
<1>2. LimitSound'
  <2>1. /\ limitEscrow' = [limitEscrow EXCEPT
             ![ix.key] = limitEscrow[ix.key] - limitOrders[ix.key].amount]
        /\ limitOrders' = [limitOrders EXCEPT
             ![ix.key] = [limitOrders[ix.key] EXCEPT !.status = "Filled"]]
    BY DEF ExecuteLimitOrder
  <2> QED
    BY <1>1, <2>1, EndedLimit
<1>3. SpotSound'
  BY SpotUnchanged DEF IInv, ExecuteLimitOrder
<1> QED
  BY <1>2, <1>3 DEF IInv, ExecuteLimitOrder

LEMMA CancelLimitKeeps ==
  ASSUME IInv, NEW ix, NEW currency, CanCancelLimitOrder(ix, currency), CancelLimitOrder(ix)
  PROVE  IInv'
<1>1. ix.key \in LimitKeys /\ limitOrders[ix.key].status = "Open"
  BY DEF CanCancelLimitOrder
<1>2. LimitSound'
  <2>1. /\ limitEscrow' = [limitEscrow EXCEPT
             ![ix.key] = limitEscrow[ix.key] - limitOrders[ix.key].amount]
        /\ limitOrders' = [limitOrders EXCEPT
             ![ix.key] = [limitOrders[ix.key] EXCEPT !.status = "Cancelled"]]
    BY DEF CancelLimitOrder
  <2> QED
    BY <1>1, <2>1, EndedLimit
<1>3. SpotSound'
  BY SpotUnchanged DEF IInv, CancelLimitOrder
<1> QED
  BY <1>2, <1>3 DEF IInv, CancelLimitOrder
-----------------------------------------------------------------------------
\* No other instruction touches an order or an escrow.
LEMMA OthersKeep ==
  ASSUME IInv, UNCHANGED <<clock, spotVars, limitVars>>
  PROVE  IInv'
BY SpotUnchanged, LimitUnchanged DEF IInv

LEMMA TickKeeps ==
  ASSUME IInv, OrdersTick
  PROVE  IInv'
<1>1. clock' \in Nat
  BY DEF IInv, OrdersTick
<1> QED
  BY <1>1, SpotUnchanged, LimitUnchanged DEF IInv, OrdersTick

LEMMA ExecuteKeeps ==
  ASSUME IInv, NEW ix, IsInstruction(ix), ExecuteOrder(ix)
  PROVE  IInv'
<1> USE DEF ExecuteOrder
<1>1. CASE ix.op = "place_spot_order_buy"
  <2>1. CanPlaceSpotOrderBuy(ix) /\ PlaceSpotOrderBuy(ix)
    BY <1>1 DEF AcceptsOrder, AppliesOrder
  <2> QED
    BY <2>1, PlaceBuyKeeps
<1>2. CASE ix.op = "place_spot_order_sell"
  <2>1. CanPlaceSpotOrderSell(ix) /\ PlaceSpotOrderSell(ix)
    BY <1>2 DEF AcceptsOrder, AppliesOrder
  <2> QED
    BY <2>1, PlaceSellKeeps
<1>3. CASE ix.op = "match_spot_orders"
  <2>1. CanMatchSpotOrders(ix) /\ MatchSpotOrders(ix)
    BY <1>3 DEF AcceptsOrder, AppliesOrder
  <2> QED
    BY <2>1, MatchKeeps
<1>4. CASE ix.op = "cancel_spot_order_buy"
  <2>1. CanCancelSpotOrder(ix, "Buy") /\ CancelSpotOrder(ix)
    BY <1>4 DEF AcceptsOrder, AppliesOrder
  <2> QED
    BY <2>1, CancelSpotKeeps DEF Sides
<1>5. CASE ix.op = "cancel_spot_order_sell"
  <2>1. CanCancelSpotOrder(ix, "Sell") /\ CancelSpotOrder(ix)
    BY <1>5 DEF AcceptsOrder, AppliesOrder
  <2> QED
    BY <2>1, CancelSpotKeeps DEF Sides
<1>6. CASE ix.op \in {"create_prediction_limit_order_sol", "create_prediction_limit_order_lynx"}
  <2>1. PICK currency \in {"SOL", "LYNX"} : CanCreateLimitOrder(ix, currency)
    BY <1>6 DEF AcceptsOrder
  <2>2. CreateLimitOrder(ix)
    BY <1>6 DEF AppliesOrder
  <2> QED
    BY <2>1, <2>2, CreateLimitKeeps
<1>7. CASE ix.op \in {"execute_prediction_limit_order_sol",
                      "execute_prediction_limit_order_lynx"}
  <2>1. PICK currency \in {"SOL", "LYNX"} : CanExecuteLimitOrder(ix, currency)
    BY <1>7 DEF AcceptsOrder
  <2>2. ExecuteLimitOrder(ix)
    BY <1>7 DEF AppliesOrder
  <2> QED
    BY <2>1, <2>2, ExecuteLimitKeeps
<1>8. CASE ix.op \in {"cancel_prediction_limit_order_sol", "cancel_prediction_limit_order_lynx"}
  <2>1. PICK currency \in {"SOL", "LYNX"} : CanCancelLimitOrder(ix, currency)
    BY <1>8 DEF AcceptsOrder
  <2>2. CancelLimitOrder(ix)
    BY <1>8 DEF AppliesOrder
  <2> QED
    BY <2>1, <2>2, CancelLimitKeeps
<1>9. CASE SetPaused(ix) \/ BuyPosition(ix) \/ CreateMarket(ix) \/ InitMarketLynxVault(ix)
             \/ AdvanceMarket(ix) \/ Claim(ix)
  BY <1>9, OthersKeep DEF SetPaused, BuyPosition, CreateMarket, InitMarketLynxVault,
     AdvanceMarket, Claim
<1> QED
  BY <1>1, <1>2, <1>3, <1>4, <1>5, <1>6, <1>7, <1>8, <1>9 DEF AppliesOrder

\* Every step of the orders keeps the invariant.
LEMMA StepKeeps ==
  ASSUME IInv, [OrdersNext]_ordersVars
  PROVE  IInv'
<1>1. CASE OrdersTick
  BY <1>1, TickKeeps
<1>2. CASE \E ix \in Instructions : ExecuteOrder(ix)
  BY <1>2, ExecuteKeeps DEF ExecuteOrder
<1>3. CASE UNCHANGED ordersVars
  BY <1>3, OthersKeep DEF ordersVars
<1> QED
  BY <1>1, <1>2, <1>3 DEF OrdersNext

\* Whatever fills and cancellations race for an order, for any prices, amounts
\* and order of the instructions, its escrow holds what it still owes, and of
\* roundings at most a lamport for each micro-LYNX bought (lib.rs,
\* match_spot_orders and the cancel_* and execute_prediction_limit_order_*
\* instructions).
THEOREM EscrowsStayCovered == OrdersSpec => []EscrowCovers
<1>1. OrdersSpec => []IInv
  BY InitHolds, StepKeeps, PTL DEF OrdersSpec
<1> QED
  BY <1>1, CoversFollows, PTL

-----------------------------------------------------------------------------
\* The Market accounts, as typed as the price needs.
MarketAccount ==
  [status : MarketStatuses, currency : {"SOL", "LYNX"}, is_ternary : BOOLEAN,
   cutoff_ts : Nat, resolve_ts : Nat, pool_total : Nat, total : [Outcomes -> Nat],
   proposed_ts : Nat, proposed_result : Outcomes \cup {"Unresolved"},
   result : Outcomes \cup {"Unresolved"}]

MarketsTyped == markets \in [Markets -> MarketAccount]

\* Any accounts whose escrows are sound, and a client that did nothing yet.
SystemInit == IInv /\ MarketsTyped /\ client = IdleClient(client.todo)

SystemSpec == SystemInit /\ [][SystemNext]_systemVars

\* A chain with none of these accounts is such a state.
LEMMA EmptyChainStarts ==
  OrdersInit /\ client = IdleClient(client.todo) => SystemInit
<1>1. NoMarket \in MarketAccount
  BY DEF NoMarket, MarketAccount, MarketStatuses
<1> QED
  BY <1>1, InitHolds DEF SystemInit, OrdersInit, MarketsTyped
-----------------------------------------------------------------------------
\* An instruction on orders that lands is one the orders' own module accepts.
LEMMA LandingExecutes ==
  ASSUME NEW ix, Accepts(ix), Applies(ix)
  PROVE  ExecuteOrder(ix) \/ UNCHANGED ordersVars
<1>1. CASE AppliesOrder(ix)
  <2>1. ~AcceptsOther(ix)
    BY <1>1 DEF AppliesOrder, AcceptsOther
  <2> QED
    BY <1>1, <2>1 DEF Accepts, ExecuteOrder
<1>2. CASE AppliesDuel(ix) \/ AppliesDao(ix) \/ AppliesStake(ix)
  BY <1>2 DEF AppliesDuel, AppliesDao, AppliesStake
<1> QED
  BY <1>1, <1>2 DEF Applies

LEMMA LandingKeeps ==
  ASSUME IInv, NEW ix, Lands(ix)
  PROVE  IInv'
<1>1. ExecuteOrder(ix) \/ UNCHANGED ordersVars
  BY LandingExecutes DEF Lands
<1>2. CASE ExecuteOrder(ix)
  BY <1>2, ExecuteKeeps DEF ExecuteOrder
<1>3. CASE UNCHANGED ordersVars
  BY <1>3, OthersKeep DEF ordersVars
<1> QED
  BY <1>1, <1>2, <1>3

\* What a step of the system does to the orders.
LEMMA SystemStep ==
  ASSUME [SystemNext]_systemVars
  PROVE  \/ UNCHANGED ordersVars
         \/ OrdersTick
         \/ \E ix : Lands(ix)
<1>1. CASE ClientNext
  BY <1>1 DEF ClientNext, Click, Send, TxLands, TxFails, TxUnconfirmed, Confirmed,
     ListMarket, ListingFails, Untouched, chainVars
<1>2. CASE Reconcile
  BY <1>2 DEF Reconcile, Alone, RefreshTick, Fetch, Rebuild, chainVars
<1>3. CASE KeeperLooks
  BY <1>3 DEF KeeperLooks, Alone, RunKeeperOnce, KeeperMovesOn, KeeperSends, chainVars
<1>4. CASE KeeperWaits
  BY <1>4 DEF KeeperWaits, Alone, KeeperTxLands, KeeperTxRejected, KeeperConfirms,
     KeeperGivesUp, chainVars
<1>5. CASE Failures
  BY <1>5 DEF Failures, Alone, FetchFails, StopChainIndexer, ConfigUnreadable, Lose, chainVars
<1>6. CASE \E kind \in Kinds : Alone(Deliver(kind))
  BY <1>6 DEF Alone, Deliver, chainVars
<1>7. CASE Alone(BackoffEnds) \/ Alone(StartChainIndexer) \/ Alone(ThrottleEnds)
  BY <1>7 DEF Alone, BackoffEnds, StartChainIndexer, ThrottleEnds, chainVars
<1>8. CASE Alone(TimePasses)
  BY <1>8 DEF Alone, TimePasses, ChainTick
<1>9. CASE \E ix \in others : Alone(SomebodySends(ix))
  BY <1>9 DEF Alone, SomebodySends
<1>10. CASE UNCHANGED systemVars
  BY <1>10 DEF systemVars, chainVars
<1> QED
  BY <1>1, <1>2, <1>3, <1>4, <1>5, <1>6, <1>7, <1>8, <1>9, <1>10 DEF SystemNext

LEMMA SystemKeeps ==
  ASSUME IInv, [SystemNext]_systemVars
  PROVE  IInv'
<1>1. CASE UNCHANGED ordersVars
  BY <1>1, OthersKeep DEF ordersVars
<1>2. CASE OrdersTick
  BY <1>2, TickKeeps
<1>3. CASE \E ix : Lands(ix)
  BY <1>3, LandingKeeps
<1> QED
  BY <1>1, <1>2, <1>3, SystemStep

\* EscrowCovers of the whole system: clients with stale indexes, a keeper with
\* stale entries and anybody else send what they like, fail or land in any
\* order, and every order's escrow still covers it (lib.rs,
\* match_spot_orders and the limit order instructions, under chain.ts,
\* runKeeperCycle and useProgram.ts).
THEOREM EscrowsCoveredInSystem == SystemSpec => []EscrowCovers
<1>1. SystemInit => IInv
  BY DEF SystemInit
<1>2. SystemSpec => []IInv
  BY <1>1, SystemKeeps, PTL DEF SystemSpec
<1> QED
  BY <1>2, CoversFollows, PTL
-----------------------------------------------------------------------------
\* What LYNX leaves after the burn is not negative.
LEMMA NetIsNat ==
  ASSUME NEW m, NEW amount \in Nat
  PROVE  NetOf(m, amount) \in Nat
<1>1. Bps(amount, LYNX_EVENT_BURN_BPS) = (amount * 1500) \div 10000
  BY DEF Bps, MulDiv, LYNX_EVENT_BURN_BPS, BPS_DENOMINATOR
<1>2. (amount * 1500) \div 10000 \in 0..amount
  OBVIOUS
<1> QED
  BY <1>1, <1>2 DEF NetOf

LEMMA TotalGrows ==
  ASSUME NEW total \in [Outcomes -> Nat], NEW outcome, NEW amount \in Nat
  PROVE  [total EXCEPT ![outcome] = total[outcome] + amount] \in [Outcomes -> Nat]
<1>1. CASE outcome \in Outcomes
  BY <1>1
<1>2. CASE outcome \notin Outcomes
  BY <1>2
<1> QED
  BY <1>1, <1>2

LEMMA MarketGrows ==
  ASSUME NEW market \in MarketAccount, NEW pool \in Nat, NEW total \in [Outcomes -> Nat]
  PROVE  [market EXCEPT !.status = "Active", !.pool_total = pool, !.total = total]
           \in MarketAccount
BY DEF MarketAccount, MarketStatuses

LEMMA EntryKeepsTypes ==
  ASSUME MarketsTyped, NEW m, NEW owner, NEW outcome, NEW amount \in Nat,
         EnterPool(m, owner, outcome, amount)
  PROVE  MarketsTyped'
<1> DEFINE pool == markets[m].pool_total + amount
           total == [markets[m].total EXCEPT ![outcome] = markets[m].total[outcome] + amount]
           entered == [markets[m] EXCEPT !.status = "Active", !.pool_total = pool, !.total = total]
<1>1. markets' = [markets EXCEPT ![m] = entered]
  BY DEF EnterPool
<1>2. ASSUME m \in Markets PROVE entered \in MarketAccount
  <2>1. markets[m] \in MarketAccount
    BY <1>2 DEF MarketsTyped
  <2>2. markets[m].total \in [Outcomes -> Nat] /\ markets[m].pool_total \in Nat
    BY <2>1 DEF MarketAccount
  <2>3. total \in [Outcomes -> Nat]
    BY <2>2, TotalGrows
  <2>4. pool \in Nat
    BY <2>2
  <2> HIDE DEF pool, total
  <2> QED
    BY <2>1, <2>3, <2>4, MarketGrows
<1> HIDE DEF entered
<1> QED
  BY <1>1, <1>2 DEF MarketsTyped

LEMMA CreationKeepsTypes ==
  ASSUME MarketsTyped, NEW ix, IsInstruction(ix), CreateMarket(ix)
  PROVE  MarketsTyped'
<1>1. [NoMarket EXCEPT !.status = "Open", !.currency = ix.currency,
         !.is_ternary = ix.is_ternary, !.cutoff_ts = ix.expires,
         !.resolve_ts = ix.resolve] \in MarketAccount
  BY DEF IsInstruction, NoMarket, MarketAccount, MarketStatuses
<1> QED
  BY <1>1 DEF MarketsTyped, CreateMarket

LEMMA ResolutionKeepsTypes ==
  ASSUME MarketsTyped, clock \in Nat, NEW ix, IsInstruction(ix), ix.key \in Markets,
         ix.op \in {"cut_off_market", "propose_resolution", "dispute_resolution",
                    "finalize_resolution"},
         AdvanceMarket(ix)
  PROVE  MarketsTyped'
<1>1. markets[ix.key] \in MarketAccount
  BY DEF MarketsTyped
<1>2. Advanced(ix, markets[ix.key]) \in MarketAccount
  BY <1>1 DEF Advanced, MarketAccount, MarketStatuses, IsInstruction
<1> QED
  BY <1>2 DEF MarketsTyped, AdvanceMarket

\* Every instruction on orders keeps the markets typed.
LEMMA ExecutionKeepsTypes ==
  ASSUME IInv, MarketsTyped, NEW ix, ExecuteOrder(ix)
  PROVE  MarketsTyped'
<1>1. IsInstruction(ix) /\ AcceptsOrder(ix) /\ AppliesOrder(ix)
  BY DEF ExecuteOrder
<1>2. CASE BuyPosition(ix)
  <2>1. NetOf(ix.key, ix.amount) \in Nat
    BY <1>1, NetIsNat DEF IsInstruction
  <2> QED
    BY <1>2, <2>1, EntryKeepsTypes DEF BuyPosition
<1>3. CASE /\ ix.op \in {"execute_prediction_limit_order_sol",
                         "execute_prediction_limit_order_lynx"}
           /\ ExecuteLimitOrder(ix)
  <2>1. ix.key \in LimitKeys
    BY <1>1, <1>3 DEF AcceptsOrder, CanExecuteLimitOrder
  <2> DEFINE order == limitOrders[ix.key]
  <2>2. order.amount \in Nat
    BY <2>1 DEF IInv, LimitSound, LimitOrder
  <2>3. EnterPool(order.market, order.owner, order.outcome, NetOf(order.market, order.amount))
    BY <1>3 DEF ExecuteLimitOrder
  <2> HIDE DEF order
  <2>4. NetOf(order.market, order.amount) \in Nat
    BY <2>2, NetIsNat
  <2> QED
    BY <2>3, <2>4, EntryKeepsTypes
<1>4. CASE CreateMarket(ix)
  BY <1>1, <1>4, CreationKeepsTypes
<1>5. CASE /\ ix.op \in {"cut_off_market", "propose_resolution", "dispute_resolution",
                         "finalize_resolution"}
           /\ AdvanceMarket(ix)
  <2>1. ix.key \in Markets
    BY <1>1, <1>5 DEF AcceptsOrder, CanCutOffMarket, CanProposeResolution,
       CanDisputeResolution, CanFinalizeResolution
  <2>2. clock \in Nat
    BY DEF IInv
  <2> QED
    BY <1>1, <1>5, <2>1, <2>2, ResolutionKeepsTypes
<1>6. CASE UNCHANGED markets
  BY <1>6 DEF MarketsTyped
<1>7. \/ UNCHANGED markets
      \/ BuyPosition(ix)
      \/ CreateMarket(ix)
      \/ /\ ix.op \in {"execute_prediction_limit_order_sol",
                         "execute_prediction_limit_order_lynx"}
         /\ ExecuteLimitOrder(ix)
      \/ /\ ix.op \in {"cut_off_market", "propose_resolution", "dispute_resolution",
                         "finalize_resolution"}
         /\ AdvanceMarket(ix)
  BY <1>1 DEF AppliesOrder, SetPaused, PlaceSpotOrderBuy, PlaceSpotOrderSell, MatchSpotOrders,
     CancelSpotOrder, CreateLimitOrder, CancelLimitOrder, InitMarketLynxVault, Claim, marketVars
<1> QED
  BY <1>2, <1>3, <1>4, <1>5, <1>6, <1>7

LEMMA SystemKeepsTypes ==
  ASSUME IInv, MarketsTyped, [SystemNext]_systemVars
  PROVE  MarketsTyped'
<1>1. CASE UNCHANGED ordersVars
  BY <1>1 DEF ordersVars, marketVars, MarketsTyped
<1>2. CASE OrdersTick
  BY <1>2 DEF OrdersTick, marketVars, MarketsTyped
<1>3. CASE \E ix : Lands(ix)
  <2>1. PICK ix : Lands(ix)
    BY <1>3
  <2>2. ExecuteOrder(ix) \/ UNCHANGED ordersVars
    BY <2>1, LandingExecutes DEF Lands
  <2> QED
    BY <1>1, <2>2, ExecutionKeepsTypes
<1> QED
  BY <1>1, <1>2, <1>3, SystemStep

LEMMA SystemTyped == SystemSpec => []MarketsTyped
<1>1. SystemInit => IInv /\ MarketsTyped
  BY DEF SystemInit
<1> QED
  BY <1>1, SystemKeeps, SystemKeepsTypes, PTL DEF SystemSpec
-----------------------------------------------------------------------------
\* The fields of the client, whatever their values.
IsClient ==
  client = [todo |-> client.todo, at |-> client.at, ix |-> client.ix, quote |-> client.quote]

IsBuy(ix) == ix.op \in {"buy_position_sol", "buy_position_lynx_with_burn"}

\* The transaction in flight has the limit that its quote allows.
QuoteInv ==
  /\ IsClient
  /\ client.at \in {"signing", "sent"} /\ client.quote # NoQuote =>
       IsBuy(client.ix) /\ client.ix.price = maxPriceBpsWithSlippage(client.quote)

LEMMA LimitAllowed ==
  ASSUME NEW quote \in Nat
  PROVE  maxPriceBpsWithSlippage(quote) <= quote + DEFAULT_SLIPPAGE_BPS
BY NoQuoteAssumption DEF maxPriceBpsWithSlippage, Clamp, DEFAULT_SLIPPAGE_BPS, BPS_DENOMINATOR

\* What buildBuyPosition*Tx builds.
LEMMA BuyBuilt ==
  ASSUME NEW call, NEW limit, NEW op
  PROVE  /\ BuyTx(op, call, limit).op = op
         /\ BuyTx(op, call, limit).price = limit
BY DEF BuyTx, MarketTx, NoInstruction

LEMMA TradeBuilt ==
  ASSUME NEW call, QuoteOf(call) # NoQuote
  PROVE  /\ IsBuy(Build(call))
         /\ Build(call).price = maxPriceBpsWithSlippage(QuoteOf(call))
<1>1. call.fn = "executeTrade" /\ ~call.limit
  BY DEF QuoteOf
<1>2. QuoteOf(call) = impliedPriceBpsForSide(call.market, call.outcome)
  BY <1>1 DEF QuoteOf
<1>3. Build(call) = executeTrade(call)
  BY <1>1 DEF Build
<1> DEFINE limit == maxPriceBpsWithSlippage(impliedPriceBpsForSide(call.market, call.outcome))
<1>4. \E op \in {"buy_position_sol", "buy_position_lynx_with_burn"} :
        executeTrade(call) = BuyTx(op, call, limit)
  BY <1>1 DEF executeTrade, buildBuyPositionSolTx, buildBuyPositionLynxTx
<1> HIDE DEF limit
<1>5. IsBuy(executeTrade(call)) /\ executeTrade(call).price = limit
  BY <1>4, BuyBuilt DEF IsBuy
<1> QED
  BY <1>2, <1>3, <1>5 DEF limit

\* A click starts the transaction, the wallet sends it, and nothing else
\* touches it before it has landed or failed.
LEMMA QuoteKept ==
  ASSUME QuoteInv, [SystemNext]_systemVars
  PROVE  QuoteInv'
<1>1. CASE Click
  <2>1. CASE CallEnds
    BY <2>1 DEF CallEnds, IdleClient, QuoteInv, IsClient
  <2> DEFINE call == Head(client.todo)
  <2>2. CASE client' = [client EXCEPT !.at = "signing", !.ix = Build(call), !.quote = QuoteOf(call)]
    <3> HIDE DEF call
    <3>1. client' = [todo |-> client.todo, at |-> "signing", ix |-> Build(call),
                     quote |-> QuoteOf(call)]
      BY <2>2 DEF QuoteInv, IsClient
    <3>2. IsClient'
      BY <3>1 DEF IsClient
    <3>3. client'.ix = Build(call) /\ client'.quote = QuoteOf(call)
      BY <3>1
    <3>4. ASSUME client'.quote # NoQuote
          PROVE  IsBuy(client'.ix) /\ client'.ix.price = maxPriceBpsWithSlippage(client'.quote)
      BY <3>3, <3>4, TradeBuilt
    <3> QED
      BY <3>2, <3>4 DEF QuoteInv, IsBuy, maxPriceBpsWithSlippage
  <2> QED
    BY <1>1, <2>1, <2>2 DEF Click
<1>2. CASE CallEnds
  BY <1>2 DEF CallEnds, IdleClient, QuoteInv, IsClient
<1>3. CASE client' = [client EXCEPT !.at = "sent"] /\ client.at = "signing"
  <2>1. client' = [todo |-> client.todo, at |-> "sent", ix |-> client.ix, quote |-> client.quote]
    BY <1>3 DEF QuoteInv, IsClient
  <2>2. IsClient' /\ client'.ix = client.ix /\ client'.quote = client.quote
    BY <2>1 DEF IsClient
  <2> QED
    BY <1>3, <2>2 DEF QuoteInv, IsBuy, maxPriceBpsWithSlippage
<1>4. CASE \E at \in {"landed", "failed", "listing", "listing failed"} :
             client' = [client EXCEPT !.at = at]
  <2>1. PICK at \in {"landed", "failed", "listing", "listing failed"} :
          client' = [client EXCEPT !.at = at]
    BY <1>4
  <2>2. client' = [todo |-> client.todo, at |-> at, ix |-> client.ix, quote |-> client.quote]
    BY <2>1 DEF QuoteInv, IsClient
  <2> QED
    BY <2>2 DEF QuoteInv, IsClient
<1>5. CASE UNCHANGED client
  BY <1>5 DEF QuoteInv, IsClient, IsBuy, maxPriceBpsWithSlippage
<1>6. CASE ClientNext
  <2>1. CASE Click
    BY <2>1, <1>1
  <2>2. CASE Send
    BY <2>2, <1>2, <1>3 DEF Send
  <2>3. CASE TxLands
    BY <2>3, <1>4 DEF TxLands
  <2>4. CASE TxFails
    BY <2>4, <1>4 DEF TxFails
  <2>5. CASE TxUnconfirmed \/ ListMarket \/ ListingFails
    BY <2>5, <1>2 DEF TxUnconfirmed, ListMarket, ListingFails
  <2>6. CASE Confirmed
    BY <2>6, <1>2, <1>4 DEF Confirmed
  <2> QED
    BY <1>6, <2>1, <2>2, <2>3, <2>4, <2>5, <2>6 DEF ClientNext
<1>7. ~ClientNext => UNCHANGED client
  BY DEF SystemNext, Reconcile, KeeperLooks, KeeperWaits, Failures, Alone, clientVars, systemVars
<1> QED
  BY <1>5, <1>6, <1>7

\* A purchase lands only below its own limit.
LEMMA BuyWithinLimit ==
  ASSUME MarketsTyped, NEW ix, IsBuy(ix), Accepts(ix), markets[ix.key].pool_total > 0
  PROVE  /\ ix.price \in Nat
         /\ ImpliedPrice(markets[ix.key], ix.outcome) \in Nat
         /\ ImpliedPrice(markets[ix.key], ix.outcome) <= ix.price
<1>1. \E currency \in {"SOL", "LYNX"} : CanBuyPosition(ix, currency)
  BY DEF IsBuy, Accepts, AcceptsOrder, AcceptsOther
<1>2. ix.key \in Markets
  BY <1>1 DEF CanBuyPosition, MayEnter
<1>3. ix.outcome \in Outcomes /\ ix.price \in Nat
  BY DEF Accepts, IsInstruction
<1> DEFINE staked == markets[ix.key].total[ix.outcome]
           pool == markets[ix.key].pool_total
<1>4. staked \in Nat /\ pool \in Nat \ {0}
  BY <1>2, <1>3 DEF MarketsTyped, MarketAccount
<1>5. ImpliedPrice(markets[ix.key], ix.outcome) = (staked * 10000) \div pool
  BY DEF ImpliedPrice, MulDiv, BPS_DENOMINATOR
<1> HIDE DEF staked, pool
<1>6. staked * 10000 \in Nat
  BY <1>4
<1>7. ImpliedPrice(markets[ix.key], ix.outcome) \in Nat
  BY <1>4, <1>5, <1>6, Quotient
<1> QED
  BY <1>1, <1>3, <1>7 DEF CanBuyPosition, pool

\* Only a landing lands.
LEMMA LandsByItself ==
  ASSUME QuoteInv, [SystemNext]_systemVars, client.at = "sent", client'.at = "landed"
  PROVE  TxLands
<1>1. ClientNext
  BY DEF SystemNext, Reconcile, KeeperLooks, KeeperWaits, Failures, Alone, clientVars, systemVars
<1>2. ~CallEnds
  BY DEF CallEnds, IdleClient
<1>3. ~TxFails
  <2>1. SUFFICES ASSUME client' = [client EXCEPT !.at = "failed"]
                 PROVE  FALSE
    BY DEF TxFails
  <2>2. client' = [todo |-> client.todo, at |-> "failed", ix |-> client.ix, quote |-> client.quote]
    BY <2>1 DEF QuoteInv, IsClient
  <2> QED
    BY <2>2
<1> QED
  BY <1>1, <1>2, <1>3 DEF ClientNext, Click, Send, TxUnconfirmed, Confirmed, ListMarket, ListingFails

\* QuoteHolds for any entries between the quote and the landing, any amounts
\* and any index: whatever price it shows, no buyer enters a pool at more than
\* DEFAULT_SLIPPAGE_BPS above it (useProgram.ts, executeTrade; lib.rs,
\* buy_position_sol and buy_position_lynx_with_burn).
THEOREM QuotesHold == SystemSpec => QuoteHolds
<1>1. SystemInit => QuoteInv
  BY DEF SystemInit, IdleClient, QuoteInv, IsClient
<1>2. QuoteInv /\ [SystemNext]_systemVars => QuoteInv'
  BY QuoteKept
<1> DEFINE Landed ==
      /\ client.at = "sent" /\ client'.at = "landed"
      /\ client.quote \in Nat
      /\ markets[client.ix.key].pool_total > 0
    Within == ImpliedPrice(markets[client.ix.key], client.ix.outcome)
                <= client.quote + DEFAULT_SLIPPAGE_BPS
<1>3. SystemSpec => []MarketsTyped
  BY SystemTyped
<1>4. MarketsTyped /\ QuoteInv /\ [SystemNext]_systemVars => [Landed => Within]_systemVars
  <2> SUFFICES ASSUME MarketsTyped, QuoteInv, [SystemNext]_systemVars, Landed
               PROVE  Within
    OBVIOUS
  <2>1. IsBuy(client.ix) /\ client.ix.price = maxPriceBpsWithSlippage(client.quote)
    BY NoQuoteAssumption DEF QuoteInv
  <2>2. Accepts(client.ix)
    BY LandsByItself DEF TxLands, Lands
  <2>3. /\ client.ix.price \in Nat
        /\ ImpliedPrice(markets[client.ix.key], client.ix.outcome) \in Nat
        /\ ImpliedPrice(markets[client.ix.key], client.ix.outcome) <= client.ix.price
    BY <2>1, <2>2, BuyWithinLimit
  <2>4. client.quote \in Nat
    OBVIOUS
  <2>5. client.ix.price <= client.quote + DEFAULT_SLIPPAGE_BPS
    BY <2>1, <2>4, LimitAllowed
  <2> QED
    BY <2>3, <2>4, <2>5 DEF DEFAULT_SLIPPAGE_BPS
<1> QED
  BY <1>1, <1>2, <1>3, <1>4, PTL DEF SystemSpec, QuoteHolds
=============================================================================
