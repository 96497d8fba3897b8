----------------------------- MODULE MCExchange -----------------------------
(***************************************************************************)
(* A small exchange for TLC: two users and the treasury.  A behaviour has  *)
(* a budget of calls of each kind, chosen at the start, that bounds it:    *)
(* one that spends it all on the book, one that spends it on a market, and *)
(* one where trades price a boost and a sale of emitted LYNX is bought.    *)
(***************************************************************************)
EXTENDS OffchainMarket

CONSTANTS u1, u2, admin, m1, Budgets

VARIABLE budget      \* the calls left: on the book, on markets, on stakes

MCWalletSeq == <<u1, u2, admin>>
Opened(sol, lynx, staked) ==
  [balance |-> [c \in Currency |-> IF c = "SOL" THEN sol ELSE lynx], staked |-> staked]
MCOpening == (u1 :> Opened(90, 60, 20)) @@ (u2 :> Opened(90, 60, 0)) @@ (admin :> Opened(0, 0, 0))
MCKinds == {[currency |-> "SOL", isTernary |-> FALSE],
            [currency |-> "SOL", isTernary |-> TRUE],
            [currency |-> "LYNX", isTernary |-> FALSE]}
NoCalls == [trade |-> 0, enter |-> 0, duel |-> 0, own |-> 0, close |-> 0, stake |-> 0,
            cheap |-> FALSE]
MCBudgets == {
  [NoCalls EXCEPT !.trade = 3],
  [NoCalls EXCEPT !.trade = 5, !.cheap = TRUE],
  [NoCalls EXCEPT !.enter = 3, !.own = 1, !.close = 2],
  [NoCalls EXCEPT !.duel = 3, !.close = 1, !.stake = 1],
  [NoCalls EXCEPT !.trade = 2, !.enter = 1, !.own = 2, !.close = 1, !.cheap = TRUE],
  [NoCalls EXCEPT !.trade = 1, !.enter = 1, !.close = 1, !.stake = 1]}
Unset == -1

Pays(kind) == budget[kind] > 0 /\ budget' = [budget EXCEPT ![kind] = @ - 1]

\* The longest book takes only orders at the price that does not divide.
Cheap == budget.cheap => Len(orders') > Len(orders) /\ Last(orders').price = 1

MCInit == MarketInit /\ budget \in Budgets

MCNext ==
  \/ Pays("trade") /\ Trade /\ Cheap
  \/ Pays("enter") /\ Enter
  \/ Pays("duel") /\ Duel
  \/ Pays("own") /\ UsePosition
  \/ Pays("close") /\ CloseMarket
  \/ Pays("stake") /\ Stake

MCSpec == MCInit /\ [][MCNext]_<<bookVars, marketVars, budget>>
=============================================================================
