------------------------------- MODULE Orders -------------------------------
(***************************************************************************)
(* The orders of the Lynx program and what they lock: the spot book of     *)
(* LYNX against SOL, and the limit orders of the prediction markets.  Each *)
(* order owns an escrow account; a fill or a cancellation pays out of it.  *)
(*                                                                         *)
(* An instruction is a record, as a client builds it (module Client) or    *)
(* the keeper does (module Indexer).  It is atomic: it is executed whole   *)
(* when its requirements hold, and rejected otherwise.  Of a market only   *)
(* what an order depends on is kept here: its pool, its clock and its      *)
(* status.  Module Market has its money.                                   *)
(***************************************************************************)
EXTENDS LynxMath

CONSTANTS
  Users,          \* the wallets
  Admin,          \* config.admin, and the oracle of every market it creates
  Signers,        \* the signers of the multisig
  Nobody,         \* Pubkey::default()
  Markets,        \* the addresses of Market accounts
  SpotKeys,       \* the addresses of SpotOrder accounts
  LimitKeys,      \* the addresses of PredictionOrder accounts
  LynxHolders,    \* the wallets that have a LYNX token account
  PriceScale,     \* PRICE_SCALE
  MinOrder,       \* MIN_ORDER_LAMPORTS
  MaxOrder,       \* MAX_ORDER_LAMPORTS
  DisputeWindow,  \* DISPUTE_WINDOW_SECONDS
  MaxClock,       \* bound: the last value of the clock
  Instructions    \* bound: the instructions of OrdersNext

Outcomes == {"Yes", "No", "Draw"}
Sides == {"Buy", "Sell"}
OrderStatuses == {"None", "Open", "Filled", "Cancelled"}
MarketStatuses == {"None", "Open", "Active", "CutOff", "PendingResolution", "Resolved"}

\* What an instruction is made of, as it is deserialized: each operation reads
\* the fields it needs.  For create_market, expires is cutoff_ts.
IsInstruction(ix) ==
  /\ ix.signer \in Users
  /\ ix.outcome \in Outcomes
  /\ ix.amount \in Nat
  /\ ix.price \in Nat
  /\ ix.expires \in Nat
  /\ ix.resolve \in Nat
  /\ ix.currency \in {"SOL", "LYNX"}
  /\ ix.is_ternary \in BOOLEAN

ASSUME OrderNumbersAssumption ==
  /\ PriceScale \in Nat \ {0}
  /\ MinOrder \in Nat
  /\ MaxOrder \in Nat
  /\ DisputeWindow \in Nat
  /\ MaxClock \in Nat

ASSUME OrderKeysAssumption ==
  /\ SpotKeys \cap LimitKeys = {}
  /\ LynxHolders \subseteq Users

VARIABLES
  clock,        \* Clock::unix_timestamp
  paused,       \* config.paused
  markets,      \* the Market account at each address
  lynxVaults,   \* the LYNX markets that have their vault
  positions,    \* the UserPosition of each market, owner and outcome
  spotOrders,   \* the SpotOrder account at each address
  spotEscrow,   \* lamports or LYNX in the order's escrow, above its rent
  limitOrders,  \* the PredictionOrder account at each address
  limitEscrow   \* lamports or LYNX in the order's escrow, above its rent

marketVars == <<markets, lynxVaults, positions>>
spotVars == <<spotOrders, spotEscrow>>
limitVars == <<limitOrders, limitEscrow>>
ordersVars == <<clock, paused, marketVars, spotVars, limitVars>>

NoMarket ==
  [status |-> "None", currency |-> "SOL", is_ternary |-> FALSE, cutoff_ts |-> 0,
   resolve_ts |-> 0, pool_total |-> 0, total |-> [o \in Outcomes |-> 0],
   proposed_ts |-> 0, proposed_result |-> "Unresolved", result |-> "Unresolved"]

NoPosition == [amount |-> 0, claimed |-> FALSE]

NoOrder ==
  [status |-> "None", side |-> "Buy", owner |-> Nobody, price_scaled |-> 0,
   amount |-> 0, remaining |-> 0, created_ts |-> 0, expires_ts |-> 0]

NoLimit ==
  [status |-> "None", owner |-> Nobody, market |-> Nobody, outcome |-> "Unresolved",
   amount |-> 0, limit_price_bps |-> 0, created_ts |-> 0, expires_ts |-> 0]

OrdersInit ==
  /\ clock = 1
  /\ paused = FALSE
  /\ markets = [m \in Markets |-> NoMarket]
  /\ lynxVaults = {}
  /\ positions = [p \in Markets \X Users \X Outcomes |-> NoPosition]
  /\ spotOrders = [k \in SpotKeys |-> NoOrder]
  /\ spotEscrow = [k \in SpotKeys |-> 0]
  /\ limitOrders = [k \in LimitKeys |-> NoLimit]
  /\ limitEscrow = [k \in LimitKeys |-> 0]

OrdersTick ==
  /\ clock < MaxClock
  /\ clock' = clock + 1
  /\ UNCHANGED <<paused, marketVars, spotVars, limitVars>>

\* execute_pause / execute_unpause, which module Governance has in full.
SetPaused(ix) ==
  /\ paused' = (ix.op = "pause")
  /\ UNCHANGED <<clock, marketVars, spotVars, limitVars>>
-----------------------------------------------------------------------------
\* spot_sol_amount: the lamports that so much LYNX costs, rounded down.
SpotSolAmount(amount, price) == (amount * price) \div PriceScale

NewOrder(ix, side) ==
  [status |-> "Open", side |-> side, owner |-> ix.signer, price_scaled |-> ix.price,
   amount |-> ix.amount, remaining |-> ix.amount, created_ts |-> clock,
   expires_ts |-> ix.expires]

\* What both kinds of spot order require.
MayPlace(ix) ==
  /\ ix.key \in SpotKeys
  /\ spotOrders[ix.key].status = "None"
  /\ ix.amount > 0
  /\ ix.price > 0
  /\ ~paused
  /\ clock < ix.expires

CanPlaceSpotOrderBuy(ix) ==
  /\ MayPlace(ix)
  /\ SpotSolAmount(ix.amount, ix.price) \in MinOrder..MaxOrder

PlaceSpotOrderBuy(ix) ==
  /\ spotOrders' = [spotOrders EXCEPT ![ix.key] = NewOrder(ix, "Buy")]
  /\ spotEscrow' = [spotEscrow EXCEPT ![ix.key] = SpotSolAmount(ix.amount, ix.price)]
  /\ UNCHANGED <<clock, paused, marketVars, limitVars>>

CanPlaceSpotOrderSell(ix) == MayPlace(ix) /\ ix.signer \in LynxHolders

PlaceSpotOrderSell(ix) ==
  /\ spotOrders' = [spotOrders EXCEPT ![ix.key] = NewOrder(ix, "Sell")]
  /\ spotEscrow' = [spotEscrow EXCEPT ![ix.key] = ix.amount]
  /\ UNCHANGED <<clock, paused, marketVars, limitVars>>

IsLive(k, side) ==
  /\ spotOrders[k].side = side
  /\ spotOrders[k].status = "Open"
  /\ clock < spotOrders[k].expires_ts

\* What the fill of `fill` takes out of the buyer's escrow: its cost, fee
\* included, at the price of the older order, and the rest up to the buyer's
\* own price, which goes back to the buyer.
BuyerReserved_AtExecPrice(buy, sell, fill) ==
  SpotSolAmount(fill, IF spotOrders[buy].created_ts <= spotOrders[sell].created_ts
                        THEN spotOrders[buy].price_scaled ELSE spotOrders[sell].price_scaled)
BuyerReserved(buy, sell, fill) == SpotSolAmount(fill, spotOrders[buy].price_scaled)

\* The buyer's LYNX account must exist: the program does not create it.
CanMatchSpotOrders(ix) ==
  /\ ~paused
  /\ ix.amount > 0
  /\ ix.key \in SpotKeys
  /\ ix.other \in SpotKeys
  /\ IsLive(ix.key, "Buy")
  /\ IsLive(ix.other, "Sell")
  /\ ix.amount <= spotOrders[ix.key].remaining
  /\ ix.amount <= spotOrders[ix.other].remaining
  /\ spotOrders[ix.key].price_scaled >= spotOrders[ix.other].price_scaled
  /\ spotOrders[ix.key].owner \in LynxHolders
  /\ spotEscrow[ix.key] >= BuyerReserved(ix.key, ix.other, ix.amount)
  /\ spotEscrow[ix.other] >= ix.amount

Reduced(order, fill) ==
  [order EXCEPT !.remaining = order.remaining - fill,
                !.status = IF order.remaining = fill THEN "Filled" ELSE "Open"]

MatchSpotOrders(ix) ==
  LET buy == ix.key
      sell == ix.other
      fill == ix.amount
  IN  /\ spotOrders' = [spotOrders EXCEPT ![buy] = Reduced(spotOrders[buy], fill),
                                          ![sell] = Reduced(spotOrders[sell], fill)]
      /\ spotEscrow' = [spotEscrow EXCEPT
           ![buy] = spotEscrow[buy] - BuyerReserved(buy, sell, fill),
           ![sell] = spotEscrow[sell] - fill]
      /\ UNCHANGED <<clock, paused, marketVars, limitVars>>

\* The owner at any time, anybody once it has expired; the owner is paid.
CanCancelSpotOrder(ix, side) ==
  /\ ix.key \in SpotKeys
  /\ spotOrders[ix.key].side = side
  /\ spotOrders[ix.key].status = "Open"
  /\ ix.signer = spotOrders[ix.key].owner \/ clock >= spotOrders[ix.key].expires_ts

Refund(k) ==
  IF spotOrders[k].side = "Buy"
    THEN SpotSolAmount(spotOrders[k].remaining, spotOrders[k].price_scaled)
    ELSE spotOrders[k].remaining

CancelSpotOrder(ix) ==
  /\ spotEscrow' = [spotEscrow EXCEPT ![ix.key] = spotEscrow[ix.key] - Refund(ix.key)]
  /\ spotOrders' = [spotOrders EXCEPT ![ix.key] =
       [spotOrders[ix.key] EXCEPT !.remaining = 0, !.status = "Cancelled"]]
  /\ UNCHANGED <<clock, paused, marketVars, limitVars>>
-----------------------------------------------------------------------------
IsTradeable(m, outcome) ==
  outcome \in {"Yes", "No"} \/ (outcome = "Draw" /\ markets[m].is_ternary)

IsOpen(m) == markets[m].status \in {"Open", "Active"}

\* implied_price_bps, for a pool that is not empty.
ImpliedPrice(market, outcome) ==
  MulDiv(market.total[outcome], BPS_DENOMINATOR, market.pool_total)

\* 15% of LYNX is burned before it enters a pool.
NetOf(m, amount) ==
  IF markets[m].currency = "SOL" THEN amount ELSE amount - Bps(amount, LYNX_EVENT_BURN_BPS)

\* add_market_amounts and write_position.
EnterPool(m, owner, outcome, amount) ==
  /\ markets' = [markets EXCEPT ![m] =
       [markets[m] EXCEPT !.status = "Active",
                          !.pool_total = markets[m].pool_total + amount,
                          !.total = [markets[m].total EXCEPT
                                       ![outcome] = markets[m].total[outcome] + amount]]]
  /\ positions' = [positions EXCEPT ![<<m, owner, outcome>>] =
       [positions[<<m, owner, outcome>>] EXCEPT
          !.amount = positions[<<m, owner, outcome>>].amount + amount]]
  /\ UNCHANGED lynxVaults

\* What every entry requires of its market.
MayEnter(ix, m, currency) ==
  /\ m \in Markets
  /\ ix.amount \in (MinOrder..MaxOrder) \ {0}
  /\ ~paused
  /\ IsTradeable(m, ix.outcome)
  /\ markets[m].currency = currency
  /\ IsOpen(m)
  /\ clock < markets[m].cutoff_ts
  /\ currency = "LYNX" => ix.signer \in LynxHolders

\* buy_position_sol and buy_position_lynx_with_burn: the price is at most the
\* one the buyer tolerates, unless the pool is empty.
CanBuyPosition(ix, currency) ==
  /\ MayEnter(ix, ix.key, currency)
  /\ currency = "LYNX" => ix.key \in lynxVaults
  /\ ix.price \in 1..BPS_DENOMINATOR
  /\ markets[ix.key].pool_total > 0 =>
       ImpliedPrice(markets[ix.key], ix.outcome) <= ix.price

BuyPosition(ix) ==
  /\ EnterPool(ix.key, ix.signer, ix.outcome, NetOf(ix.key, ix.amount))
  /\ UNCHANGED <<clock, paused, spotVars, limitVars>>

\* create_prediction_limit_order_sol and _lynx; the latter does not need the
\* market to have its LYNX vault.
CanCreateLimitOrder(ix, currency) ==
  /\ ix.key \in LimitKeys
  /\ limitOrders[ix.key].status = "None"
  /\ MayEnter(ix, ix.other, currency)
  /\ ix.price <= BPS_DENOMINATOR
  /\ clock < ix.expires
  /\ ix.expires <= markets[ix.other].cutoff_ts

CreateLimitOrder(ix) ==
  /\ limitOrders' = [limitOrders EXCEPT ![ix.key] =
       [status |-> "Open", owner |-> ix.signer, market |-> ix.other, outcome |-> ix.outcome,
        amount |-> ix.amount, limit_price_bps |-> ix.price, created_ts |-> clock,
        expires_ts |-> ix.expires]]
  /\ limitEscrow' = [limitEscrow EXCEPT ![ix.key] = ix.amount]
  /\ UNCHANGED <<clock, paused, marketVars, spotVars>>

\* execute_prediction_limit_order_sol and _lynx: anybody, once the price is
\* below the limit.
CanExecuteLimitOrder(ix, currency) ==
  /\ ~paused
  /\ ix.key \in LimitKeys
  /\ limitOrders[ix.key].status = "Open"
  /\ clock < limitOrders[ix.key].expires_ts
  /\ LET order == limitOrders[ix.key]
     IN  /\ markets[order.market].currency = currency
         /\ currency = "LYNX" => order.market \in lynxVaults
         /\ IsOpen(order.market)
         /\ markets[order.market].pool_total > 0
         /\ ImpliedPrice(markets[order.market], order.outcome) < order.limit_price_bps
         /\ limitEscrow[ix.key] >= order.amount

ExecuteLimitOrder(ix) ==
  LET order == limitOrders[ix.key]
  IN  /\ EnterPool(order.market, order.owner, order.outcome, NetOf(order.market, order.amount))
      /\ limitEscrow' = [limitEscrow EXCEPT ![ix.key] = limitEscrow[ix.key] - order.amount]
      /\ limitOrders' = [limitOrders EXCEPT ![ix.key] = [order EXCEPT !.status = "Filled"]]
      /\ UNCHANGED <<clock, paused, spotVars>>

CanCancelLimitOrder(ix, currency) ==
  /\ ix.key \in LimitKeys
  /\ limitOrders[ix.key].status = "Open"
  /\ markets[limitOrders[ix.key].market].currency = currency
  /\ \/ ix.signer = limitOrders[ix.key].owner
     \/ clock >= limitOrders[ix.key].expires_ts
  /\ currency = "LYNX" => limitOrders[ix.key].owner \in LynxHolders

CancelLimitOrder(ix) ==
  /\ limitEscrow' = [limitEscrow EXCEPT
       ![ix.key] = limitEscrow[ix.key] - limitOrders[ix.key].amount]
  /\ limitOrders' = [limitOrders EXCEPT ![ix.key] =
       [limitOrders[ix.key] EXCEPT !.status = "Cancelled"]]
  /\ UNCHANGED <<clock, paused, marketVars, spotVars>>
-----------------------------------------------------------------------------
CanCreateMarket(ix) ==
  /\ ix.key \in Markets
  /\ markets[ix.key].status = "None"
  /\ ix.signer = Admin
  /\ ix.expires > clock
  /\ ix.resolve > ix.expires

CreateMarket(ix) ==
  /\ markets' = [markets EXCEPT ![ix.key] =
       [NoMarket EXCEPT !.status = "Open", !.currency = ix.currency,
                        !.is_ternary = ix.is_ternary, !.cutoff_ts = ix.expires,
                        !.resolve_ts = ix.resolve]]
  /\ UNCHANGED <<clock, paused, lynxVaults, positions, spotVars, limitVars>>

CanInitMarketLynxVault(ix) ==
  /\ ix.key \in Markets \ lynxVaults
  /\ markets[ix.key].status # "None"
  /\ markets[ix.key].currency = "LYNX"

InitMarketLynxVault(ix) ==
  /\ lynxVaults' = lynxVaults \cup {ix.key}
  /\ UNCHANGED <<clock, paused, markets, positions, spotVars, limitVars>>

CanCutOffMarket(ix) ==
  ix.key \in Markets /\ IsOpen(ix.key) /\ clock >= markets[ix.key].cutoff_ts

CanProposeResolution(ix) ==
  /\ ix.key \in Markets
  /\ IsTradeable(ix.key, ix.outcome)
  /\ ix.signer = Admin
  /\ clock >= markets[ix.key].resolve_ts
  /\ markets[ix.key].status \in {"CutOff", "PendingResolution"}

CanDisputeResolution(ix) ==
  /\ ix.key \in Markets
  /\ ix.signer \in Signers
  /\ markets[ix.key].status = "PendingResolution"
  /\ clock < markets[ix.key].proposed_ts + DisputeWindow

CanFinalizeResolution(ix) ==
  /\ ix.key \in Markets
  /\ markets[ix.key].status = "PendingResolution"
  /\ clock >= markets[ix.key].proposed_ts + DisputeWindow

\* The market after each step of its resolution.
Advanced(ix, market) ==
  CASE ix.op = "cut_off_market" -> [market EXCEPT !.status = "CutOff"]
    [] ix.op = "propose_resolution" ->
         [market EXCEPT !.status = "PendingResolution", !.proposed_ts = clock,
                        !.proposed_result = ix.outcome]
    [] ix.op = "dispute_resolution" ->
         [market EXCEPT !.status = "CutOff", !.proposed_ts = 0,
                        !.proposed_result = "Unresolved"]
    [] ix.op = "finalize_resolution" ->
         [market EXCEPT !.status = "Resolved", !.result = market.proposed_result]

AdvanceMarket(ix) ==
  /\ markets' = [markets EXCEPT ![ix.key] = Advanced(ix, markets[ix.key])]
  /\ UNCHANGED <<clock, paused, lynxVaults, positions, spotVars, limitVars>>

\* claim_market_sol and claim_market_lynx; module Market has the payout.
CanClaim(ix, currency) ==
  /\ ix.key \in Markets
  /\ markets[ix.key].status = "Resolved"
  /\ markets[ix.key].currency = currency
  /\ markets[ix.key].result = ix.outcome
  /\ positions[<<ix.key, ix.signer, ix.outcome>>].amount > 0
  /\ ~positions[<<ix.key, ix.signer, ix.outcome>>].claimed

Claim(ix) ==
  /\ positions' = [positions EXCEPT ![<<ix.key, ix.signer, ix.outcome>>] =
       [positions[<<ix.key, ix.signer, ix.outcome>>] EXCEPT !.claimed = TRUE]]
  /\ UNCHANGED <<clock, paused, markets, lynxVaults, spotVars, limitVars>>
-----------------------------------------------------------------------------
\* What each instruction requires ...
AcceptsOrder(ix) ==
  \/ ix.op \in {"pause", "unpause"}
  \/ ix.op = "place_spot_order_buy" /\ CanPlaceSpotOrderBuy(ix)
  \/ ix.op = "place_spot_order_sell" /\ CanPlaceSpotOrderSell(ix)
  \/ ix.op = "match_spot_orders" /\ CanMatchSpotOrders(ix)
  \/ ix.op = "cancel_spot_order_buy" /\ CanCancelSpotOrder(ix, "Buy")
  \/ ix.op = "cancel_spot_order_sell" /\ CanCancelSpotOrder(ix, "Sell")
  \/ ix.op = "buy_position_sol" /\ CanBuyPosition(ix, "SOL")
  \/ ix.op = "buy_position_lynx_with_burn" /\ CanBuyPosition(ix, "LYNX")
  \/ ix.op = "create_prediction_limit_order_sol" /\ CanCreateLimitOrder(ix, "SOL")
  \/ ix.op = "create_prediction_limit_order_lynx" /\ CanCreateLimitOrder(ix, "LYNX")
  \/ ix.op = "execute_prediction_limit_order_sol" /\ CanExecuteLimitOrder(ix, "SOL")
  \/ ix.op = "execute_prediction_limit_order_lynx" /\ CanExecuteLimitOrder(ix, "LYNX")
  \/ ix.op = "cancel_prediction_limit_order_sol" /\ CanCancelLimitOrder(ix, "SOL")
  \/ ix.op = "cancel_prediction_limit_order_lynx" /\ CanCancelLimitOrder(ix, "LYNX")
  \/ ix.op = "create_market" /\ CanCreateMarket(ix)
  \/ ix.op = "init_market_lynx_vault" /\ CanInitMarketLynxVault(ix)
  \/ ix.op = "cut_off_market" /\ CanCutOffMarket(ix)
  \/ ix.op = "propose_resolution" /\ CanProposeResolution(ix)
  \/ ix.op = "dispute_resolution" /\ CanDisputeResolution(ix)
  \/ ix.op = "finalize_resolution" /\ CanFinalizeResolution(ix)
  \/ ix.op = "claim_market_sol" /\ CanClaim(ix, "SOL")
  \/ ix.op = "claim_market_lynx" /\ CanClaim(ix, "LYNX")

\* ... and what it does when they hold.
AppliesOrder(ix) ==
  \/ ix.op \in {"pause", "unpause"} /\ SetPaused(ix)
  \/ ix.op = "place_spot_order_buy" /\ PlaceSpotOrderBuy(ix)
  \/ ix.op = "place_spot_order_sell" /\ PlaceSpotOrderSell(ix)
  \/ ix.op = "match_spot_orders" /\ MatchSpotOrders(ix)
  \/ ix.op \in {"cancel_spot_order_buy", "cancel_spot_order_sell"} /\ CancelSpotOrder(ix)
  \/ ix.op \in {"buy_position_sol", "buy_position_lynx_with_burn"} /\ BuyPosition(ix)
  \/ /\ ix.op \in {"create_prediction_limit_order_sol", "create_prediction_limit_order_lynx"}
     /\ CreateLimitOrder(ix)
  \/ /\ ix.op \in {"execute_prediction_limit_order_sol", "execute_prediction_limit_order_lynx"}
     /\ ExecuteLimitOrder(ix)
  \/ /\ ix.op \in {"cancel_prediction_limit_order_sol", "cancel_prediction_limit_order_lynx"}
     /\ CancelLimitOrder(ix)
  \/ ix.op = "create_market" /\ CreateMarket(ix)
  \/ ix.op = "init_market_lynx_vault" /\ InitMarketLynxVault(ix)
  \/ /\ ix.op \in {"cut_off_market", "propose_resolution", "dispute_resolution",
                   "finalize_resolution"}
     /\ AdvanceMarket(ix)
  \/ ix.op \in {"claim_market_sol", "claim_market_lynx"} /\ Claim(ix)

ExecuteOrder(ix) == IsInstruction(ix) /\ AcceptsOrder(ix) /\ AppliesOrder(ix)

OrdersNext == OrdersTick \/ \E ix \in Instructions : ExecuteOrder(ix)

OrdersSpec == OrdersInit /\ [][OrdersNext]_ordersVars
-----------------------------------------------------------------------------
SpotOrder ==
  [status : OrderStatuses, side : Sides, owner : Users \cup {Nobody}, price_scaled : Nat,
   amount : Nat, remaining : Nat, created_ts : Nat, expires_ts : Nat]

LimitOrder ==
  [status : OrderStatuses, owner : Users \cup {Nobody}, market : Markets \cup {Nobody},
   outcome : Outcomes \cup {"Unresolved"}, amount : Nat, limit_price_bps : Nat,
   created_ts : Nat, expires_ts : Nat]

\* An open buy can always be filled or refunded in full: its escrow holds what
\* its remaining LYNX costs at its own price, and of roundings never more than
\* a lamport for each micro-LYNX already bought.
BuyIsCovered(k) ==
  LET order == spotOrders[k]
      cost == SpotSolAmount(order.remaining, order.price_scaled)
  IN  /\ cost <= spotEscrow[k]
      /\ spotEscrow[k] <= cost + (order.amount - order.remaining)

\* Whatever fills and cancellations raced for an order, its escrow holds what
\* it still owes, never less, and nothing but the dust of roundings stays in
\* the escrow of an order that ended.
EscrowCovers ==
  /\ \A k \in SpotKeys :
       /\ spotOrders[k].side = "Buy" => BuyIsCovered(k)
       /\ spotOrders[k].side = "Sell" => spotEscrow[k] = spotOrders[k].remaining
       /\ (spotOrders[k].remaining > 0) = (spotOrders[k].status = "Open")
  /\ \A k \in LimitKeys :
       limitEscrow[k] = IF limitOrders[k].status = "Open" THEN limitOrders[k].amount ELSE 0
=============================================================================
