------------------------------- MODULE Client -------------------------------
(***************************************************************************)
(* The web client on top of the chain and its mirror: a call of useProgram *)
(* reads what the backend shows, builds one instruction (lynxProgram.ts),  *)
(* has the wallet sign and send it, waits for its confirmation and asks    *)
(* the backend to refresh its index.  The chain moves on between any two   *)
(* of these steps, so what was read may be stale when the transaction      *)
(* lands: only the program decides.                                        *)
(*                                                                         *)
(* A call is a record: fn is the function of useProgram, user the wallet   *)
(* that signs, key the address of the account it creates or names, and     *)
(* the rest the function's parameters.                                     *)
(***************************************************************************)
EXTENDS Indexer

CONSTANTS
  UnitsPer,     \* base units in one SOL and in one LYNX
  OrderLife,    \* the 30 days an order is given
  DuelLife,     \* the 7 days a duel is given
  MarketLife,   \* the 24 h to a market's cutoff, and from there to its resolution
  ProposalLife, \* the 7 days a proposal is given
  NoQuote       \* no price was shown

ASSUME NoQuoteAssumption == NoQuote \notin Nat

VARIABLES
  client,       \* the calls to make, and the transaction in flight
  listed        \* the on-chain markets that the backend lists

clientVars == <<client, listed>>

IdleClient(calls) ==
  [todo |-> calls, at |-> "idle", ix |-> NoInstruction, quote |-> NoQuote]
-----------------------------------------------------------------------------
\* The conversions of lynxProgram.ts; a call's amounts are whole SOL or LYNX,
\* its probabilities basis points, its spot prices lamports for a LYNX.
toBaseUnits(amount, currency) == amount * UnitsPer[currency]
solPerLynxToPriceScaled(lamportsPerLynx) == (lamportsPerLynx * PriceScale) \div UnitsPer["LYNX"]

Clamp(low, value, high) == CASE value < low -> low [] value > high -> high [] OTHER -> value

probabilityToBps(probability) == Clamp(0, probability, BPS_DENOMINATOR)

DEFAULT_SLIPPAGE_BPS == 1000

\* The pool the app shows for a market: the index's, laid over what the
\* backend's own store says of a market that lives on chain, which is nothing.
ShownPool(m) ==
  IF m \in DOMAIN index["market"] THEN index["market"][m].total ELSE NoMarket.total

\* impliedPriceBpsForSide, to the nearest basis point.
impliedPriceBpsForSide(m, outcome) ==
  LET pool == ShownPool(m)
      total == pool["Yes"] + pool["No"] + pool["Draw"]
  IN  IF total = 0 THEN NoQuote
        ELSE (2 * pool[outcome] * BPS_DENOMINATOR + total) \div (2 * total)

maxPriceBpsWithSlippage_Unprotected(quote) == BPS_DENOMINATOR
maxPriceBpsWithSlippage(quote) ==
  IF quote = NoQuote THEN BPS_DENOMINATOR
    ELSE Clamp(1, quote + DEFAULT_SLIPPAGE_BPS, BPS_DENOMINATOR)
-----------------------------------------------------------------------------
\* The transactions of lynxProgram.ts: the instruction, its signer, the
\* account it is about and its arguments.
Tx(op, call) == [NoInstruction EXCEPT !.op = op, !.signer = call.user, !.key = call.key]
MarketTx(op, call) ==
  [NoInstruction EXCEPT !.op = op, !.signer = call.user, !.key = call.market,
                        !.outcome = call.outcome]

buildCreateMarketTx(call, cutoffTs, resolveTs) ==
  [Tx("create_market", call) EXCEPT !.expires = cutoffTs, !.resolve = resolveTs,
     !.currency = call.currency, !.is_ternary = call.isTernary]

BuyTx(op, call, maxPriceBps) ==
  [MarketTx(op, call) EXCEPT !.price = maxPriceBps,
     !.amount = toBaseUnits(call.amount, markets[call.market].currency)]
buildBuyPositionSolTx(call, maxPriceBps) == BuyTx("buy_position_sol", call, maxPriceBps)
buildBuyPositionLynxTx(call, maxPriceBps) ==
  BuyTx("buy_position_lynx_with_burn", call, maxPriceBps)

LimitTx(op, call, currency, expiresTs) ==
  [Tx(op, call) EXCEPT !.other = call.market, !.outcome = call.outcome,
     !.amount = toBaseUnits(call.amount, currency),
     !.price = probabilityToBps(call.price), !.expires = expiresTs]
buildCreateLimitOrderSolTx(call, expiresTs) ==
  LimitTx("create_prediction_limit_order_sol", call, "SOL", expiresTs)
buildCreateLimitOrderLynxTx(call, expiresTs) ==
  LimitTx("create_prediction_limit_order_lynx", call, "LYNX", expiresTs)
buildCancelLimitOrderSolTx(call) == Tx("cancel_prediction_limit_order_sol", call)
buildCancelLimitOrderLynxTx(call) == Tx("cancel_prediction_limit_order_lynx", call)

buildClaimMarketSolTx(call) == MarketTx("claim_market_sol", call)
buildClaimMarketLynxTx(call) == MarketTx("claim_market_lynx", call)

SpotTx(op, call, expiresTs) ==
  [Tx(op, call) EXCEPT !.amount = toBaseUnits(call.amount, "LYNX"),
     !.price = solPerLynxToPriceScaled(call.price), !.expires = expiresTs]
buildPlaceSpotOrderBuyTx(call, expiresTs) == SpotTx("place_spot_order_buy", call, expiresTs)
buildPlaceSpotOrderSellTx(call, expiresTs) == SpotTx("place_spot_order_sell", call, expiresTs)
buildCancelSpotOrderBuyTx(call) == Tx("cancel_spot_order_buy", call)
buildCancelSpotOrderSellTx(call) == Tx("cancel_spot_order_sell", call)

StakeTx(op, call) == [Tx(op, call) EXCEPT !.amount = toBaseUnits(call.amount, "LYNX")]
buildStakeLynxTx(call) == StakeTx("stake_lynx", call)
buildUnstakeLynxTx(call) == StakeTx("unstake_lynx", call)
buildClaimStakingRewardsTx(call) == Tx("claim_staking_rewards", call)

buildCreateDuelTx(call, expiresTs) ==
  [Tx("create_duel", call) EXCEPT !.other = call.market, !.outcome = call.outcome,
     !.amount = toBaseUnits(call.amount, "SOL"), !.duel_type = call.duelType,
     !.expires = expiresTs]
buildAcceptDuelTx(call, duel) ==
  [Tx("accept_duel", call) EXCEPT !.other = duel.parent, !.outcome = call.outcome]
buildCancelDuelTx(call) == Tx("cancel_duel", call)

buildCreateDaoProposalTx(call, duration) ==
  [Tx("create_dao_proposal", call) EXCEPT !.amount = duration]
buildCastDaoVoteTx(call) == [Tx("cast_dao_vote", call) EXCEPT !.yes = call.yes]
-----------------------------------------------------------------------------
\* The currency the backend shows for a market: its own record's, the index's
\* or, when it knows neither, SOL.
ShownCurrency(m) ==
  CASE m \in listed -> markets[m].currency
    [] m \notin listed /\ m \in DOMAIN index["market"] -> index["market"][m].currency
    [] OTHER -> "SOL"

\* GET /api/orderbook: the open orders of a listed market, and the spot book.
ShownOrders == OpenSpotOrders \cup UNION {OpenOrders(m) : m \in listed}

\* GET /api/positions leaves out what the index has as claimed.
ShownPositions(u) == {p \in PositionsOf(u) : ~index["userPosition"][p].claimed}

\* A call is made on something the app shows.
Shown(call) ==
  CASE call.fn = "executeTrade" -> call.market \in listed
    [] call.fn \in {"acceptDuel", "cancelDuel"} -> call.key \in LiveDuels
    [] call.fn = "castVote" -> call.key \in ListedProposals
    [] call.fn = "claimPosition" ->
         <<call.market, call.user, call.outcome>> \in ShownPositions(call.user)
    [] call.fn = "cancelOrder" -> call.key \in ShownOrders
    [] OTHER -> TRUE

\* An order on a market expires with it.
executeTrade(call) ==
  LET cutoff == markets[call.market].cutoff_ts
      expiresTs == IF clock + OrderLife < cutoff THEN clock + OrderLife ELSE cutoff
      maxPriceBps ==
        maxPriceBpsWithSlippage(impliedPriceBpsForSide(call.market, call.outcome))
      lynx == markets[call.market].currency = "LYNX"
  IN  CASE call.limit /\ lynx -> buildCreateLimitOrderLynxTx(call, expiresTs)
        [] call.limit /\ ~lynx -> buildCreateLimitOrderSolTx(call, expiresTs)
        [] ~call.limit /\ lynx -> buildBuyPositionLynxTx(call, maxPriceBps)
        [] ~call.limit /\ ~lynx -> buildBuyPositionSolTx(call, maxPriceBps)

executeLynxOrder(call) ==
  IF call.side = "Buy" THEN buildPlaceSpotOrderBuyTx(call, clock + OrderLife)
                       ELSE buildPlaceSpotOrderSellTx(call, clock + OrderLife)

createDuel(call) == buildCreateDuelTx(call, clock + DuelLife)

createMarket(call) == buildCreateMarketTx(call, clock + MarketLife, clock + 2 * MarketLife)

claimPosition(call) ==
  IF ShownCurrency(call.market) = "LYNX" THEN buildClaimMarketLynxTx(call)
                                         ELSE buildClaimMarketSolTx(call)

cancelOrder(call) ==
  IF call.key \in OpenSpotOrders
    THEN IF index["spotOrder"][call.key].side = "Buy" THEN buildCancelSpotOrderBuyTx(call)
                                                      ELSE buildCancelSpotOrderSellTx(call)
    ELSE IF ShownCurrency(index["predictionOrder"][call.key].market) = "LYNX"
           THEN buildCancelLimitOrderLynxTx(call) ELSE buildCancelLimitOrderSolTx(call)

Build(call) ==
  CASE call.fn = "executeTrade" -> executeTrade(call)
    [] call.fn = "executeLynxOrder" -> executeLynxOrder(call)
    [] call.fn = "createDuel" -> createDuel(call)
    [] call.fn = "acceptDuel" -> buildAcceptDuelTx(call, index["duel"][call.key])
    [] call.fn = "cancelDuel" -> buildCancelDuelTx(call)
    [] call.fn = "createMarket" -> createMarket(call)
    [] call.fn = "createProposal" -> buildCreateDaoProposalTx(call, ProposalLife)
    [] call.fn = "castVote" -> buildCastDaoVoteTx(call)
    [] call.fn = "stakeLynx" -> buildStakeLynxTx(call)
    [] call.fn = "unstakeLynx" -> buildUnstakeLynxTx(call)
    [] call.fn = "claimRewards" -> buildClaimStakingRewardsTx(call)
    [] call.fn = "claimPosition" -> claimPosition(call)
    [] call.fn = "cancelOrder" -> cancelOrder(call)

\* What the wallet's user sees as the price when asked to sign.
QuoteOf(call) ==
  IF call.fn = "executeTrade" /\ ~call.limit
    THEN impliedPriceBpsForSide(call.market, call.outcome) ELSE NoQuote

\* A duel in LYNX is not on chain: the client asks the backend (module
\* OffchainMarket).
IsOffChain(call) == call.fn = "createDuel" /\ call.currency # "SOL"
-----------------------------------------------------------------------------
Untouched == UNCHANGED <<chainVars, indexerVars, kinds, others, listed>>

\* The call is over, answered or failed.
CallEnds == client' = IdleClient(Tail(client.todo))

Click ==
  /\ client.at = "idle"
  /\ client.todo # << >>
  /\ LET call == Head(client.todo)
     IN  \/ /\ IsOffChain(call)
            /\ CallEnds
         \/ /\ ~IsOffChain(call)
            /\ Shown(call)
            /\ client' = [client EXCEPT !.at = "signing", !.ix = Build(call),
                                        !.quote = QuoteOf(call)]
  /\ Untouched

\* signAndSendOnChain: the wallet simulates the transaction and sends it only
\* if it would succeed.
Send ==
  /\ client.at = "signing"
  /\ IF Accepts(client.ix) THEN client' = [client EXCEPT !.at = "sent"] ELSE CallEnds
  /\ Untouched

\* By the time it is executed it may be refused after all.
TxLands ==
  /\ client.at = "sent"
  /\ Lands(client.ix)
  /\ client' = [client EXCEPT !.at = "landed"]
  /\ UNCHANGED <<index, refresh, keeper, process, sync, faults, kinds, others, listed>>

TxFails ==
  /\ client.at = "sent"
  /\ ~Accepts(client.ix)
  /\ client' = [client EXCEPT !.at = "failed"]
  /\ Untouched

\* Its blockhash expires before it is executed, or its confirmation is missed.
TxUnconfirmed ==
  /\ client.at \in {"sent", "landed"}
  /\ faults > 0
  /\ faults' = faults - 1
  /\ CallEnds
  /\ UNCHANGED <<chainVars, index, notices, refresh, keeper, process, sync, kinds, others, listed>>

\* confirmTransaction resolves for a failed transaction as for a successful
\* one, and its error is not looked at.  POST /api/onchain/sync is not waited
\* for and may fail.
Confirmed ==
  /\ client.at \in {"landed", "failed"}
  /\ IF Head(client.todo).fn = "createMarket"
       THEN client' = [client EXCEPT !.at = IF @ = "landed" THEN "listing" ELSE "listing failed"]
       ELSE CallEnds
  /\ \/ \E redisFails \in BOOLEAN : PostSync(redisFails)
     \/ ~process.up /\ UNCHANGED <<sync, refresh, faults>>
  /\ UNCHANGED <<chainVars, index, notices, keeper, process, kinds, others, listed>>

\* POST /api/markets: the account must be there, the transaction must not have
\* failed, and the cutoff must still be ahead.
ListMarket ==
  /\ client.at \in {"listing", "listing failed"}
  /\ process.up
  /\ listed' = IF /\ client.ix.key \in DOMAIN ProgramAccounts("market")
                  /\ client.at = "listing"
                  /\ clock < client.ix.expires
                 THEN listed \cup {client.ix.key} ELSE listed
  /\ CallEnds
  /\ UNCHANGED <<chainVars, indexerVars, kinds, others>>

\* The RPC does not answer, or the backend is down.
ListingFails ==
  /\ client.at \in {"listing", "listing failed"}
  /\ \/ faults > 0 /\ faults' = faults - 1
     \/ ~process.up /\ UNCHANGED faults
  /\ CallEnds
  /\ UNCHANGED <<chainVars, index, notices, refresh, keeper, process, sync, kinds, others, listed>>

ClientNext ==
  \/ Click \/ Send \/ TxLands \/ TxFails \/ TxUnconfirmed \/ Confirmed
  \/ ListMarket \/ ListingFails
-----------------------------------------------------------------------------
\* Everything else leaves the client alone.
Alone(A) == A /\ UNCHANGED clientVars

Reconcile == Alone(RefreshTick \/ Fetch \/ Rebuild)
KeeperLooks == Alone(RunKeeperOnce \/ KeeperMovesOn \/ KeeperSends)
KeeperWaits == Alone(KeeperTxLands \/ KeeperTxRejected \/ KeeperConfirms \/ KeeperGivesUp)
Failures ==
  Alone(FetchFails \/ StopChainIndexer \/ ConfigUnreadable \/ \E kind \in Kinds : Lose(kind))

systemVars == <<chainVars, indexerVars, kinds, others, clientVars>>

SystemNext ==
  \/ ClientNext
  \/ Reconcile \/ KeeperLooks \/ KeeperWaits \/ Failures
  \/ \E kind \in Kinds : Alone(Deliver(kind))
  \/ Alone(BackoffEnds) \/ Alone(StartChainIndexer) \/ Alone(ThrottleEnds)
  \/ Alone(TimePasses)
  \/ \E ix \in others : Alone(SomebodySends(ix))

\* The reconciliation and the keeper run on intervals, each of their remote
\* calls ends, the subscriptions deliver what is not lost, the process is
\* restarted, and time goes on.
SystemFairness ==
  /\ WF_systemVars(Reconcile)
  /\ WF_systemVars(KeeperLooks)
  /\ WF_systemVars(KeeperWaits)
  /\ \A kind \in Kinds : WF_systemVars(Alone(Deliver(kind)))
  /\ WF_systemVars(Alone(BackoffEnds))
  /\ WF_systemVars(Alone(StartChainIndexer))
  /\ WF_systemVars(Alone(TimePasses))
-----------------------------------------------------------------------------
\* Whatever entries land between the quote and the transaction, a buyer never
\* enters a pool at more than ten points above the price that was shown.
QuoteHolds ==
  [][(/\ client.at = "sent"
      /\ client'.at = "landed"
      /\ client.quote \in Nat
      /\ markets[client.ix.key].pool_total > 0)
     => ImpliedPrice(markets[client.ix.key], client.ix.outcome)
          <= client.quote + DEFAULT_SLIPPAGE_BPS]_systemVars

\* Whatever notices are lost, reconciliations fail or the process crashes, the
\* index ends up with what is on chain.
IndexCatchesUp ==
  <>[](\A kind \in Kinds : index[kind] = ProgramAccounts(kind))

\* The work there is for a keeper, as the program sees it.
LimitsToExecute ==
  {k \in LimitKeys : \/ CanExecuteLimitOrder([NoInstruction EXCEPT !.key = k], "SOL")
                     \/ CanExecuteLimitOrder([NoInstruction EXCEPT !.key = k], "LYNX")}
PairsToMatch ==
  {p \in SpotKeys \X SpotKeys :
     CanMatchSpotOrders([NoInstruction EXCEPT !.key = p[1], !.other = p[2], !.amount = 1])}
MarketsToAdvance ==
  {m \in Markets : \/ CanCutOffMarket([NoInstruction EXCEPT !.key = m])
                   \/ CanFinalizeResolution([NoInstruction EXCEPT !.key = m])}
DuelsToSettle ==
  {d \in DuelKeys : \E u \in Users \cup {Treasury} :
     LET ix == [NoInstruction EXCEPT !.key = d, !.recipient = u]
     IN  CanResolveDuel(ix, "OneVOne") \/ CanResolveDuel(ix, "OneVOneVProtocol")}
ProposalsToFinalize ==
  {p \in ProposalKeys : CanFinalizeDaoProposal([NoInstruction EXCEPT !.key = p])}

NoWorkLeft ==
  /\ LimitsToExecute = {}
  /\ PairsToMatch = {}
  /\ MarketsToAdvance = {}
  /\ DuelsToSettle = {}
  /\ ProposalsToFinalize = {}

\* What is ready on chain does not stay so: where a keeper runs, it finds it
\* and cranks it, whatever failed before.
ReadyIsCranked == process.keeper => []<>NoWorkLeft
=============================================================================
