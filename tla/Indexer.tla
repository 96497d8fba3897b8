------------------------------ MODULE Indexer ------------------------------
(***************************************************************************)
(* The backend's mirror of the chain and its keeper (chain.ts).  The index *)
(* is fed twice: by notices pushed over a WebSocket, one per account that  *)
(* changed, and by a reconciliation that fetches one kind of account after *)
(* the other and rebuilds it.  The keeper walks the index, sends whatever  *)
(* it finds ready, and notes the result in the entry it holds, unless that *)
(* entry has been replaced while it waited for the chain.                  *)
(*                                                                         *)
(* Between two awaits JavaScript is atomic: a step here runs from the      *)
(* answer of one remote call to the next call.                             *)
(***************************************************************************)
EXTENDS OnChain, Sequences, SequencesExt

CONSTANTS
  WsEnabled,     \* CHAIN_DISABLE_WS # 'true'
  Operator       \* the wallet that pays for the keeper's transactions

ASSUME OperatorAssumption == WsEnabled \in BOOLEAN /\ Operator \in Users

VARIABLES
  kinds,     \* bound: the kinds of account that exist, in ACCOUNT_KINDS' order
  index,     \* the map of each kind: address to decoded account
  notices,   \* account changes of each kind still to be delivered
  refresh,   \* the reconciliation in flight, if any
  keeper,    \* the keeper's cycle in flight, if any
  process,   \* is the backend up, is it subscribed, does it have a keeper
  sync,      \* who holds the throttle of POST /api/onchain/sync
  faults,    \* bound: the failures still to come
  others     \* bound: the instructions somebody else still sends

indexerVars == <<index, notices, refresh, keeper, process, sync, faults>>

Kinds == {"market", "predictionOrder", "userPosition", "spotOrder", "duel", "daoProposal"}
-----------------------------------------------------------------------------
\* What each decoder keeps of an account.
DecodeMarket(m) ==
  [status |-> markets[m].status, currency |-> markets[m].currency,
   is_ternary |-> markets[m].is_ternary, cutoff |-> markets[m].cutoff_ts,
   pool_total |-> markets[m].pool_total, total |-> markets[m].total,
   result |-> markets[m].result, proposed |-> markets[m].proposed_ts]

DecodePredictionOrder(k) ==
  [status |-> limitOrders[k].status, owner |-> limitOrders[k].owner,
   market |-> limitOrders[k].market, outcome |-> limitOrders[k].outcome,
   limit |-> limitOrders[k].limit_price_bps, expires |-> limitOrders[k].expires_ts]

DecodePosition(p) == [owner |-> p[2]] @@ positions[p]

DecodeSpotOrder(k) ==
  [status |-> spotOrders[k].status, side |-> spotOrders[k].side,
   owner |-> spotOrders[k].owner, price |-> spotOrders[k].price_scaled,
   remaining |-> spotOrders[k].remaining, created |-> spotOrders[k].created_ts,
   expires |-> spotOrders[k].expires_ts]

DecodeDuel(d) == duels[d]

DecodeDaoProposal(p) ==
  [status |-> proposals[p].status, end |-> proposals[p].end_ts,
   yes |-> proposals[p].votes_yes, no |-> proposals[p].votes_no]

\* getProgramAccounts, for the discriminator of each kind.
ProgramAccounts(kind) ==
  CASE kind = "market" ->
         [m \in {k \in Markets : markets[k].status # "None"} |-> DecodeMarket(m)]
    [] kind = "predictionOrder" ->
         [k \in {l \in LimitKeys : limitOrders[l].status # "None"} |-> DecodePredictionOrder(k)]
    [] kind = "userPosition" ->
         [p \in {q \in DOMAIN positions : positions[q].amount > 0} |-> DecodePosition(p)]
    [] kind = "spotOrder" ->
         [k \in {o \in SpotKeys : spotOrders[o].status # "None"} |-> DecodeSpotOrder(k)]
    [] kind = "duel" ->
         [d \in {e \in DuelKeys : duels[e].status # "None"} |-> DecodeDuel(d)]
    [] kind = "daoProposal" ->
         [p \in {q \in ProposalKeys : proposals[q].status # "None"} |-> DecodeDaoProposal(p)]

\* An instruction of the keeper's, with every field an instruction has.
NoInstruction ==
  [op |-> "none", kind |-> "none", signer |-> Operator, key |-> Nobody, other |-> Nobody,
   outcome |-> "Yes", amount |-> 0, price |-> 0, expires |-> 0, resolve |-> 0,
   currency |-> "SOL", is_ternary |-> FALSE, recipient |-> Nobody, duel_type |-> "OneVOne",
   yes |-> FALSE]

Empty == [kind \in Kinds |-> << >>]
NoRefresh == [at |-> 0, fetched |-> FALSE, snapshot |-> << >>]
NoCycle ==
  [at |-> "idle", now |-> 0, seen |-> {}, tx |-> "none", ix |-> NoInstruction,
   held |-> FALSE, buys |-> << >>, sells |-> << >>]

\* The accounts a transaction changed, as the RPC pushes them.
Changed(kind) ==
  LET before == ProgramAccounts(kind)
      after == ProgramAccounts(kind)'
  IN  SetToSeq({<<k, after[k]>> : k \in
        {k \in DOMAIN after : k \notin DOMAIN before \/ before[k] # after[k]}})

Notify ==
  notices' = IF process.live
               THEN [kind \in Kinds |-> notices[kind] \o Changed(kind)] ELSE notices

\* A transaction lands: it is executed, and whoever is subscribed is told.
Lands(ix) == Accepts(ix) /\ Applies(ix) /\ Notify
-----------------------------------------------------------------------------
\* The entry the keeper holds is no longer the one of the index.
Replaced(kind, keys) ==
  IF keeper.ix.kind = kind /\ keeper.ix.key \in keys
    THEN [keeper EXCEPT !.held = FALSE] ELSE keeper

\* The callback of onProgramAccountChange.
Deliver(kind) ==
  /\ process.live
  /\ notices[kind] # << >>
  /\ LET change == Head(notices[kind])
     IN  /\ index' = [index EXCEPT ![kind] = (change[1] :> change[2]) @@ @]
         /\ keeper' = Replaced(kind, {change[1]})
  /\ notices' = [notices EXCEPT ![kind] = Tail(@)]
  /\ UNCHANGED <<chainVars, refresh, process, sync, faults, kinds, others>>

\* A change pushed while the WebSocket reconnects is never seen.
Lose(kind) ==
  /\ faults > 0
  /\ notices[kind] # << >>
  /\ notices' = [notices EXCEPT ![kind] = Tail(@)]
  /\ faults' = faults - 1
  /\ UNCHANGED <<chainVars, index, refresh, keeper, process, sync, kinds, others>>

\* refreshOnce: one reconciliation at a time, and none while it backs off
\* after a failure unless it is forced.
MayRefresh(force) == refresh.at = 0 /\ (force \/ ~process.backoff)

RefreshTick ==
  /\ process.up
  /\ MayRefresh(FALSE)
  /\ refresh' = [NoRefresh EXCEPT !.at = 1]
  /\ UNCHANGED <<chainVars, index, notices, keeper, process, sync, faults, kinds, others>>

Fetch ==
  /\ refresh.at > 0
  /\ ~refresh.fetched
  /\ refresh' = [refresh EXCEPT !.fetched = TRUE,
                                !.snapshot = ProgramAccounts(kinds[refresh.at])]
  /\ UNCHANGED <<chainVars, index, notices, keeper, process, sync, faults, kinds, others>>

\* Clears the map of the kind and fills it from the snapshot, and goes on with
\* the next kind.
Rebuild ==
  /\ refresh.fetched
  /\ LET kind == kinds[refresh.at]
     IN  /\ index' = [index EXCEPT ![kind] = refresh.snapshot]
         /\ keeper' = Replaced(kind, {keeper.ix.key})
  /\ IF refresh.at < Len(kinds)
       THEN refresh' = [NoRefresh EXCEPT !.at = refresh.at + 1] /\ UNCHANGED process
       ELSE refresh' = NoRefresh /\ process' = [process EXCEPT !.backoff = FALSE]
  /\ UNCHANGED <<chainVars, notices, sync, faults, kinds, others>>

AfterFailure_StillRunning == [NoRefresh EXCEPT !.at = -1]
\* The finally block of refreshOnce.
AfterFailure == NoRefresh

\* withRpcTimeout: the call fails or takes more than 15 s.
FetchFails ==
  /\ faults > 0
  /\ refresh.at \in 1..Len(kinds)
  /\ ~refresh.fetched
  /\ faults' = faults - 1
  /\ refresh' = AfterFailure
  /\ process' = [process EXCEPT !.backoff = TRUE]
  /\ UNCHANGED <<chainVars, index, notices, keeper, sync, kinds, others>>

BackoffEnds ==
  /\ process.backoff
  /\ process' = [process EXCEPT !.backoff = FALSE]
  /\ UNCHANGED <<chainVars, index, notices, refresh, keeper, sync, faults, kinds, others>>

\* A crash, or stopChainIndexer at the end of the process: the index, what was
\* in flight and the in-memory throttle are gone.
StopChainIndexer ==
  /\ faults > 0
  /\ process.up
  /\ faults' = faults - 1
  /\ process' = [process EXCEPT !.up = FALSE, !.live = FALSE, !.backoff = FALSE]
  /\ index' = Empty
  /\ notices' = Empty
  /\ refresh' = NoRefresh
  /\ keeper' = NoCycle
  /\ sync' = [sync EXCEPT !.memory = FALSE]
  /\ UNCHANGED <<chainVars, kinds, others>>

\* startChainIndexer: a first reconciliation, and the subscriptions.
StartChainIndexer ==
  /\ ~process.up
  /\ process' = [process EXCEPT !.up = TRUE, !.live = WsEnabled]
  /\ refresh' = [NoRefresh EXCEPT !.at = 1]
  /\ UNCHANGED <<chainVars, index, notices, keeper, sync, faults, kinds, others>>
-----------------------------------------------------------------------------
\* What the keeper sends for an entry: an instruction, and the kind of entry.
Crank(op, kind, key) == [NoInstruction EXCEPT !.op = op, !.kind = kind, !.key = key]

\* An order whose limit the pool's price is below, as the index has both.
LimitCrank(k) ==
  Crank(IF index["market"][index["predictionOrder"][k].market].currency = "SOL"
          THEN "execute_prediction_limit_order_sol"
          ELSE "execute_prediction_limit_order_lynx", "predictionOrder", k)

ReadyOrders ==
  {k \in DOMAIN index["predictionOrder"] :
     LET order == index["predictionOrder"][k]
     IN  /\ order.status = "Open"
         /\ keeper.now < order.expires
         /\ order.market \in DOMAIN index["market"]
         /\ LET market == index["market"][order.market]
            IN  /\ market.status \in {"Open", "Active"}
                /\ market.pool_total > 0
                /\ ImpliedPrice(market, order.outcome) < order.limit}

PastCutoff_OnlyTraded(market) == market.status = "Active" /\ keeper.now >= market.cutoff
PastCutoff(market) == market.status \in {"Open", "Active"} /\ keeper.now >= market.cutoff

PastWindow(market) ==
  /\ market.status = "PendingResolution"
  /\ market.proposed > 0
  /\ keeper.now >= market.proposed + DisputeWindow

MarketCranks ==
  {Crank("cut_off_market", "market", m) : m \in
     {m \in DOMAIN index["market"] : PastCutoff(index["market"][m])}} \cup
  {Crank("finalize_resolution", "market", m) : m \in
     {m \in DOMAIN index["market"] : PastWindow(index["market"][m])}}

\* Of a 1v1vP the keeper passes the account of the creator if it won, and of
\* the rival otherwise.
DuelCrank(d) ==
  LET duel == index["duel"][d]
      result == index["market"][duel.parent].result
  IN  IF duel.duel_type = "OneVOne"
        THEN [Crank("resolve_duel_sol", "duel", d) EXCEPT !.recipient = WinnerOf(duel, result)]
        ELSE [Crank("resolve_protocol_duel", "duel", d) EXCEPT
                !.recipient = IF result = duel.creator_outcome THEN duel.creator ELSE duel.rival]

ReadyDuels ==
  {d \in DOMAIN index["duel"] :
     /\ index["duel"][d].status = "Active"
     /\ index["duel"][d].parent \in DOMAIN index["market"]
     /\ index["market"][index["duel"][d].parent].status = "Resolved"}

ReadyProposals ==
  {p \in DOMAIN index["daoProposal"] :
     index["daoProposal"][p].status = "Active" /\ keeper.now >= index["daoProposal"][p].end}

Before(a, b) == a.price < b.price \/ (a.price = b.price /\ a.created <= b.created)

\* matchSpotOrdersOnce: the live orders of a side as they stand when the pass
\* begins, best price first and then oldest first.
Book(side) ==
  LET live == {k \in DOMAIN index["spotOrder"] :
                 /\ index["spotOrder"][k].side = side
                 /\ index["spotOrder"][k].status = "Open"
                 /\ clock < index["spotOrder"][k].expires}
      entry(k) == [key |-> k, price |-> index["spotOrder"][k].price,
                   created |-> index["spotOrder"][k].created,
                   left |-> index["spotOrder"][k].remaining]
  IN  SetToSortSeq({entry(k) : k \in live},
        LAMBDA a, b : IF side = "Sell" THEN Before(a, b)
          ELSE a.price > b.price \/ (a.price = b.price /\ a.created <= b.created))

SpotFill ==
  IF Head(keeper.buys).left < Head(keeper.sells).left
    THEN Head(keeper.buys).left ELSE Head(keeper.sells).left

SpotCranks ==
  IF keeper.buys # << >> /\ keeper.sells # << >> /\ Head(keeper.buys).price >= Head(keeper.sells).price
    THEN {[Crank("match_spot_orders", "spotOrder", Head(keeper.buys).key) EXCEPT
             !.other = Head(keeper.sells).key, !.amount = SpotFill]}
    ELSE {}

Cranks ==
  CASE keeper.at = "limit" -> {LimitCrank(k) : k \in ReadyOrders}
    [] keeper.at = "spot" -> SpotCranks
    [] keeper.at = "markets" -> MarketCranks
    [] keeper.at = "duels" -> {DuelCrank(d) : d \in ReadyDuels}
    [] keeper.at = "dao" -> {Crank("finalize_dao_proposal", "daoProposal", p) : p \in ReadyProposals}
    [] OTHER -> {}
-----------------------------------------------------------------------------
\* runKeeperOnce: a tick is skipped while a cycle is in flight.
RunKeeperOnce ==
  /\ process.up
  /\ process.keeper
  /\ keeper.at = "idle"
  /\ keeper' = [NoCycle EXCEPT !.at = "limit", !.now = clock]
  /\ UNCHANGED <<chainVars, index, notices, refresh, process, sync, faults, kinds, others>>

\* runKeeperCycle: the phases in their order; each takes the time and the book
\* when it begins.
NextPhase ==
  CASE keeper.at = "limit" ->
         [NoCycle EXCEPT !.at = "spot", !.buys = Book("Buy"), !.sells = Book("Sell")]
    [] keeper.at = "spot" -> [NoCycle EXCEPT !.at = "markets", !.now = clock]
    [] keeper.at = "markets" -> [NoCycle EXCEPT !.at = "duels"]
    [] keeper.at = "duels" -> [NoCycle EXCEPT !.at = "dao", !.now = clock]
    [] keeper.at = "dao" -> NoCycle

KeeperMovesOn ==
  /\ keeper.at # "idle"
  /\ keeper.tx = "none"
  /\ \A crank \in Cranks : crank.key \in keeper.seen
  /\ keeper' = NextPhase
  /\ UNCHANGED <<chainVars, index, notices, refresh, process, sync, faults, kinds, others>>

\* getConfigInfo fails: the phase is skipped.
ConfigUnreadable ==
  /\ faults > 0
  /\ keeper.at \in {"markets", "duels"}
  /\ keeper.tx = "none"
  /\ keeper.seen = {}
  /\ faults' = faults - 1
  /\ keeper' = NextPhase
  /\ UNCHANGED <<chainVars, index, notices, refresh, process, sync, kinds, others>>

\* One attempt for each entry and pass.
KeeperSends ==
  /\ keeper.tx = "none"
  /\ \E crank \in Cranks :
       /\ crank.key \notin keeper.seen
       /\ keeper' = [keeper EXCEPT !.tx = "sent", !.ix = crank, !.held = TRUE,
                       !.seen = IF keeper.at = "spot" THEN {} ELSE @ \cup {crank.key}]
  /\ UNCHANGED <<chainVars, index, notices, refresh, process, sync, faults, kinds, others>>

KeeperTxLands ==
  /\ keeper.tx = "sent"
  /\ Lands(keeper.ix)
  /\ keeper' = [keeper EXCEPT !.tx = "landed"]
  /\ UNCHANGED <<index, refresh, process, sync, faults, kinds, others>>

KeeperTxRejected ==
  /\ keeper.tx = "sent"
  /\ ~Accepts(keeper.ix)
  /\ keeper' = [keeper EXCEPT !.tx = "failed"]
  /\ UNCHANGED <<chainVars, index, notices, refresh, process, sync, faults, kinds, others>>

\* The status the keeper writes into the entry it holds; a proposal's comes
\* from the votes of that entry, and a market's result is not touched.
StatusAfter(entry) ==
  CASE keeper.at = "limit" -> "Filled"
    [] keeper.at = "markets" /\ keeper.ix.op = "cut_off_market" -> "CutOff"
    [] keeper.at = "dao" -> IF entry.yes > entry.no THEN "Passed" ELSE "Rejected"
    [] OTHER -> "Resolved"

Noted ==
  IF keeper.held /\ keeper.at # "spot"
    THEN [index EXCEPT ![keeper.ix.kind][keeper.ix.key].status =
            StatusAfter(index[keeper.ix.kind][keeper.ix.key])]
    ELSE index

\* What is left of a side's list once its first order was filled by `fill`.
Consumed(orders, fill) ==
  IF Head(orders).left = fill THEN Tail(orders)
    ELSE [orders EXCEPT ![1].left = @ - fill]

KeeperConfirms ==
  /\ keeper.tx = "landed"
  /\ index' = Noted
  /\ keeper' = [keeper EXCEPT !.tx = "none", !.held = FALSE, !.ix = NoInstruction,
       !.buys = IF keeper.at = "spot" THEN Consumed(@, keeper.ix.amount) ELSE @,
       !.sells = IF keeper.at = "spot" THEN Consumed(@, keeper.ix.amount) ELSE @]
  /\ UNCHANGED <<chainVars, notices, refresh, process, sync, faults, kinds, others>>

\* sendAndConfirmTransaction throws: the transaction was rejected, never
\* landed, or landed and its confirmation was missed.  The book's pass steps
\* over the buy.
KeeperGivesUp ==
  /\ \/ keeper.tx = "failed" /\ UNCHANGED faults
     \/ keeper.tx \in {"sent", "landed"} /\ faults > 0 /\ faults' = faults - 1
  /\ keeper' = [keeper EXCEPT !.tx = "none", !.held = FALSE, !.ix = NoInstruction,
       !.buys = IF keeper.at = "spot" THEN Tail(@) ELSE @]
  /\ UNCHANGED <<chainVars, index, notices, refresh, process, sync, kinds, others>>
-----------------------------------------------------------------------------
\* Anybody else's transaction.
SomebodySends(ix) ==
  /\ ix \in others
  /\ Lands(ix)
  /\ others' = others \ {ix}
  /\ UNCHANGED <<index, refresh, keeper, process, sync, faults, kinds>>

TimePasses ==
  /\ ChainTick
  /\ UNCHANGED <<indexerVars, kinds, others>>

\* The throttle of POST /api/onchain/sync: one in three seconds, by a Redis key
\* or, when Redis fails, by the time of the last one in this process.
Throttled(redisFails) == IF redisFails THEN sync.memory ELSE sync.redis

\* forceRefresh, which a reconciliation in flight makes a no-op.
PostSync(redisFails) ==
  /\ process.up
  /\ IF Throttled(redisFails)
       THEN UNCHANGED <<sync, refresh>>
       ELSE /\ sync' = IF redisFails THEN [sync EXCEPT !.memory = TRUE]
                                     ELSE [sync EXCEPT !.redis = TRUE]
            /\ refresh' = IF MayRefresh(TRUE) THEN [NoRefresh EXCEPT !.at = 1] ELSE refresh
  /\ faults >= (IF redisFails THEN 1 ELSE 0)
  /\ faults' = faults - (IF redisFails THEN 1 ELSE 0)

ThrottleEnds ==
  /\ sync.redis \/ sync.memory
  /\ sync' = [redis |-> FALSE, memory |-> FALSE]
  /\ UNCHANGED <<chainVars, index, notices, refresh, keeper, process, faults, kinds, others>>
-----------------------------------------------------------------------------
\* The read routes.
IsPastCutoff(market) ==
  clock >= market.cutoff \/ market.status \in {"CutOff", "PendingResolution", "Resolved"}

BettableMarkets == {m \in DOMAIN index["market"] : ~IsPastCutoff(index["market"][m])}
OpenOrders(m) ==
  {k \in DOMAIN index["predictionOrder"] :
     index["predictionOrder"][k].market = m /\ index["predictionOrder"][k].status = "Open"}
PositionsOf(u) ==
  {p \in DOMAIN index["userPosition"] : index["userPosition"][p].owner = u}
OpenSpotOrders == {k \in DOMAIN index["spotOrder"] : index["spotOrder"][k].status = "Open"}
LiveDuels ==
  {d \in DOMAIN index["duel"] :
     /\ index["duel"][d].status \notin {"Resolved", "Cancelled"}
     /\ clock < index["duel"][d].expires_ts
     /\ index["duel"][d].parent \in BettableMarkets}
ListedProposals == DOMAIN index["daoProposal"]
=============================================================================
