------------------------------ MODULE MCIndexer ------------------------------
(***************************************************************************)
(* The chain, its mirror, the keeper and a client for TLC.  A behaviour    *)
(* follows one story: accounts that are already on chain, the calls the    *)
(* client makes, what others send meanwhile, and how much may fail.        *)
(***************************************************************************)
EXTENDS Client

CONSTANTS alice, bob, carol, m1, k1, k2, k3, l1, l2, d1, p1, Stories

MCUnits == [SOL |-> 2, LYNX |-> 2]

Ix(op, signer, key) == [NoInstruction EXCEPT !.op = op, !.signer = signer, !.key = key]

NoCall ==
  [fn |-> "none", user |-> alice, key |-> Nobody, market |-> m1, outcome |-> "Yes",
   side |-> "Buy", limit |-> FALSE, amount |-> 1, price |-> 0, currency |-> "SOL",
   isTernary |-> FALSE, duelType |-> "OneVOne", yes |-> TRUE]
Asks(fn, user, key) == [NoCall EXCEPT !.fn = fn, !.user = user, !.key = key]

NoMarkets == [m \in Markets |-> NoMarket]
SomeMarket ==
  [NoMarket EXCEPT !.status = "Active", !.cutoff_ts = 9, !.resolve_ts = 10, !.pool_total = 10,
                   !.total = [Yes |-> 6, No |-> 4, Draw |-> 0]]
OnMarket(market) == m1 :> market @@ NoMarkets

Blank ==
  [name |-> "blank", kinds |-> <<"market">>, clock |-> 4, keeper |-> FALSE, faults |-> 0,
   calls |-> << >>, others |-> {},
   markets |-> NoMarkets, vaults |-> {}, listed |-> {},
   positions |-> << >>, spot |-> << >>, limits |-> << >>, duels |-> << >>,
   proposals |-> << >>, stakes |-> << >>]
-----------------------------------------------------------------------------
Resting(side, owner, price, created) ==
  [status |-> "Open", side |-> side, owner |-> owner, price_scaled |-> price, amount |-> 3,
   remaining |-> 3, created_ts |-> created, expires_ts |-> 9]

\* Two buys wait, the best of an owner without a LYNX account; a sale comes,
\* and its owner may take it back.
SpotStory ==
  [Blank EXCEPT !.name = "spot", !.kinds = <<"spotOrder">>, !.keeper = TRUE, !.faults = 1,
     !.spot = k1 :> Resting("Buy", carol, 9, 1) @@ k2 :> Resting("Buy", alice, 5, 2),
     !.calls = <<[Asks("executeLynxOrder", bob, k3) EXCEPT !.side = "Sell", !.price = 3]>>,
     !.others = {Ix("cancel_spot_order_sell", bob, k3)}]

\* A buy that crosses an older, cheaper sale, and is cancelled.
CrossStory ==
  [Blank EXCEPT !.name = "cross", !.kinds = <<"spotOrder">>, !.keeper = TRUE,
     !.spot = k1 :> Resting("Sell", bob, 3, 1),
     !.calls = <<[Asks("executeLynxOrder", alice, k2) EXCEPT !.amount = 2, !.price = 5],
                 Asks("cancelOrder", alice, k2)>>]

Entry(user, outcome, amount) ==
  [Ix("buy_position_sol", user, m1) EXCEPT !.outcome = outcome, !.amount = amount,
                                           !.price = 10000]

\* A limit order becomes executable when somebody else's entry moves the price,
\* and its owner may take it back.
LimitStory ==
  [Blank EXCEPT !.name = "limit", !.kinds = <<"market", "predictionOrder", "userPosition">>,
     !.keeper = TRUE, !.markets = OnMarket(SomeMarket), !.listed = {m1},
     !.calls = <<[Asks("executeTrade", alice, l1) EXCEPT !.limit = TRUE, !.price = 5000]>>,
     !.others = {Entry(bob, "No", 8), Ix("cancel_prediction_limit_order_sol", alice, l1)}]

\* An entry at a price that another one moves.
QuoteStory ==
  [Blank EXCEPT !.name = "quote", !.kinds = <<"market", "userPosition">>, !.faults = 1,
     !.markets = OnMarket(SomeMarket), !.listed = {m1},
     !.calls = <<Asks("executeTrade", alice, m1)>>,
     !.others = {Entry(bob, "Yes", 8)}]

\* Orders put down and taken back where nobody executes them.
OrderStory(currency) ==
  [Blank EXCEPT !.name = currency, !.kinds = <<"market", "predictionOrder">>,
     !.markets = OnMarket([SomeMarket EXCEPT !.currency = currency]), !.listed = {m1},
     !.calls = <<[Asks("executeTrade", alice, l1) EXCEPT !.limit = TRUE, !.price = 12000],
                 Asks("cancelOrder", alice, l1)>>]

ActiveDuel ==
  [status |-> "Active", parent |-> m1, creator |-> alice, rival |-> bob, amount |-> 2,
   creator_outcome |-> "Yes", rival_outcome |-> "No", duel_type |-> "OneVOne", expires_ts |-> 2]

\* A market runs its course and a duel on it is settled.
LifeStory ==
  [Blank EXCEPT !.name = "life", !.kinds = <<"market", "duel">>, !.keeper = TRUE, !.clock = 1,
     !.markets = OnMarket([SomeMarket EXCEPT !.status = "Open", !.cutoff_ts = 2, !.resolve_ts = 2]),
     !.duels = d1 :> ActiveDuel,
     !.others = {[Ix("propose_resolution", Admin, m1) EXCEPT !.outcome = "Yes"],
                 Ix("dispute_resolution", alice, m1)}]

\* Votes are cast while the keeper waits to finalize.
DaoStory ==
  [Blank EXCEPT !.name = "dao", !.kinds = <<"daoProposal">>, !.keeper = TRUE, !.clock = 3,
     !.proposals = p1 :> [NoProposal EXCEPT !.status = "Active", !.created_ts = 2, !.end_ts = 4],
     !.stakes = alice :> [NoStake EXCEPT !.amount = 2, !.staked_at = 1]
                @@ bob :> [NoStake EXCEPT !.amount = 1, !.staked_at = 1],
     !.calls = <<Asks("castVote", alice, p1)>>,
     !.others = {Ix("cast_dao_vote", bob, p1)}]

\* The admin creates a LYNX market, which needs its vault before it takes an
\* entry at the market's price.
CreateStory ==
  [Blank EXCEPT !.name = "create", !.kinds = <<"market", "userPosition">>, !.clock = 3,
     !.faults = 1,
     !.calls = <<[Asks("createMarket", Admin, m1) EXCEPT !.currency = "LYNX"],
                 Asks("executeTrade", alice, m1)>>,
     !.others = {Ix("init_market_lynx_vault", bob, m1)}]

\* It takes a limit order at once.
VaultStory ==
  [Blank EXCEPT !.name = "vault", !.kinds = <<"market", "predictionOrder", "userPosition">>,
     !.keeper = TRUE,
     !.markets = OnMarket([SomeMarket EXCEPT !.currency = "LYNX"]), !.listed = {m1},
     !.calls = <<[Asks("executeTrade", alice, l1) EXCEPT !.limit = TRUE, !.price = 9000]>>,
     !.others = {Ix("init_market_lynx_vault", bob, m1)}]

\* Duels offered, accepted and taken back.
DuelStory ==
  [Blank EXCEPT !.name = "duel", !.kinds = <<"market", "duel">>,
     !.markets = OnMarket(SomeMarket),
     !.calls = <<[Asks("createDuel", alice, d1) EXCEPT !.currency = "LYNX"],
                 Asks("createDuel", alice, d1), 
                 [Asks("acceptDuel", bob, d1) EXCEPT !.outcome = "No"],
                 Asks("cancelDuel", alice, d1)>>,
     !.others = {Ix("cancel_duel", alice, d1), Ix("pause", alice, Nobody),
                 Ix("unpause", alice, Nobody)}]

\* What there is to take out of a resolved LYNX market the backend does not list.
ClaimStory ==
  [Blank EXCEPT !.name = "claim", 
     !.kinds = <<"market", "predictionOrder", "userPosition", "daoProposal">>,
     !.markets = OnMarket([SomeMarket EXCEPT !.status = "Resolved", !.currency = "LYNX",
                                             !.result = "Yes"]),
     !.positions = <<m1, alice, "Yes">> :> [amount |-> 6, claimed |-> FALSE],
     !.stakes = alice :> [amount |-> 2, staked_at |-> 1, pending_rewards |-> 1],
     !.limits = l1 :> [status |-> "Open", owner |-> alice, market |-> m1, outcome |-> "Yes",
                       amount |-> 2, limit_price_bps |-> 3000, created_ts |-> 1, expires_ts |-> 4],
     !.calls = <<Asks("claimPosition", alice, Nobody), Asks("stakeLynx", alice, Nobody),
                 Asks("unstakeLynx", alice, Nobody), Asks("claimRewards", alice, Nobody),
                 Asks("createProposal", Admin, p1)>>,
     !.others = {Ix("cancel_prediction_limit_order_lynx", bob, l1)}]

MCStories ==
  {SpotStory, CrossStory, LimitStory, QuoteStory, OrderStory("SOL"), OrderStory("LYNX"),
   VaultStory, LifeStory, DaoStory, CreateStory, DuelStory, ClaimStory}
-----------------------------------------------------------------------------
EscrowOf(order) ==
  IF order.side = "Buy" THEN SpotSolAmount(order.remaining, order.price_scaled)
    ELSE order.remaining

VARIABLE name   \* the story that is followed

MCInit ==
  \E story \in Stories :
    /\ name = story.name
    /\ clock = story.clock
    /\ paused = FALSE
    /\ markets = story.markets
    /\ lynxVaults = story.vaults
    /\ positions = story.positions @@ [p \in Markets \X Users \X Outcomes |-> NoPosition]
    /\ spotOrders = story.spot @@ [k \in SpotKeys |-> NoOrder]
    /\ spotEscrow = [k \in SpotKeys |-> EscrowOf(spotOrders[k])]
    /\ limitOrders = story.limits @@ [k \in LimitKeys |-> NoLimit]
    /\ limitEscrow = [k \in LimitKeys |-> limitOrders[k].amount]
    /\ duels = story.duels @@ [d \in DuelKeys |-> NoDuel]
    /\ proposals = story.proposals @@ [p \in ProposalKeys |-> NoProposal]
    /\ votes = {}
    /\ stakes = story.stakes @@ [u \in Users |-> NoStake]
    /\ kinds = story.kinds
    /\ index = Empty
    /\ notices = Empty
    /\ refresh = NoRefresh
    /\ keeper = NoCycle
    /\ process = [up |-> FALSE, live |-> FALSE, backoff |-> FALSE, keeper |-> story.keeper]
    /\ sync = [redis |-> FALSE, memory |-> FALSE]
    /\ faults = story.faults
    /\ others = story.others
    /\ client = IdleClient(story.calls)
    /\ listed = story.listed

MCSpec ==
  /\ MCInit
  /\ [][SystemNext /\ UNCHANGED name]_<<systemVars, name>>
  /\ SystemFairness
=============================================================================
