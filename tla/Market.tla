------------------------------- MODULE Market -------------------------------
(***************************************************************************)
(* One prediction market of the Lynx program, in SOL or in LYNX: entries   *)
(* while it is open, the optimistic resolution (the oracle proposes, a     *)
(* multisig signer may dispute, anybody finalizes, the multisig is the     *)
(* fallback), and the payout of the pool (claims, LYNX emission, sweeps).  *)
(*                                                                         *)
(* A transaction is atomic: each instruction is one action.  What an       *)
(* instruction reads from an account that is not the market's own (the     *)
(* pause flag, the signer check, the stake total, the TWAP ratio) is a     *)
(* parameter of its action; module SupplyTwap supplies the ratio.          *)
(***************************************************************************)
EXTENDS LynxMath, FiniteSets, Functions

CONSTANTS
  Owners,            \* the keys that hold positions
  Oracle,            \* market.oracle_authority
  Nobody,            \* Pubkey::default()
  MinOrder,          \* MIN_ORDER_LAMPORTS
  MaxOrder,          \* MAX_ORDER_LAMPORTS
  OracleTimeout,     \* ORACLE_TIMEOUT_SECONDS
  DisputeWindow,     \* DISPUTE_WINDOW_SECONDS
  LamportsPerMicroLynx, \* LAMPORTS_TO_MICRO_LYNX_DENOMINATOR
  RewardScale,       \* REWARD_SCALE
  Amounts,           \* bound: the amounts somebody sends
  Ratios,            \* bound: the mint ratios the TWAP yields, never 0
  Slippages,         \* bound: the max_price_bps a buyer sends
  Staked,            \* bound: the values of config.total_staked
  Deadlines,         \* bound: the <<cutoff_ts, resolve_ts>> the admin picks
  MaxPool,           \* bound: the largest pool
  MaxTime            \* bound: the last value of the clock

Outcomes == {"Yes", "No", "Draw"}
Currencies == {"SOL", "LYNX"}
Statuses == {"Open", "Active", "CutOff", "PendingResolution", "Resolved"}

ASSUME MarketKeysAssumption == Oracle # Nobody /\ IsFiniteSet(Owners)

ASSUME MarketNumbersAssumption ==
  /\ MinOrder \in Nat \ {0}
  /\ MaxOrder \in Nat
  /\ OracleTimeout \in Nat
  /\ DisputeWindow \in Nat \ {0}
  /\ LamportsPerMicroLynx \in Nat \ {0}
  /\ RewardScale \in Nat \ {0}
  /\ Amounts \subseteq Nat
  /\ Ratios \subseteq Nat \ {0}
  /\ Slippages \subseteq Nat
  /\ Staked \subseteq Nat
  /\ Deadlines \subseteq Nat \X Nat
  /\ MaxPool \in Nat
  /\ MaxTime \in Nat

VARIABLES
  now,        \* Clock::unix_timestamp
  market,     \* the Market account, or NoMarket before create_market
  positions,  \* the UserPosition account of each owner and outcome
  vault,      \* lamports or LYNX in the market's vault, above its rent
  treasury,   \* what the market has sent the treasury
  rewards,    \* what the market has sent the stakers' rewards vault
  index,      \* config.reward_per_token_scaled
  winners,    \* what the market has paid winners
  minted      \* micro-LYNX minted for each position

money == <<vault, treasury, rewards, index, winners>>
vars == <<now, market, positions, money, minted>>

NoMarket == [status |-> "None"]
Exists == market.status # "None"

NoPosition == [amount |-> 0, claimed |-> FALSE, lynx_minted |-> FALSE]

IsSol == market.currency = "SOL"

IsOpen == market.status \in {"Open", "Active"}

\* outcome_is_tradeable; result_is_valid is the same test.
OutcomeIsTradeable(outcome) ==
  outcome \in {"Yes", "No"} \/ (market.is_ternary /\ outcome = "Draw")
-----------------------------------------------------------------------------
Init ==
  /\ now = 1
  /\ market = NoMarket
  /\ positions = [p \in Owners \X Outcomes |-> NoPosition]
  /\ vault = 0
  /\ treasury = 0
  /\ rewards = 0
  /\ index = 0
  /\ winners = 0
  /\ minted = [p \in Owners \X Outcomes |-> 0]

Tick ==
  /\ now < MaxTime
  /\ now' = now + 1
  /\ UNCHANGED <<market, positions, money, minted>>

CreateMarket(currency, ternary, cutoff, resolve) ==
  /\ ~Exists
  /\ cutoff > now
  /\ resolve > cutoff
  /\ market' =
       [status |-> "Open", currency |-> currency, is_ternary |-> ternary,
        cutoff_ts |-> cutoff, resolve_ts |-> resolve,
        oracle_deadline |-> resolve + OracleTimeout,
        resolved_ts |-> 0, resolved_by |-> Nobody, result |-> "Unresolved",
        proposed_result |-> "Unresolved", proposed_ts |-> 0,
        pool_total |-> 0, total |-> [o \in Outcomes |-> 0], winning_total |-> 0,
        burned_lynx |-> 0, total_claimed |-> 0, swept |-> FALSE,
        mint_ratio_snapshot_bps |-> 0, mint_ratio_bps |-> 0]
  /\ UNCHANGED <<now, positions, money, minted>>


\* enforce_market_slippage: the implied price is that before the entry.
WithinSlippage(outcome, maxPriceBps) ==
  /\ maxPriceBps \in 1..BPS_DENOMINATOR
  /\ market.pool_total > 0 =>
       MulDiv(market.total[outcome], BPS_DENOMINATOR, market.pool_total) <= maxPriceBps

\* What both purchases require of the market.
MayEnter(outcome, amount, maxPriceBps, paused, currency) ==
  /\ amount \in (MinOrder..MaxOrder) \ {0}
  /\ ~paused
  /\ Exists
  /\ OutcomeIsTradeable(outcome)
  /\ market.currency = currency
  /\ IsOpen
  /\ now < market.cutoff_ts
  /\ WithinSlippage(outcome, maxPriceBps)
  /\ market.pool_total + amount <= MaxPool

\* The pool counts what was burned as well.
Enter_Gross(owner, outcome, amount, burned) ==
  /\ vault' = vault + amount
  /\ market' = [market EXCEPT
       !.status = "Active",
       !.pool_total = @ + amount + burned,
       !.total[outcome] = @ + amount + burned,
       !.burned_lynx = @ + burned]
  /\ positions' = [positions EXCEPT ![<<owner, outcome>>].amount = @ + amount]
  /\ UNCHANGED <<now, treasury, rewards, index, winners, minted>>

\* add_market_amounts and write_position, once the vault has the amount.
Enter(owner, outcome, amount, burned) ==
  /\ vault' = vault + amount
  /\ market' = [market EXCEPT
       !.status = "Active",
       !.pool_total = @ + amount,
       !.total[outcome] = @ + amount,
       !.burned_lynx = @ + burned]
  /\ positions' = [positions EXCEPT ![<<owner, outcome>>].amount = @ + amount]
  /\ UNCHANGED <<now, treasury, rewards, index, winners, minted>>

BuyPositionSol(owner, outcome, lamports, maxPriceBps, paused) ==
  /\ MayEnter(outcome, lamports, maxPriceBps, paused, "SOL")
  /\ Enter(owner, outcome, lamports, 0)

\* 15% of a LYNX entry is burned and only the rest enters the pool.
BuyPositionLynxWithBurn(owner, outcome, amount, maxPriceBps, paused) ==
  /\ MayEnter(outcome, amount, maxPriceBps, paused, "LYNX")
  /\ LET burned == Bps(amount, LYNX_EVENT_BURN_BPS)
     IN  Enter(owner, outcome, amount - burned, burned)
-----------------------------------------------------------------------------
MayCutOff == IsOpen /\ now >= market.cutoff_ts

CutOffMarket ==
  /\ MayCutOff
  /\ market' = [market EXCEPT !.status = "CutOff"]
  /\ UNCHANGED <<now, positions, money, minted>>

FrozenRatio_Forgotten(ratio) == market.mint_ratio_snapshot_bps
FrozenRatio(ratio) == IF IsSol THEN ratio ELSE market.mint_ratio_snapshot_bps

\* The oracle may propose again, which restarts the window.  For a SOL market
\* the ratio of the LYNX emission is frozen here.
ProposeResolution(caller, result, multisigInitialized, ratio) ==
  /\ Exists
  /\ OutcomeIsTradeable(result)
  /\ caller = Oracle
  /\ multisigInitialized
  /\ now >= market.resolve_ts
  /\ market.status \in {"CutOff", "PendingResolution"}
  /\ market' = [market EXCEPT
       !.status = "PendingResolution",
       !.proposed_result = result,
       !.proposed_ts = now,
       !.mint_ratio_snapshot_bps = FrozenRatio(ratio)]
  /\ UNCHANGED <<now, positions, money, minted>>

DisputeResolution(isMultisigSigner) ==
  /\ isMultisigSigner
  /\ market.status = "PendingResolution"
  /\ now < market.proposed_ts + DisputeWindow
  /\ market' = [market EXCEPT
       !.status = "CutOff", !.proposed_result = "Unresolved", !.proposed_ts = 0]
  /\ UNCHANGED <<now, positions, money, minted>>

\* The stakers' part is lost when nobody stakes.
PayEventFees_NoStakers(totalStaked) ==
  LET staker == Bps(market.pool_total, STAKER_REWARD_FEE_BPS)
      event == Bps(market.pool_total, TREASURY_EVENT_FEE_BPS)
  IN  /\ vault >= staker + event
      /\ vault' = vault - staker - event
      /\ rewards' = IF totalStaked > 0 THEN rewards + staker ELSE rewards
      /\ treasury' = treasury + event
      /\ UNCHANGED <<index, winners>>

\* The transfers of finalize_market_and_fees: 5% of a SOL pool to the stakers,
\* or to the treasury when nobody stakes, and 5% to the treasury.
PayEventFees(totalStaked) ==
  LET staker == Bps(market.pool_total, STAKER_REWARD_FEE_BPS)
      event == Bps(market.pool_total, TREASURY_EVENT_FEE_BPS)
      credited == staker > 0 /\ totalStaked > 0
  IN  /\ vault >= staker + event
      /\ vault' = vault - staker - event
      /\ rewards' = IF credited THEN rewards + staker ELSE rewards
      /\ treasury' = treasury + event + (IF credited THEN 0 ELSE staker)
      /\ index' = IF credited THEN index + MulDiv(staker, RewardScale, totalStaked)
                              ELSE index
      /\ UNCHANGED winners

\* finalize_market_and_fees, for a market whose ratio snapshot is snapshot.
FinalizeMarketAndFees(result, resolvedBy, snapshot, totalStaked) ==
  /\ market.is_ternary \/ result # "Draw"
  /\ market.status \in {"CutOff", "Active", "Open", "PendingResolution"}
  /\ IsSol => snapshot > 0
  /\ market' = [market EXCEPT
       !.status = "Resolved",
       !.result = result,
       !.resolved_ts = now,
       !.resolved_by = resolvedBy,
       !.winning_total = market.total[result],
       !.mint_ratio_snapshot_bps = snapshot,
       !.mint_ratio_bps = IF IsSol THEN snapshot ELSE @]
  /\ IF IsSol THEN PayEventFees(totalStaked) ELSE UNCHANGED money
  /\ UNCHANGED <<now, positions, minted>>

WindowElapsed_AtOnce == now >= market.proposed_ts
WindowElapsed == now >= market.proposed_ts + DisputeWindow

FinalizeResolution(totalStaked) ==
  /\ market.status = "PendingResolution"
  /\ WindowElapsed
  /\ FinalizeMarketAndFees(market.proposed_result, Oracle,
                           market.mint_ratio_snapshot_bps, totalStaked)

\* The market half of execute_resolve_market_admin: the governance fallback.
\* A snapshot left by a disputed proposal is kept, not taken again.
ExecuteResolveMarketAdmin(result, ratio, totalStaked, resolvedBy) ==
  /\ Exists
  /\ OutcomeIsTradeable(result)
  /\ now >= market.oracle_deadline
  /\ market.status \in {"CutOff", "Active", "Open"}
  /\ LET taken == market.mint_ratio_snapshot_bps
     IN  FinalizeMarketAndFees(result, resolvedBy,
           IF IsSol /\ taken = 0 THEN ratio ELSE taken, totalStaked)
-----------------------------------------------------------------------------
\* What the winning position p receives; PositionFee is the part of the 10%
\* that a LYNX claim forwards to the treasury.
Payout(p) ==
  MulDiv(PayoutPool(market.pool_total), positions[p].amount, market.winning_total)
PositionFee_Swapped(p) ==
  MulDiv(PayoutPool(market.pool_total) - market.pool_total,
         positions[p].amount, market.winning_total)
PositionFee(p) ==
  MulDiv(market.pool_total - PayoutPool(market.pool_total),
         positions[p].amount, market.winning_total)

\* position_is_winner, for a position account that exists.
PositionIsWinner(p) == positions[p].amount > 0 /\ market.result = p[2]

MayClaim_Again(p, currency) ==
  /\ market.status = "Resolved"
  /\ market.currency = currency
  /\ PositionIsWinner(p)
  /\ market.winning_total > 0

MayClaim(p, currency) ==
  /\ market.status = "Resolved"
  /\ market.currency = currency
  /\ ~positions[p].claimed
  /\ PositionIsWinner(p)
  /\ market.winning_total > 0

ClaimMarketSol(p) ==
  /\ MayClaim(p, "SOL")
  /\ vault >= Payout(p)
  /\ market' = [market EXCEPT !.total_claimed = @ + Payout(p)]
  /\ vault' = vault - Payout(p)
  /\ winners' = winners + Payout(p)
  /\ positions' = [positions EXCEPT ![p].claimed = TRUE]
  /\ UNCHANGED <<now, treasury, rewards, index, minted>>

ClaimMarketLynx(p) ==
  /\ MayClaim(p, "LYNX")
  /\ vault >= Payout(p) + PositionFee(p)
  /\ vault' = vault - Payout(p) - PositionFee(p)
  /\ winners' = winners + Payout(p)
  /\ treasury' = treasury + PositionFee(p)
  /\ positions' = [positions EXCEPT ![p].claimed = TRUE]
  /\ UNCHANGED <<now, market, rewards, index, minted>>

SendToTreasury(amount) ==
  /\ vault >= amount
  /\ vault' = vault - amount
  /\ treasury' = treasury + amount
  /\ market' = [market EXCEPT !.swept = TRUE]
  /\ UNCHANGED <<now, positions, rewards, index, winners, minted>>

SweepUnclaimedMarketSol ==
  /\ market.status = "Resolved"
  /\ IsSol
  /\ ~market.swept
  /\ LET payoutPool == PayoutPool(market.pool_total)
     IN  \/ /\ market.winning_total = 0
            /\ market.pool_total > 0
            /\ SendToTreasury(payoutPool)
         \/ /\ market.winning_total > 0
            /\ market.total_claimed >= payoutPool
            /\ vault > 0
            /\ SendToTreasury(vault)

SweepUnclaimedMarketLynx ==
  /\ market.status = "Resolved"
  /\ ~IsSol
  /\ market.winning_total = 0
  /\ ~market.swept
  /\ market.pool_total > 0
  /\ SendToTreasury(market.pool_total)
-----------------------------------------------------------------------------
\* The LYNX a SOL market emits in all, in micro-LYNX.
TotalEmission ==
  Bps(market.pool_total \div LamportsPerMicroLynx, market.mint_ratio_bps)

PositionEmission_WholeMarket(p) == TotalEmission
PositionEmission(p) == MulDiv(TotalEmission, positions[p].amount, market.pool_total)

\* participant, sale and treasury parts; the treasury takes the rounding dust.
Split(amount) ==
  LET participant == Bps(amount, LYNX_PARTICIPANT_BPS)
      sale == Bps(amount, LYNX_INITIAL_SALE_BPS)
      base == Bps(amount, LYNX_TREASURY_BPS)
  IN  [participant |-> participant, sale |-> sale,
       treasury |-> base + (amount - (participant + base + sale))]

\* Any position, winning or losing, once.
MintLynxDistribution(p) ==
  /\ market.status = "Resolved"
  /\ IsSol
  /\ positions[p].amount > 0
  /\ ~positions[p].lynx_minted
  /\ market.pool_total > 0
  /\ LET split == Split(PositionEmission(p))
     IN  minted' = [minted EXCEPT
           ![p] = @ + split.participant + split.treasury + split.sale]
  /\ positions' = [positions EXCEPT ![p].lynx_minted = TRUE]
  /\ UNCHANGED <<now, market, money>>
-----------------------------------------------------------------------------
Positions == Owners \X Outcomes

\* A step of the market while the TWAP yields one of these ratios.
NextAt(ratios) ==
  \/ Tick
  \/ \E c \in Currencies, t \in BOOLEAN, d \in Deadlines :
       CreateMarket(c, t, d[1], d[2])
  \/ \E u \in Owners, o \in Outcomes, a \in Amounts, q \in Slippages, z \in BOOLEAN :
       BuyPositionSol(u, o, a, q, z)
  \/ \E u \in Owners, o \in Outcomes, a \in Amounts, q \in Slippages, z \in BOOLEAN :
       BuyPositionLynxWithBurn(u, o, a, q, z)
  \/ CutOffMarket
  \/ /\ now + DisputeWindow <= MaxTime  \* bound: the clock outlives the window
     /\ \E k \in Owners \cup {Oracle}, r \in Outcomes, z \in BOOLEAN, ratio \in ratios :
          ProposeResolution(k, r, z, ratio)
  \/ \E z \in BOOLEAN : DisputeResolution(z)
  \/ \E s \in Staked : FinalizeResolution(s)
  \/ \E r \in Outcomes, ratio \in ratios, s \in Staked :
       ExecuteResolveMarketAdmin(r, ratio, s, Nobody)
  \/ \E p \in Positions : ClaimMarketSol(p)
  \/ \E p \in Positions : ClaimMarketLynx(p)
  \/ SweepUnclaimedMarketSol
  \/ SweepUnclaimedMarketLynx
  \/ \E p \in Positions : MintLynxDistribution(p)

Next == NextAt(Ratios)

\* Time passes, and the backend's keeper sends the two permissionless cranks
\* on every cycle (chain.ts, advanceReadyMarkets).  Nobody else has to act.
Fairness ==
  /\ WF_vars(Tick)
  /\ WF_vars(CutOffMarket)
  /\ WF_vars(\E s \in Staked : FinalizeResolution(s))

Spec == Init /\ [][Next]_vars /\ Fairness
-----------------------------------------------------------------------------
Market ==
  [status : Statuses, currency : Currencies, is_ternary : BOOLEAN,
   cutoff_ts : Nat, resolve_ts : Nat, oracle_deadline : Nat,
   resolved_ts : Nat, resolved_by : {Oracle, Nobody},
   result : Outcomes \cup {"Unresolved"},
   proposed_result : Outcomes \cup {"Unresolved"}, proposed_ts : Nat,
   pool_total : Nat, total : [Outcomes -> Nat], winning_total : Nat,
   burned_lynx : Nat, total_claimed : Nat, swept : BOOLEAN,
   mint_ratio_snapshot_bps : Nat, mint_ratio_bps : Nat]

Position == [amount : Nat, claimed : BOOLEAN, lynx_minted : BOOLEAN]

\* Every variable holds a value of the account field or balance it models; no
\* balance is negative.
TypeOK ==
  /\ now \in Nat
  /\ market \in Market \cup {NoMarket}
  /\ positions \in [Positions -> Position]
  /\ vault \in Nat
  /\ treasury \in Nat
  /\ rewards \in Nat
  /\ index \in Nat
  /\ winners \in Nat
  /\ minted \in [Positions -> Nat]

\* The side totals and the pool that price entries and divide payouts are those
\* of the position accounts, which entries, burns and claims write separately.
PoolAccounting ==
  Exists =>
    /\ \A o \in Outcomes :
         market.total[o] = SumFunction([p \in Owners \X {o} |-> positions[p].amount])
    /\ market.pool_total = SumFunction(market.total)

\* Nothing is created or lost: what entered the pool is in the vault or went to
\* winners, to the stakers' vault or to the treasury.
Conservation ==
  vault + winners + rewards + treasury = IF Exists THEN market.pool_total ELSE 0

Unclaimed == {p \in Positions : PositionIsWinner(p) /\ ~positions[p].claimed}
Claimed == {p \in Positions : positions[p].claimed}

\* What a claim of p takes from the vault.
Due(p) == Payout(p) + (IF IsSol THEN 0 ELSE PositionFee(p))

\* Every winner can be paid, in whatever order fees, claims and sweeps happened
\* and whoever claimed before: the vault covers all the claims still open.
Solvency ==
  Exists /\ market.status = "Resolved" /\ market.winning_total > 0 =>
    vault >= SumFunction([p \in Unclaimed |-> Due(p)])

\* A winner is paid the share its entry had in the winning side, once, whenever
\* it claims: what was paid is the sum of those shares over who claimed.
PaidByShare ==
  Exists /\ market.status = "Resolved" =>
    /\ winners = SumFunction([p \in Claimed |-> Payout(p)])
    /\ IsSol => market.total_claimed = winners

\* A market emits no more LYNX than its pool at the frozen ratio, however it is
\* split among positions and mints (the inflation mint_lynx_distribution's
\* comment recalls).
EmissionBounded ==
  Exists /\ market.status = "Resolved" /\ market.pool_total > 0 =>
    SumFunction(minted) <= TotalEmission

\* The state of the optimistic oracle that the market's fields stand for.
Stage ==
  IF market.status = "PendingResolution" THEN "Proposed"
  ELSE IF market.status = "Resolved" THEN "Final" ELSE "Undecided"
Verdict ==
  IF market.status = "PendingResolution" THEN market.proposed_result
  ELSE IF market.status = "Resolved" THEN market.result ELSE "Unresolved"
Age == IF market.status = "PendingResolution" THEN now - market.proposed_ts ELSE 0
Overdue == Exists /\ now >= market.oracle_deadline

Abstract == INSTANCE OptimisticOracle WITH
  Results <- Outcomes, Window <- DisputeWindow,
  stage <- Stage, verdict <- Verdict, age <- Age, overdue <- Overdue

\* The market resolves as an optimistic oracle promises (see that module): only
\* a proposal nobody disputed for the whole window, or the governance after the
\* deadline when no proposal stands, decides it, and nothing changes it after.
ResolvesAsPromised == Abstract!Spec

IsPendingSince(t) == market.status = "PendingResolution" /\ market.proposed_ts = t

\* A proposal never hangs: it is disputed, the oracle replaces it, or the
\* keeper's crank finalizes it; nothing that happens to the vault or to the
\* snapshot can make that revert.
ProposalsSettle == \A t \in 1..MaxTime : IsPendingSince(t) ~> ~IsPendingSince(t)

\* sweep_unclaimed_market_sol's MD-06 comment: once all winners have claimed,
\* total_claimed reaches the payout pool and the rounding dust can be swept.
DustIsSweepable ==
  Exists /\ market.status = "Resolved" /\ IsSol /\ market.winning_total > 0
    /\ Unclaimed = {} /\ vault > 0 =>
      market.total_claimed >= PayoutPool(market.pool_total)
=============================================================================
