-------------------------- MODULE SupplyTwapProofs --------------------------
(***************************************************************************)
(* Proofs about modules Market, Duels and SupplyTwap, for any owners,      *)
(* amounts, deadlines, windows, intervals, supplies and flows, whoever bets*)
(* what on which outcome of the market and however the market resolves.    *)
(*                                                                         *)
(* First the market: the types, that no money appears or vanishes, that the*)
(* resolution is the one module OptimisticOracle promises, that the pool is*)
(* made of the positions, and that it pays every winner by share.          *)
(*                                                                         *)
(* Arithmetic enters through few facts: a quotient of naturals is one, a   *)
(* share of basis points is not above the whole, and the shares of a whole,*)
(* rounded down one by one, do not add up to more than it (SharesFit,      *)
(* module SumProofs). The sums over positions are the invariant Books: the *)
(* totals count the position accounts, a claimed position is a winning one,*)
(* and what was paid, is still due and was minted are sums of shares.      *)
(*                                                                         *)
(* Then the duels: a 1v1 ends with one winner, a duel's vault holds its    *)
(* bets as long as it is on and nothing after, no money is made or lost,   *)
(* and the exposure counted against the cap is that of the duels still on. *)
(* SomebodyWins speaks of duels that are due. It follows from what was so  *)
(* since the duel began: that its type is the market's, that its bets are  *)
(* on different outcomes the market has, and that the market resolves to   *)
(* one of those. That an ended duel's vault is empty rests on the fees and *)
(* the prize of a pot adding up to it, whatever they round to. The money   *)
(* and the exposure are sums over the duels and the purses. Each step      *)
(* changes the value of one duel, or adds one, and the sum changes by as   *)
(* much (SumUpdate and SumInsert, module SumProofs).                       *)
(*                                                                         *)
(* Then the mint ratio: a market's mint ratio is that of the average of the*)
(* latest samples when its resolution was proposed. The ring's slots are   *)
(* those of the latest samples (Ring), the one before next_index the last  *)
(* of them. The average sums the slots from the first on, the window from  *)
(* its oldest sample on, which are the same sum in another order (SumMoved,*)
(* module SumProofs). FrozenInv then ties the ratio of a market to the     *)
(* samples taken before its proposal.                                      *)
(*                                                                         *)
(* Last the protocol: the supply is never negative and every tier's ratio  *)
(* is positive, so each step of it is one that Duels proves its invariant  *)
(* for (AnyDuelsNext: a ratio freely chosen at the proposal), or one that  *)
(* leaves markets and duels alone.                                         *)
(***************************************************************************)
EXTENDS SupplyTwap, SumProofs, SequenceTheorems, TLAPS

-----------------------------------------------------------------------------
(* The market                                                                *)

LEMMA MulDivNat ==
  ASSUME NEW a \in Nat, NEW b \in Nat, NEW c \in Nat \ {0}
  PROVE  MulDiv(a, b, c) \in Nat
<1>1. a * b \in Nat
  OBVIOUS
<1> QED
  BY <1>1 DEF MulDiv

LEMMA BpsNat ==
  ASSUME NEW a \in Nat, NEW k \in Nat
  PROVE  Bps(a, k) \in Nat
BY MulDivNat DEF Bps, BPS_DENOMINATOR

LEMMA BurnAtMostAmount ==
  ASSUME NEW a \in Nat
  PROVE  Bps(a, LYNX_EVENT_BURN_BPS) \in 0..a
BY DEF Bps, MulDiv, BPS_DENOMINATOR, LYNX_EVENT_BURN_BPS

LEMMA PayoutPoolAtMostPool ==
  ASSUME NEW a \in Nat
  PROVE  PayoutPool(a) \in 0..a
BY DEF PayoutPool, Bps, MulDiv, BPS_DENOMINATOR, EVENT_PROTOCOL_FEE_BPS

LEMMA SplitNat ==
  ASSUME NEW a \in Nat
  PROVE  LET s == Split(a)
         IN s.participant \in Nat /\ s.sale \in Nat /\ s.treasury \in Nat
            /\ s.participant + s.treasury + s.sale = a
<1>1. /\ Bps(a, LYNX_PARTICIPANT_BPS) \in Nat /\ Bps(a, LYNX_INITIAL_SALE_BPS) \in Nat
      /\ Bps(a, LYNX_TREASURY_BPS) \in Nat
      /\ Bps(a, LYNX_PARTICIPANT_BPS) + Bps(a, LYNX_TREASURY_BPS)
           + Bps(a, LYNX_INITIAL_SALE_BPS) <= a
  BY DEF Bps, MulDiv, BPS_DENOMINATOR, LYNX_PARTICIPANT_BPS, LYNX_INITIAL_SALE_BPS,
         LYNX_TREASURY_BPS
<1> QED
  BY <1>1 DEF Split
-----------------------------------------------------------------------------
\* What every proof about a step starts from.
LEMMA Typed ==
  ASSUME TypeOK, Exists
  PROVE  /\ market \in Market
         /\ market.status \in Statuses
         /\ market.pool_total \in Nat /\ market.winning_total \in Nat
         /\ market.total \in [Outcomes -> Nat]
BY DEF TypeOK, Exists, NoMarket, Market

\* A standing proposal is one the oracle made, with a result, not in the future.
ProposalStands ==
  market.status = "PendingResolution" =>
    market.proposed_result \in Outcomes /\ market.proposed_ts <= now

IInv == TypeOK /\ Conservation /\ ProposalStands

LEMMA InitHolds == Init => IInv
BY DEF Init, IInv, TypeOK, Conservation, ProposalStands, Exists, NoMarket, NoPosition, Positions, Position

LEMMA TickKeeps ==
  ASSUME IInv, Tick
  PROVE  IInv'
<1>1. TypeOK' /\ Conservation'
  BY DEF IInv, Tick, TypeOK, Conservation, Exists, money
<1>2. now \in Nat /\ now' = now + 1 /\ market' = market /\ ProposalStands
      /\ (market.status = "PendingResolution" => market \in Market)
  BY Typed DEF IInv, Tick, TypeOK, Exists
<1>3. ProposalStands'
  BY <1>2 DEF ProposalStands, Market
<1> QED
  BY <1>1, <1>3 DEF IInv

LEMMA CreateMarketKeeps ==
  ASSUME IInv, NEW c \in Currencies, NEW t \in BOOLEAN, NEW d \in Deadlines,
         CreateMarket(c, t, d[1], d[2])
  PROVE  IInv'
<1>1. TypeOK /\ Conservation
  BY DEF IInv
<1>2. d[1] \in Nat /\ d[2] \in Nat /\ d[2] + OracleTimeout \in Nat
  BY MarketNumbersAssumption
<1>3. market' \in Market /\ market'.pool_total = 0 /\ market'.status = "Open"
  BY <1>2 DEF CreateMarket, Market, Statuses
<1>4. TypeOK'
  BY <1>1, <1>3 DEF TypeOK, CreateMarket, money
<1>5. Conservation'
  BY <1>1, <1>3 DEF Conservation, CreateMarket, money, Exists
<1>6. ProposalStands'
  BY <1>3 DEF ProposalStands
<1> QED
  BY <1>4, <1>5, <1>6 DEF IInv

LEMMA EnterKeeps ==
  ASSUME IInv, Exists, NEW u \in Owners, NEW o \in Outcomes,
         NEW a \in Nat, NEW b \in Nat, Enter(u, o, a, b)
  PROVE  IInv'
<1>1. TypeOK /\ Conservation /\ market \in Market
  BY Typed DEF IInv
<1>2. /\ market.total[o] + a \in Nat /\ market.pool_total + a \in Nat
      /\ market.burned_lynx + b \in Nat
  BY <1>1 DEF Market
<1>3. [market.total EXCEPT ![o] = market.total[o] + a] \in [Outcomes -> Nat]
  BY <1>1, <1>2 DEF Market
<1>4. market' = [market EXCEPT
        !.status = "Active",
        !.pool_total = market.pool_total + a,
        !.total = [market.total EXCEPT ![o] = market.total[o] + a],
        !.burned_lynx = market.burned_lynx + b]
  BY <1>1 DEF Enter, Market
<1>5. /\ market' \in Market
      /\ market'.pool_total = market.pool_total + a /\ market'.status = "Active"
  BY <1>1, <1>2, <1>3, <1>4 DEF Market, Statuses
<1>6. positions' \in [Positions -> Position]
  <2>1. <<u, o>> \in Positions
    BY DEF Positions
  <2>2. positions[<<u, o>>] \in Position
    BY <1>1, <2>1 DEF TypeOK
  <2>3. [positions[<<u, o>>] EXCEPT !.amount = @ + a] \in Position
    BY <2>2 DEF Position
  <2> QED
    BY <1>1, <2>1, <2>3 DEF Enter, TypeOK
<1>7. TypeOK'
  BY <1>1, <1>5, <1>6 DEF TypeOK, Enter
<1>8. Conservation'
  BY <1>1, <1>5 DEF Conservation, TypeOK, Enter, Exists, Market
<1>9. ProposalStands'
  BY <1>5 DEF ProposalStands
<1> QED
  BY <1>7, <1>8, <1>9 DEF IInv

LEMMA BuyPositionsKeep ==
  ASSUME IInv, NEW u \in Owners, NEW o \in Outcomes, NEW a \in Amounts,
         NEW q \in Slippages, NEW z \in BOOLEAN,
         BuyPositionSol(u, o, a, q, z) \/ BuyPositionLynxWithBurn(u, o, a, q, z)
  PROVE  IInv'
<1>1. a \in Nat
  BY MarketNumbersAssumption
<1>2. Exists
  BY DEF BuyPositionSol, BuyPositionLynxWithBurn, MayEnter
<1>3. CASE BuyPositionSol(u, o, a, q, z)
  BY <1>1, <1>2, <1>3, EnterKeeps DEF BuyPositionSol
<1>4. CASE BuyPositionLynxWithBurn(u, o, a, q, z)
  <2>1. Bps(a, LYNX_EVENT_BURN_BPS) \in Nat /\ a - Bps(a, LYNX_EVENT_BURN_BPS) \in Nat
    BY <1>1, BurnAtMostAmount
  <2> QED
    BY <1>2, <1>4, <2>1, EnterKeeps DEF BuyPositionLynxWithBurn
<1> QED
  BY <1>3, <1>4

\* A step that moves the market to another status and no money.
LEMMA StatusChangeKeeps ==
  ASSUME IInv, Exists, UNCHANGED <<now, positions, money, minted>>,
         market' \in Market, market'.pool_total = market.pool_total,
         ProposalStands'
  PROVE  IInv'
<1>1. TypeOK'
  BY DEF IInv, TypeOK, money
<1>2. Conservation'
  BY DEF IInv, Conservation, Exists, Market, Statuses, money
<1> QED
  BY <1>1, <1>2 DEF IInv

LEMMA CutOffMarketKeeps ==
  ASSUME IInv, CutOffMarket
  PROVE  IInv'
<1>1. Exists /\ TypeOK
  BY DEF CutOffMarket, MayCutOff, IsOpen, Exists, IInv
<1>2. market \in Market
  BY <1>1, Typed
<1>3. market' = [market EXCEPT !.status = "CutOff"]
  BY DEF CutOffMarket
<1>4. /\ market' \in Market
      /\ market'.pool_total = market.pool_total /\ market'.status = "CutOff"
  BY <1>2, <1>3 DEF Market, Statuses
<1> QED
  BY <1>1, <1>4, StatusChangeKeeps DEF CutOffMarket, ProposalStands

LEMMA ProposeResolutionKeeps ==
  ASSUME IInv, NEW k, NEW r \in Outcomes, NEW z \in BOOLEAN, NEW ratio \in Nat \ {0},
         ProposeResolution(k, r, z, ratio)
  PROVE  IInv'
<1>1. Exists /\ TypeOK /\ now \in Nat
  BY DEF ProposeResolution, IInv, TypeOK
<1>2. market \in Market
  BY <1>1, Typed
<1>3. FrozenRatio(ratio) \in Nat
  BY <1>2, MarketNumbersAssumption DEF FrozenRatio, Market
<1>4. /\ market' \in Market
      /\ market'.pool_total = market.pool_total
      /\ market'.proposed_result = r /\ market'.proposed_ts = now
  BY <1>1, <1>2, <1>3 DEF ProposeResolution, Market, Statuses
<1>5. ProposalStands'
  BY <1>1, <1>4 DEF ProposalStands, ProposeResolution
<1> QED
  BY <1>1, <1>4, <1>5, StatusChangeKeeps DEF ProposeResolution

LEMMA DisputeResolutionKeeps ==
  ASSUME IInv, NEW z \in BOOLEAN, DisputeResolution(z)
  PROVE  IInv'
<1>1. Exists /\ TypeOK
  BY DEF DisputeResolution, IInv, Exists
<1>2. market \in Market
  BY <1>1, Typed
<1>3. /\ market' \in Market
      /\ market'.pool_total = market.pool_total /\ market'.status = "CutOff"
  BY <1>2 DEF DisputeResolution, Market, Statuses
<1> QED
  BY <1>1, <1>3, StatusChangeKeeps DEF DisputeResolution, ProposalStands

\* Resolving pays exactly what leaves the vault to the stakers and the treasury.
LEMMA FinalizeKeeps ==
  ASSUME IInv, Exists, NEW r \in Outcomes, NEW by \in {Oracle, Nobody},
         NEW snapshot \in Nat, NEW staked \in Nat,
         FinalizeMarketAndFees(r, by, snapshot, staked)
  PROVE  IInv'
<1>1. TypeOK /\ Conservation /\ market \in Market /\ now \in Nat
  BY Typed DEF IInv, TypeOK
<1>2. market.total[r] \in Nat /\ market.mint_ratio_bps \in Nat /\ market.pool_total \in Nat
  BY <1>1 DEF Market
<1>3. /\ market' \in Market
      /\ market'.pool_total = market.pool_total /\ market'.status = "Resolved"
  BY <1>1, <1>2 DEF FinalizeMarketAndFees, Market, Statuses
<1>4. Exists' /\ ProposalStands'
  BY <1>3 DEF ProposalStands, Exists
<1>5. UNCHANGED <<now, positions, minted>>
  BY DEF FinalizeMarketAndFees
<1>6. CASE ~IsSol
  <2>1. UNCHANGED money
    BY <1>6 DEF FinalizeMarketAndFees
  <2> QED
    BY <1>3, <1>4, <1>5, <2>1, StatusChangeKeeps
<1>7. CASE IsSol
  <2> DEFINE staker == Bps(market.pool_total, STAKER_REWARD_FEE_BPS)
             event == Bps(market.pool_total, TREASURY_EVENT_FEE_BPS)
             credited == staker > 0 /\ staked > 0
  <2>1. staker \in Nat /\ event \in Nat
    <3>1. STAKER_REWARD_FEE_BPS \in Nat /\ TREASURY_EVENT_FEE_BPS \in Nat
      BY DEF STAKER_REWARD_FEE_BPS, TREASURY_EVENT_FEE_BPS
    <3> QED
      BY <1>2, <3>1, BpsNat
  <2>2. /\ vault >= staker + event
        /\ vault' = vault - staker - event
        /\ rewards' = IF credited THEN rewards + staker ELSE rewards
        /\ treasury' = treasury + event + (IF credited THEN 0 ELSE staker)
        /\ index' = IF credited THEN index + MulDiv(staker, RewardScale, staked)
                                ELSE index
        /\ winners' = winners
    BY <1>7 DEF FinalizeMarketAndFees, PayEventFees
  <2> HIDE DEF staker, event
  <2>3. vault \in Nat /\ rewards \in Nat /\ treasury \in Nat /\ index \in Nat /\ winners \in Nat
    BY <1>1 DEF TypeOK
  <2>4. index' \in Nat
    <3>1. RewardScale \in Nat
      BY MarketNumbersAssumption
    <3>2. CASE credited
      <4>1. staked \in Nat \ {0}
        BY <3>2
      <4>2. MulDiv(staker, RewardScale, staked) \in Nat
        BY <2>1, <3>1, <4>1, MulDivNat
      <4> QED
        BY <2>2, <2>3, <3>2, <4>2
    <3>3. CASE ~credited
      BY <2>2, <2>3, <3>3
    <3> QED
      BY <3>2, <3>3
  <2>5. vault' \in Nat /\ rewards' \in Nat /\ treasury' \in Nat /\ winners' \in Nat
        /\ vault' + winners' + rewards' + treasury' = vault + winners + rewards + treasury
    BY <2>1, <2>2, <2>3
  <2>6. TypeOK'
    BY <1>1, <1>3, <1>5, <2>4, <2>5 DEF TypeOK
  <2>7. Conservation'
    BY <1>1, <1>3, <1>4, <2>5 DEF Conservation
  <2> QED
    BY <1>4, <2>6, <2>7 DEF IInv
<1> QED
  BY <1>6, <1>7

LEMMA FinalizeResolutionKeeps ==
  ASSUME IInv, NEW s \in Staked, FinalizeResolution(s)
  PROVE  IInv'
<1>1. Exists /\ TypeOK /\ market.proposed_result \in Outcomes /\ s \in Nat
  BY MarketNumbersAssumption DEF FinalizeResolution, IInv, Exists, ProposalStands
<1>2. market.mint_ratio_snapshot_bps \in Nat
  BY <1>1, Typed DEF Market
<1> QED
  BY <1>1, <1>2, FinalizeKeeps DEF FinalizeResolution

LEMMA ExecuteResolveMarketAdminKeeps ==
  ASSUME IInv, NEW r \in Outcomes, NEW ratio \in Nat \ {0}, NEW s \in Staked,
         ExecuteResolveMarketAdmin(r, ratio, s, Nobody)
  PROVE  IInv'
<1> DEFINE earlier == market.mint_ratio_snapshot_bps
           snapshot == IF IsSol /\ earlier = 0 THEN ratio ELSE earlier
<1>1. Exists /\ TypeOK /\ s \in Nat /\ ratio \in Nat
  BY MarketNumbersAssumption DEF ExecuteResolveMarketAdmin, IInv
<1>2. snapshot \in Nat
  BY <1>1, Typed DEF Market
<1>3. FinalizeMarketAndFees(r, Nobody, snapshot, s)
  BY DEF ExecuteResolveMarketAdmin
<1> HIDE DEF snapshot
<1> QED
  BY <1>1, <1>2, <1>3, FinalizeKeeps
-----------------------------------------------------------------------------
LEMMA ClaimShares ==
  ASSUME TypeOK, Exists, NEW p \in Positions, market.winning_total > 0
  PROVE  Payout(p) \in Nat /\ PositionFee(p) \in Nat
<1>1. /\ market.pool_total \in Nat /\ market.winning_total \in Nat \ {0}
      /\ positions[p].amount \in Nat
  BY Typed DEF TypeOK, Position
<1>2. PayoutPool(market.pool_total) \in Nat
      /\ market.pool_total - PayoutPool(market.pool_total) \in Nat
  BY <1>1, PayoutPoolAtMostPool
<1> QED
  BY <1>1, <1>2, MulDivNat DEF Payout, PositionFee

\* Marking a position claimed or minted keeps the position accounts typed.
LEMMA PositionFlags ==
  ASSUME TypeOK, NEW p \in Positions
  PROVE  /\ [positions EXCEPT ![p].claimed = TRUE] \in [Positions -> Position]
         /\ [positions EXCEPT ![p].lynx_minted = TRUE] \in [Positions -> Position]
<1>1. positions[p] \in Position
  BY DEF TypeOK
<1>2. /\ [positions[p] EXCEPT !.claimed = TRUE] \in Position
      /\ [positions[p] EXCEPT !.lynx_minted = TRUE] \in Position
  BY <1>1 DEF Position
<1> QED
  BY <1>2 DEF TypeOK

LEMMA ClaimMarketSolKeeps ==
  ASSUME IInv, NEW p \in Positions, ClaimMarketSol(p)
  PROVE  IInv'
<1>1. Exists /\ TypeOK /\ Conservation /\ market.winning_total > 0
  BY DEF ClaimMarketSol, MayClaim, IInv, Exists
<1>2. Payout(p) \in Nat /\ market \in Market
  BY <1>1, ClaimShares, Typed
<1>3. /\ market' \in Market
      /\ market'.pool_total = market.pool_total /\ market'.status = "Resolved"
  BY <1>2 DEF ClaimMarketSol, MayClaim, Market
<1>4. vault' \in Nat /\ winners' \in Nat /\ vault' + winners' = vault + winners
  BY <1>1, <1>2 DEF ClaimMarketSol, TypeOK
<1>5. TypeOK'
  BY <1>1, <1>3, <1>4, PositionFlags DEF ClaimMarketSol, TypeOK
<1>6. Conservation'
  BY <1>1, <1>3, <1>4 DEF ClaimMarketSol, Conservation, Exists, TypeOK
<1>7. ProposalStands'
  BY <1>3 DEF ProposalStands
<1> QED
  BY <1>5, <1>6, <1>7 DEF IInv

LEMMA ClaimMarketLynxKeeps ==
  ASSUME IInv, NEW p \in Positions, ClaimMarketLynx(p)
  PROVE  IInv'
<1>1. Exists /\ TypeOK /\ Conservation /\ market.winning_total > 0
  BY DEF ClaimMarketLynx, MayClaim, IInv, Exists
<1>2. Payout(p) \in Nat /\ PositionFee(p) \in Nat
  BY <1>1, ClaimShares
<1>3. /\ vault' \in Nat /\ winners' \in Nat /\ treasury' \in Nat
      /\ vault' + winners' + treasury' = vault + winners + treasury
  BY <1>1, <1>2 DEF ClaimMarketLynx, TypeOK
<1>4. TypeOK'
  BY <1>1, <1>3, PositionFlags DEF ClaimMarketLynx, TypeOK
<1>5. Conservation'
  BY <1>1, <1>3 DEF ClaimMarketLynx, Conservation, Exists, TypeOK
<1>6. ProposalStands'
  BY DEF ClaimMarketLynx, ProposalStands, IInv
<1> QED
  BY <1>4, <1>5, <1>6 DEF IInv

LEMMA SendToTreasuryKeeps ==
  ASSUME IInv, Exists, market.status = "Resolved", NEW a \in Nat, SendToTreasury(a)
  PROVE  IInv'
<1>1. TypeOK /\ Conservation /\ market \in Market
  BY Typed DEF IInv
<1>2. /\ market' \in Market
      /\ market'.pool_total = market.pool_total /\ market'.status = "Resolved"
  BY <1>1 DEF SendToTreasury, Market
<1>3. vault' \in Nat /\ treasury' \in Nat /\ vault' + treasury' = vault + treasury
  BY <1>1 DEF SendToTreasury, TypeOK
<1>4. TypeOK'
  BY <1>1, <1>2, <1>3 DEF SendToTreasury, TypeOK
<1>5. Conservation'
  BY <1>1, <1>2, <1>3 DEF SendToTreasury, Conservation, Exists, TypeOK
<1>6. ProposalStands'
  BY <1>2 DEF ProposalStands
<1> QED
  BY <1>4, <1>5, <1>6 DEF IInv

LEMMA SweepsKeep ==
  ASSUME IInv, SweepUnclaimedMarketSol \/ SweepUnclaimedMarketLynx
  PROVE  IInv'
<1>1. Exists /\ TypeOK /\ market.status = "Resolved"
  BY DEF SweepUnclaimedMarketSol, SweepUnclaimedMarketLynx, Exists, IInv
<1>2. market.pool_total \in Nat /\ vault \in Nat
  BY <1>1, Typed DEF TypeOK
<1>3. PayoutPool(market.pool_total) \in Nat
  BY <1>2, PayoutPoolAtMostPool
<1>4. \E a \in Nat : SendToTreasury(a)
  BY <1>2, <1>3 DEF SweepUnclaimedMarketSol, SweepUnclaimedMarketLynx
<1> QED
  BY <1>1, <1>4, SendToTreasuryKeeps

LEMMA PositionEmissionNat ==
  ASSUME TypeOK, Exists, NEW p \in Positions, market.pool_total > 0
  PROVE  PositionEmission(p) \in Nat
<1>1. market \in Market /\ market.pool_total \in Nat \ {0}
  BY Typed
<1>2. market.pool_total \div LamportsPerMicroLynx \in Nat
  BY <1>1, MarketNumbersAssumption
<1>3. market.mint_ratio_bps \in Nat /\ positions[p].amount \in Nat
  BY <1>1 DEF Market, TypeOK, Position
<1>4. TotalEmission \in Nat
  BY <1>2, <1>3, BpsNat DEF TotalEmission
<1> QED
  BY <1>1, <1>3, <1>4, MulDivNat DEF PositionEmission

LEMMA MintLynxDistributionKeeps ==
  ASSUME IInv, NEW p \in Positions, MintLynxDistribution(p)
  PROVE  IInv'
<1>1. Exists /\ TypeOK /\ market \in Market /\ market.pool_total \in Nat \ {0}
  BY Typed DEF MintLynxDistribution, IInv, Exists
<1>2. PositionEmission(p) \in Nat
  BY <1>1, PositionEmissionNat
<1>3. minted' \in [Positions -> Nat]
  <2> DEFINE s == Split(PositionEmission(p))
  <2>1. minted[p] + s.participant + s.treasury + s.sale \in Nat
    BY <1>1, <1>2, SplitNat DEF TypeOK
  <2>2. minted' = [minted EXCEPT ![p] = minted[p] + s.participant + s.treasury + s.sale]
    BY DEF MintLynxDistribution
  <2> HIDE DEF s
  <2> QED
    BY <1>1, <2>1, <2>2 DEF TypeOK
<1>4. positions' \in [Positions -> Position]
  BY <1>1, PositionFlags DEF MintLynxDistribution
<1>5. UNCHANGED <<now, market, money>>
  BY DEF MintLynxDistribution
<1> QED
  BY <1>3, <1>4, <1>5 DEF IInv, TypeOK, Conservation, ProposalStands, Exists, money

\* A step at any ratio at which LYNX may be minted: that of module Market, and
\* that of module SupplyTwap, which takes the ratio from the supply.
AnyNext == NextAt(Nat \ {0})

LEMMA NextAtAny ==
  ASSUME NEW ratios \in SUBSET (Nat \ {0}), [NextAt(ratios)]_vars
  PROVE  [AnyNext]_vars
BY DEF AnyNext, NextAt

LEMMA NextIsAny == [Next]_vars => [AnyNext]_vars
BY NextAtAny, MarketNumbersAssumption DEF Next

LEMMA StepKeeps == IInv /\ [AnyNext]_vars => IInv'
<1> SUFFICES ASSUME IInv, [AnyNext]_vars PROVE IInv'
  OBVIOUS
<1>1. CASE UNCHANGED vars
  BY <1>1 DEF vars, money, IInv, TypeOK, Conservation, ProposalStands, Exists
<1>2. CASE \E z \in BOOLEAN : DisputeResolution(z)
  BY <1>2, DisputeResolutionKeeps
<1>3. CASE \E s \in Staked : FinalizeResolution(s)
  BY <1>3, FinalizeResolutionKeeps
<1>4. CASE \E k \in Owners \cup {Oracle}, r \in Outcomes, z \in BOOLEAN, ratio \in Nat \ {0} :
             ProposeResolution(k, r, z, ratio)
  BY <1>4, ProposeResolutionKeeps
<1>5. CASE \E r \in Outcomes, ratio \in Nat \ {0}, s \in Staked :
             ExecuteResolveMarketAdmin(r, ratio, s, Nobody)
  BY <1>5, ExecuteResolveMarketAdminKeeps
<1> QED
  BY <1>1, <1>2, <1>3, <1>4, <1>5, TickKeeps, CreateMarketKeeps, BuyPositionsKeep,
     CutOffMarketKeeps, ClaimMarketSolKeeps, ClaimMarketLynxKeeps, SweepsKeep,
     MintLynxDistributionKeeps DEF AnyNext, NextAt

THEOREM Invariance == Spec => []IInv
BY InitHolds, StepKeeps, NextIsAny, PTL DEF Spec

\* The accounts hold values of their types and no balance is ever negative.
THEOREM TypeCorrect == Spec => []TypeOK
<1>1. IInv => TypeOK
  BY DEF IInv
<1> QED
  BY <1>1, Invariance, PTL

\* Every lamport or LYNX that entered the pool is in the vault, or was paid to
\* a winner, the stakers or the treasury, whatever the order of claims.
THEOREM MoneyIsConserved == Spec => []Conservation
<1>1. IInv => Conservation
  BY DEF IInv
<1> QED
  BY <1>1, Invariance, PTL
-----------------------------------------------------------------------------
LEMMA InitRefines == Init => Abstract!Init
BY DEF Init, NoMarket, Abstract!Init, Stage, Verdict, Age, Overdue, Exists

\* A step that leaves what the oracle's state stands for as it is.
LEMMA Stutters ==
  ASSUME now' = now, market'.status = market.status,
         Exists => market'.oracle_deadline = market.oracle_deadline,
         market.status = "PendingResolution" =>
           /\ market'.proposed_result = market.proposed_result
           /\ market'.proposed_ts = market.proposed_ts,
         market.status = "Resolved" => market'.result = market.result
  PROVE  UNCHANGED Abstract!vars
BY DEF Abstract!vars, Stage, Verdict, Age, Overdue, Exists

\* Time passes: a standing proposal grows older, a deadline does not unpass.
LEMMA TickRefines ==
  ASSUME IInv, Tick
  PROVE  Abstract!Pass
<1>1. now \in Nat /\ now' = now + 1 /\ market' = market
  BY DEF IInv, TypeOK, Tick
<1>2. Exists => market \in Market
  BY Typed DEF IInv
<1>3. Age' = IF Stage = "Proposed" THEN Age + 1 ELSE Age
  BY <1>1, <1>2 DEF Age, Stage, Exists, Market
<1>4. Overdue => Overdue'
  BY <1>1, <1>2 DEF Overdue, Exists, Market
<1>5. Overdue' \in BOOLEAN
  BY DEF Overdue
<1>6. Stage' = Stage /\ Verdict' = Verdict
  BY <1>1 DEF Stage, Verdict
<1> QED
  BY <1>3, <1>4, <1>5, <1>6 DEF Abstract!Pass

\* A new market's deadline lies ahead, so creating it shows nothing outside.
LEMMA CreateMarketRefines ==
  ASSUME IInv, NEW c \in Currencies, NEW t \in BOOLEAN, NEW d \in Deadlines,
         CreateMarket(c, t, d[1], d[2])
  PROVE  UNCHANGED Abstract!vars
<1>1. /\ market.status = "None" /\ now \in Nat /\ now' = now
      /\ market'.status = "Open" /\ market'.oracle_deadline = d[2] + OracleTimeout
      /\ d[1] > now /\ d[2] > d[1]
  BY DEF CreateMarket, Exists, IInv, TypeOK
<1>2. d[1] \in Nat /\ d[2] \in Nat /\ OracleTimeout \in Nat
  BY MarketNumbersAssumption
<1>3. ~Overdue /\ ~Overdue'
  BY <1>1, <1>2 DEF Overdue, Exists
<1>4. Stage' = Stage /\ Verdict' = Verdict /\ Age' = Age
  BY <1>1 DEF Stage, Verdict, Age
<1>5. Overdue' = Overdue
  BY <1>3 DEF Overdue
<1> QED
  BY <1>4, <1>5 DEF Abstract!vars

LEMMA EnterRefines ==
  ASSUME IInv, IsOpen, Exists, NEW u, NEW o, NEW a, NEW b, Enter(u, o, a, b)
  PROVE  UNCHANGED Abstract!vars
<1>1. market \in Market
  BY Typed DEF IInv
<1>2. /\ now' = now /\ market'.status = "Active"
      /\ market'.oracle_deadline = market.oracle_deadline
  BY <1>1 DEF Enter, Market
<1> QED
  BY <1>2 DEF IsOpen, Abstract!vars, Stage, Verdict, Age, Overdue, Exists

LEMMA CutOffMarketRefines ==
  ASSUME IInv, CutOffMarket
  PROVE  UNCHANGED Abstract!vars
<1>1. IsOpen /\ Exists /\ TypeOK
  BY DEF CutOffMarket, MayCutOff, IsOpen, Exists, IInv
<1>2. market \in Market
  BY <1>1, Typed
<1>3. /\ now' = now /\ market'.status = "CutOff"
      /\ market'.oracle_deadline = market.oracle_deadline
  BY <1>2 DEF CutOffMarket, Market
<1>4. market.status = "Open" \/ market.status = "Active"
  BY <1>1 DEF IsOpen
<1>5. Stage' = Stage /\ Verdict' = Verdict /\ Age' = Age
  BY <1>3, <1>4 DEF Stage, Verdict, Age
<1>6. Overdue' = Overdue
  BY <1>1, <1>3 DEF Overdue, Exists
<1> QED
  BY <1>5, <1>6 DEF Abstract!vars

LEMMA ProposeResolutionRefines ==
  ASSUME IInv, NEW k, NEW r \in Outcomes, NEW z \in BOOLEAN, NEW ratio \in Nat \ {0},
         ProposeResolution(k, r, z, ratio)
  PROVE  Abstract!Propose(r)
<1>1. Exists /\ TypeOK /\ now \in Nat
  BY DEF ProposeResolution, IInv, TypeOK
<1>2. market \in Market
  BY <1>1, Typed
<1>3. /\ now' = now /\ market'.status = "PendingResolution"
      /\ market'.oracle_deadline = market.oracle_deadline
      /\ market'.proposed_result = r /\ market'.proposed_ts = now
  BY <1>2 DEF ProposeResolution, Market
<1>4. Overdue' = Overdue
  BY <1>1, <1>3 DEF Overdue, Exists
<1> QED
  BY <1>1, <1>3, <1>4
     DEF ProposeResolution, Abstract!Propose, Stage, Verdict, Age

LEMMA DisputeResolutionRefines ==
  ASSUME IInv, NEW z \in BOOLEAN, DisputeResolution(z)
  PROVE  Abstract!Object
<1>1. Exists /\ TypeOK /\ now \in Nat /\ market.status = "PendingResolution"
  BY DEF DisputeResolution, IInv, TypeOK, Exists
<1>2. market \in Market
  BY <1>1, Typed
<1>3. /\ now' = now /\ market'.status = "CutOff"
      /\ market'.oracle_deadline = market.oracle_deadline
  BY <1>2 DEF DisputeResolution, Market
<1>4. market.proposed_ts \in Nat /\ now < market.proposed_ts + DisputeWindow
      /\ DisputeWindow \in Nat
  BY <1>2, MarketNumbersAssumption DEF DisputeResolution, Market
<1>5. Age < DisputeWindow
  BY <1>1, <1>4 DEF Age
<1>6. Overdue' = Overdue
  BY <1>1, <1>3 DEF Overdue, Exists
<1> QED
  BY <1>1, <1>3, <1>5, <1>6 DEF Abstract!Object, Stage, Verdict, Age

\* What both resolutions do to the fields the oracle's state reads.
LEMMA FinalizeFields ==
  ASSUME IInv, Exists, NEW r, NEW by, NEW snapshot, NEW staked,
         FinalizeMarketAndFees(r, by, snapshot, staked)
  PROVE  /\ now' = now /\ market'.status = "Resolved" /\ market'.result = r
         /\ market'.oracle_deadline = market.oracle_deadline
<1>1. market \in Market
  BY Typed DEF IInv
<1> QED
  BY <1>1 DEF FinalizeMarketAndFees, Market

LEMMA FinalizeResolutionRefines ==
  ASSUME IInv, NEW s \in Staked, FinalizeResolution(s)
  PROVE  Abstract!Confirm
<1>1. Exists /\ TypeOK /\ now \in Nat /\ market.status = "PendingResolution"
  BY DEF FinalizeResolution, IInv, TypeOK, Exists
<1>2. market \in Market
  BY <1>1, Typed
<1>3. /\ now' = now /\ market'.status = "Resolved"
      /\ market'.result = market.proposed_result
      /\ market'.oracle_deadline = market.oracle_deadline
  BY <1>1, FinalizeFields DEF FinalizeResolution
<1>4. market.proposed_ts \in Nat /\ now >= market.proposed_ts + DisputeWindow
      /\ DisputeWindow \in Nat
  BY <1>2, MarketNumbersAssumption DEF FinalizeResolution, WindowElapsed, Market
<1>5. Age >= DisputeWindow
  BY <1>1, <1>4 DEF Age
<1>6. Overdue' = Overdue
  BY <1>1, <1>3 DEF Overdue, Exists
<1> QED
  BY <1>1, <1>3, <1>5, <1>6 DEF Abstract!Confirm, Stage, Verdict, Age

LEMMA ExecuteResolveMarketAdminRefines ==
  ASSUME IInv, NEW r \in Outcomes, NEW ratio \in Nat \ {0}, NEW s \in Staked,
         ExecuteResolveMarketAdmin(r, ratio, s, Nobody)
  PROVE  Abstract!Fallback(r)
<1>1. Exists /\ market.status \in {"CutOff", "Active", "Open"}
      /\ now >= market.oracle_deadline
  BY DEF ExecuteResolveMarketAdmin
<1>2. /\ now' = now /\ market'.status = "Resolved" /\ market'.result = r
      /\ market'.oracle_deadline = market.oracle_deadline
  BY <1>1, FinalizeFields DEF ExecuteResolveMarketAdmin
<1>3. Overdue /\ Overdue' = Overdue
  BY <1>1, <1>2 DEF Overdue, Exists
<1> QED
  BY <1>1, <1>2, <1>3 DEF Abstract!Fallback, Stage, Verdict, Age

\* After the resolution the account only records claims and the sweep.
LEMMA SettlementRefines ==
  ASSUME IInv,
         \/ \E p \in Positions : ClaimMarketSol(p)
         \/ \E p \in Positions : ClaimMarketLynx(p)
         \/ SweepUnclaimedMarketSol \/ SweepUnclaimedMarketLynx
         \/ \E p \in Positions : MintLynxDistribution(p)
  PROVE  UNCHANGED Abstract!vars
<1>1. market.status = "Resolved" /\ Exists /\ now' = now
  BY DEF ClaimMarketSol, ClaimMarketLynx, MayClaim, SweepUnclaimedMarketSol,
         SweepUnclaimedMarketLynx, SendToTreasury, MintLynxDistribution, Exists
<1>2. market \in Market
  BY <1>1, Typed DEF IInv
<1>3. /\ market'.status = market.status /\ market'.result = market.result
      /\ market'.oracle_deadline = market.oracle_deadline
  BY <1>2 DEF ClaimMarketSol, ClaimMarketLynx, SweepUnclaimedMarketSol,
              SweepUnclaimedMarketLynx, SendToTreasury, MintLynxDistribution, Market
<1> QED
  BY <1>1, <1>3, Stutters

LEMMA StepRefines == IInv /\ [AnyNext]_vars => [Abstract!Next]_(Abstract!vars)
<1> SUFFICES ASSUME IInv, [AnyNext]_vars PROVE [Abstract!Next]_(Abstract!vars)
  OBVIOUS
<1>1. CASE Tick
  BY <1>1, TickRefines DEF Abstract!Next
<1>2. CASE \E c \in Currencies, t \in BOOLEAN, d \in Deadlines :
             CreateMarket(c, t, d[1], d[2])
  BY <1>2, CreateMarketRefines
<1>3. ASSUME NEW u \in Owners, NEW o \in Outcomes, NEW a \in Amounts,
             NEW q \in Slippages, NEW z \in BOOLEAN,
             BuyPositionSol(u, o, a, q, z) \/ BuyPositionLynxWithBurn(u, o, a, q, z)
      PROVE  UNCHANGED Abstract!vars
  BY <1>3, EnterRefines DEF BuyPositionSol, BuyPositionLynxWithBurn, MayEnter
<1>4. CASE CutOffMarket
  BY <1>4, CutOffMarketRefines
<1>5. CASE \E k \in Owners \cup {Oracle}, r \in Outcomes, z \in BOOLEAN, ratio \in Nat \ {0} :
             ProposeResolution(k, r, z, ratio)
  <2>1. \E r \in Outcomes : Abstract!Propose(r)
    BY <1>5, ProposeResolutionRefines
  <2> QED
    BY <2>1 DEF Abstract!Next
<1>6. CASE \E z \in BOOLEAN : DisputeResolution(z)
  BY <1>6, DisputeResolutionRefines DEF Abstract!Next
<1>7. CASE \E s \in Staked : FinalizeResolution(s)
  BY <1>7, FinalizeResolutionRefines DEF Abstract!Next
<1>8. CASE \E r \in Outcomes, ratio \in Nat \ {0}, s \in Staked :
             ExecuteResolveMarketAdmin(r, ratio, s, Nobody)
  <2>1. \E r \in Outcomes : Abstract!Fallback(r)
    BY <1>8, ExecuteResolveMarketAdminRefines
  <2> QED
    BY <2>1 DEF Abstract!Next
<1>9. CASE UNCHANGED vars
  BY <1>9 DEF vars, Abstract!vars, Stage, Verdict, Age, Overdue, Exists
<1> QED
  BY <1>1, <1>2, <1>3, <1>4, <1>5, <1>6, <1>7, <1>8, <1>9, SettlementRefines DEF AnyNext, NextAt

\* The market's instructions implement the optimistic oracle, for every window
\* and timeout: the initial state maps to its initial state, and every step of
\* an instruction or the clock to one of its steps or to none.
THEOREM MarketImplementsOracle == Spec => ResolvesAsPromised
<1>1. Init => Abstract!Init
  BY InitRefines
<1>2. IInv /\ [AnyNext]_vars => [Abstract!Next]_(Abstract!vars)
  BY StepRefines
<1> QED
  BY <1>1, <1>2, NextIsAny, Invariance, PTL DEF Spec, ResolvesAsPromised, Abstract!Spec
-----------------------------------------------------------------------------
\* The amounts of the positions, and the positions on one outcome.
Amount == [p \in Positions |-> positions[p].amount]
Side(o) == Owners \X {o}

\* The totals count the position accounts, by side and altogether.
SidesCounted ==
  Exists =>
    /\ \A o \in Outcomes : market.total[o] = SumFunctionOnSet(Amount, Side(o))
    /\ market.pool_total = SumFunctionOnSet(Amount, Positions)
    /\ market.pool_total = SumFunction(market.total)

\* Nothing is paid, claimed or minted before the resolution.
Untouched ==
  /\ ~Exists => \A p \in Positions : positions[p].amount = 0
  /\ market.status # "Resolved" =>
       /\ winners = 0 /\ rewards = 0 /\ treasury = 0
       /\ Exists => market.total_claimed = 0
       /\ \A p \in Positions :
            ~positions[p].claimed /\ ~positions[p].lynx_minted /\ minted[p] = 0

\* The winning total is that of the winning side, and only that side claims.
WinningSide ==
  market.status = "Resolved" =>
    /\ market.result \in Outcomes /\ market.winning_total = market.total[market.result]
    /\ \A p \in Claimed : PositionIsWinner(p) /\ market.winning_total > 0

\* A position was minted its part of the emission, once, or nothing.
MintedByShare ==
  market.status = "Resolved" => \A p \in Positions :
    minted[p] = IF positions[p].lynx_minted THEN PositionEmission(p) ELSE 0

Books ==
  SidesCounted /\ Untouched /\ WinningSide /\ MintedByShare /\ PaidByShare /\ Solvency

LEMMA FinitelyManyPositions ==
  /\ IsFiniteSet(Positions) /\ IsFiniteSet(Outcomes)
  /\ \A o \in Outcomes : Side(o) \subseteq Positions
  /\ \A S \in SUBSET Positions : IsFiniteSet(S)
<1>1. IsFiniteSet({"Yes"} \cup {"No"} \cup {"Draw"})
  BY FS_Singleton, FS_Union
<1>2. Outcomes = {"Yes"} \cup {"No"} \cup {"Draw"}
  BY DEF Outcomes
<1>3. IsFiniteSet(Outcomes)
  BY <1>1, <1>2, Zenon
<1>4. IsFiniteSet(Positions)
  BY <1>3, ProductFinite, MarketKeysAssumption DEF Positions
<1> QED
  BY <1>3, <1>4, FS_Subset DEF Positions, Side

LEMMA AmountsNat ==
  ASSUME TypeOK
  PROVE  Amount \in [Positions -> Nat]
BY DEF TypeOK, Amount, Position

\* The side totals as PoolAccounting words them.
LEMMA AccountingFollows == Books => PoolAccounting
<1> SUFFICES ASSUME Books, Exists, NEW o \in Outcomes
             PROVE  market.total[o] = SumFunction([p \in Owners \X {o} |-> positions[p].amount])
  BY DEF PoolAccounting, Books, SidesCounted
<1> DEFINE side == [p \in Owners \X {o} |-> positions[p].amount]
<1>1. market.total[o] = SumFunctionOnSet(Amount, Side(o)) /\ IsFiniteSet(Side(o))
  BY FinitelyManyPositions DEF Books, SidesCounted
<1>2. \A p \in Side(o) : Amount[p] = side[p]
  BY DEF Side, Amount, Positions
<1>3. SumFunctionOnSet(Amount, Side(o)) = SumFunctionOnSet(side, Side(o))
  <2> HIDE DEF side
  <2> QED
    BY <1>1, <1>2, SumSame
<1>4. SumFunction(side) = SumFunctionOnSet(side, Side(o))
  BY DEF SumFunction, Side
<1> QED
  BY <1>1, <1>3, <1>4

\* The LYNX minted is at most the emission, which the pool bounds.
LEMMA EmissionFollows == TypeOK /\ Books => EmissionBounded
<1> SUFFICES ASSUME TypeOK, Books, Exists, market.status = "Resolved", market.pool_total > 0
             PROVE  SumFunction(minted) <= TotalEmission
  BY DEF EmissionBounded
<1>1. /\ market.pool_total \in Nat \ {0} /\ TotalEmission \in Nat
      /\ Amount \in [Positions -> Nat] /\ minted \in [Positions -> Nat]
  <2>1. market \in Market /\ market.pool_total \in Nat /\ market.mint_ratio_bps \in Nat
    BY Typed DEF Market
  <2>2. market.pool_total \div LamportsPerMicroLynx \in Nat
    BY <2>1, MarketNumbersAssumption
  <2>3. TotalEmission \in Nat
    BY <2>1, <2>2, BpsNat DEF TotalEmission
  <2> QED
    BY <2>1, <2>3, AmountsNat DEF TypeOK
<1>2. SumFunctionOnSet(Amount, Positions) <= market.pool_total
  BY <1>1 DEF Books, SidesCounted
<1>3. ASSUME NEW p \in Positions
      PROVE  /\ Amount[p] \in Nat /\ minted[p] \in Nat
             /\ market.pool_total * minted[p] <= TotalEmission * Amount[p]
  <2>1. Amount[p] \in Nat /\ minted[p] \in Nat /\ TotalEmission * Amount[p] \in Nat
    BY <1>1
  <2>2. minted[p] = IF positions[p].lynx_minted THEN PositionEmission(p) ELSE 0
    BY DEF Books, MintedByShare
  <2>3. PositionEmission(p) = (TotalEmission * Amount[p]) \div market.pool_total
    BY DEF PositionEmission, MulDiv, Amount
  <2>4. market.pool_total * PositionEmission(p) <= TotalEmission * Amount[p]
    BY <1>1, <2>1, <2>3, QuotientFits
  <2>5. market.pool_total * 0 = 0
    BY <1>1
  <2> QED
    BY <2>1, <2>2, <2>4, <2>5
<1>4. SumFunctionOnSet(minted, Positions) <= TotalEmission
  <2> HIDE DEF TotalEmission, Amount
  <2> QED
    BY <1>1, <1>2, <1>3, FinitelyManyPositions, SharesFit
<1> QED
  BY <1>1, <1>4 DEF SumFunction
-----------------------------------------------------------------------------
\* What a resolved market owes: the pool less the fees that left it, or in LYNX
\* the pool, whose fees leave it with each claim.
Promised == IF IsSol THEN PayoutPool(market.pool_total) ELSE market.pool_total

PayoutOf == [p \in Positions |-> Payout(p)]
DueOf == [p \in Positions |-> Due(p)]

LEMMA SharesTyped ==
  ASSUME TypeOK, Exists, market.winning_total > 0
  PROVE  /\ market.pool_total \in Nat /\ market.winning_total \in Nat \ {0}
         /\ PayoutPool(market.pool_total) \in 0..market.pool_total
         /\ Promised \in Nat
         /\ Amount \in [Positions -> Nat]
         /\ PayoutOf \in [Positions -> Nat] /\ DueOf \in [Positions -> Nat]
         /\ \A p \in Positions :
              /\ PayoutOf[p] = Payout(p) /\ DueOf[p] = Due(p) /\ Payout(p) \in Nat
              /\ PositionFee(p) \in Nat
<1>1. /\ market.pool_total \in Nat /\ market.winning_total \in Nat \ {0}
  BY Typed
<1>2. PayoutPool(market.pool_total) \in 0..market.pool_total
  BY <1>1, PayoutPoolAtMostPool
<1>3. ASSUME NEW p \in Positions PROVE Payout(p) \in Nat /\ PositionFee(p) \in Nat
  BY <1>3, ClaimShares
<1>4. ASSUME NEW p \in Positions PROVE Due(p) \in Nat
  BY <1>3 DEF Due
<1>5. Promised \in Nat
  BY <1>1, <1>2 DEF Promised
<1> QED
  BY <1>1, <1>2, <1>3, <1>4, <1>5, AmountsNat DEF PayoutOf, DueOf

\* The shares of a winning side are at most what the pool promises it, however
\* the quotients round: payouts within the payout pool, payouts and fees within
\* what was promised.
LEMMA SideFits ==
  ASSUME TypeOK, Exists, market.winning_total > 0, NEW o,
         Side(o) \subseteq Positions,
         SumFunctionOnSet(Amount, Side(o)) = market.winning_total
  PROVE  /\ SumFunctionOnSet(PayoutOf, Side(o)) <= PayoutPool(market.pool_total)
         /\ SumFunctionOnSet(DueOf, Side(o)) <= Promised
<1> DEFINE pool == market.pool_total
           pays == PayoutPool(market.pool_total)
           fees == pool - pays
           total == market.winning_total
<1>1. /\ pays \in Nat /\ fees \in Nat /\ pool \in Nat /\ total \in Nat \ {0} /\ pool = pays + fees
  BY SharesTyped
<1>2. ASSUME NEW p \in Side(o)
      PROVE  /\ Amount[p] \in Nat /\ Payout(p) \in Nat /\ PositionFee(p) \in Nat
             /\ PayoutOf[p] = Payout(p) /\ DueOf[p] = Due(p)
             /\ total * Payout(p) <= pays * Amount[p]
             /\ total * PositionFee(p) <= fees * Amount[p]
  <2>1. /\ Amount[p] \in Nat /\ Payout(p) \in Nat /\ PositionFee(p) \in Nat
        /\ PayoutOf[p] = Payout(p) /\ DueOf[p] = Due(p)
    BY SharesTyped
  <2>2. /\ Payout(p) = (pays * Amount[p]) \div total
        /\ PositionFee(p) = (fees * Amount[p]) \div total
    BY DEF Payout, PositionFee, MulDiv, Amount
  <2> HIDE DEF pays, fees, total
  <2> QED
    BY <1>1, <2>1, <2>2, QuotientFits
<1>3. IsFiniteSet(Side(o)) /\ SumFunctionOnSet(Amount, Side(o)) <= total
  BY <1>1, FinitelyManyPositions
<1>4. SumFunctionOnSet(PayoutOf, Side(o)) <= pays
  <2> HIDE DEF pays, fees, total
  <2>1. \A p \in Side(o) : /\ Amount[p] \in Nat /\ PayoutOf[p] \in Nat
                           /\ total * PayoutOf[p] <= pays * Amount[p]
    BY <1>2
  <2> QED
    BY <1>1, <1>3, <2>1, SharesFit
<1>5. SumFunctionOnSet(DueOf, Side(o)) <= Promised
  <2>1. CASE IsSol
    <3>1. \A p \in Side(o) : DueOf[p] = PayoutOf[p]
      BY <1>2, <2>1 DEF Due
    <3>2. SumFunctionOnSet(DueOf, Side(o)) = SumFunctionOnSet(PayoutOf, Side(o))
      BY <1>3, <3>1, SumSame
    <3> QED
      BY <1>4, <2>1, <3>2 DEF Promised
  <2>2. CASE ~IsSol
    <3>1. ASSUME NEW p \in Side(o)
          PROVE  /\ Amount[p] \in Nat /\ DueOf[p] \in Nat
                 /\ total * DueOf[p] <= pool * Amount[p]
      <4>1. DueOf[p] = Payout(p) + PositionFee(p)
        BY <1>2, <2>2 DEF Due
      <4>2. ASSUME NEW x \in Nat, NEW y \in Nat, NEW a \in Nat,
                   total * x <= pays * a, total * y <= fees * a
            PROVE  total * (x + y) <= pool * a
        <5> HIDE DEF pays, fees, total, pool
        <5>1. total * (x + y) = total * x + total * y /\ pool * a = pays * a + fees * a
          BY <1>1
        <5>2. total * x \in Nat /\ total * y \in Nat /\ pays * a \in Nat /\ fees * a \in Nat
          BY <1>1
        <5> QED
          BY <4>2, <5>1, <5>2
      <4> HIDE DEF pays, fees, total, pool
      <4> QED
        BY <1>2, <4>1, <4>2
    <3>2. SumFunctionOnSet(DueOf, Side(o)) <= pool
      <4> HIDE DEF pool, total
      <4> QED
        BY <1>1, <1>3, <3>1, SharesFit
    <3> QED
      BY <2>2, <3>2 DEF Promised
  <2> QED
    BY <2>1, <2>2
<1> QED
  BY <1>4, <1>5

\* The positions that claimed, or still may, are on the winning side.
LEMMA ClaimsAreOnTheSide ==
  ASSUME TypeOK, SidesCounted, WinningSide, market.status = "Resolved"
  PROVE  /\ Claimed \cup Unclaimed \subseteq Side(market.result)
         /\ Claimed \cap Unclaimed = {}
         /\ IsFiniteSet(Claimed) /\ IsFiniteSet(Unclaimed)
         /\ SumFunctionOnSet(Amount, Side(market.result)) = market.winning_total
<1>1. Claimed \cup Unclaimed \subseteq Side(market.result)
  BY DEF WinningSide, PositionIsWinner, Claimed, Unclaimed, Positions, Side
<1>2. Claimed \in SUBSET Positions /\ Unclaimed \in SUBSET Positions
      /\ Claimed \cap Unclaimed = {}
  BY DEF Claimed, Unclaimed
<1>3. Exists
  BY DEF Exists
<1> QED
  BY <1>1, <1>2, <1>3, FinitelyManyPositions DEF WinningSide, SidesCounted

\* Solvency and PaidByShare in terms of the two functions over all positions.
LEMMA ClaimSums ==
  /\ SumFunction([p \in Unclaimed |-> Due(p)]) = SumFunctionOnSet(DueOf, Unclaimed)
  /\ SumFunction([p \in Claimed |-> Payout(p)]) = SumFunctionOnSet(PayoutOf, Claimed)
<1> DEFINE due == [p \in Unclaimed |-> Due(p)]
           payout == [p \in Claimed |-> Payout(p)]
<1>1. /\ IsFiniteSet(Claimed) /\ IsFiniteSet(Unclaimed)
      /\ DOMAIN due = Unclaimed /\ DOMAIN payout = Claimed
  BY FinitelyManyPositions DEF Claimed, Unclaimed
<1>2. /\ \A p \in Unclaimed : due[p] = DueOf[p]
      /\ \A p \in Claimed : payout[p] = PayoutOf[p]
  BY DEF Claimed, Unclaimed, DueOf, PayoutOf
<1> HIDE DEF due, payout
<1>3. /\ SumFunctionOnSet(due, Unclaimed) = SumFunctionOnSet(DueOf, Unclaimed)
      /\ SumFunctionOnSet(payout, Claimed) = SumFunctionOnSet(PayoutOf, Claimed)
  BY <1>1, <1>2, SumSame
<1>4. /\ SumFunction(due) = SumFunctionOnSet(DueOf, Unclaimed)
      /\ SumFunction(payout) = SumFunctionOnSet(PayoutOf, Claimed)
  BY <1>1, <1>3 DEF SumFunction
<1> QED
  BY <1>4 DEF due, payout

-----------------------------------------------------------------------------
LEMMA InitBooks == Init => Books
BY DEF Init, Books, SidesCounted, Untouched, WinningSide, MintedByShare, PaidByShare, Solvency, Exists, NoMarket, NoPosition, Positions

\* A step outside the money of a market that is not resolved by it.
LEMMA UnresolvedBooks ==
  ASSUME Books, UNCHANGED <<positions, money, minted>>,
         market.status # "Resolved", market'.status # "Resolved", Exists, Exists',
         market'.total = market.total, market'.pool_total = market.pool_total,
         market'.total_claimed = market.total_claimed
  PROVE  Books'
<1>1. SidesCounted'
  <2>1. Amount' = Amount
    BY DEF Amount
  <2> QED
    BY <2>1 DEF Books, SidesCounted
<1>2. Untouched'
  BY DEF Books, Untouched, money
<1>3. WinningSide' /\ MintedByShare' /\ PaidByShare' /\ Solvency'
  BY DEF WinningSide, MintedByShare, PaidByShare, Solvency
<1> QED
  BY <1>1, <1>2, <1>3 DEF Books

LEMMA SameBooks ==
  ASSUME Books, UNCHANGED <<market, positions, money, minted>>
  PROVE  Books'
BY DEF Books, SidesCounted, Amount, Untouched, WinningSide, MintedByShare, PaidByShare, Solvency,
   Exists, Claimed, Unclaimed, Payout, Due, PositionFee, PositionEmission, TotalEmission,
   PositionIsWinner, IsSol, money

LEMMA CreateMarketBooks ==
  ASSUME IInv, Books, NEW c \in Currencies, NEW t \in BOOLEAN, NEW d \in Deadlines,
         CreateMarket(c, t, d[1], d[2])
  PROVE  Books'
<1>1. /\ TypeOK /\ ~Exists /\ market.status # "Resolved"
      /\ UNCHANGED <<positions, money, minted>>
      /\ market'.status = "Open" /\ market'.pool_total = 0 /\ market'.total_claimed = 0
      /\ market'.total = [o \in Outcomes |-> 0]
  BY DEF CreateMarket, IInv, Exists
<1>2. Amount' = Amount /\ \A p \in Positions : Amount[p] = 0
  BY <1>1 DEF Amount, Books, Untouched
<1>3. SumFunctionOnSet(Amount, Positions) = 0
      /\ \A o \in Outcomes : SumFunctionOnSet(Amount, Side(o)) = 0
  <2>1. \A S \in SUBSET Positions : SumFunctionOnSet(Amount, S) = 0
    BY <1>2, FinitelyManyPositions, SumZero
  <2> QED
    BY <2>1, FinitelyManyPositions
<1>4. SumFunction(market'.total) = 0
  <2>1. DOMAIN market'.total = Outcomes /\ \A o \in Outcomes : market'.total[o] = 0
    BY <1>1
  <2> QED
    BY <2>1, FinitelyManyPositions, SumZero DEF SumFunction
<1>5. SidesCounted'
  BY <1>1, <1>2, <1>3, <1>4 DEF SidesCounted
<1>6. Untouched'
  BY <1>1 DEF Books, Untouched, money
<1>7. WinningSide' /\ MintedByShare' /\ PaidByShare' /\ Solvency'
  BY <1>1 DEF WinningSide, MintedByShare, PaidByShare, Solvency
<1> QED
  BY <1>5, <1>6, <1>7 DEF Books

LEMMA EnterBooks ==
  ASSUME IInv, Books, Exists, IsOpen, NEW u \in Owners, NEW o \in Outcomes,
         NEW a \in Nat, NEW b \in Nat, Enter(u, o, a, b)
  PROVE  Books'
<1> DEFINE p0 == <<u, o>>
<1>1. /\ TypeOK /\ market \in Market /\ market.status # "Resolved"
      /\ p0 \in Positions /\ p0 \in Side(o)
  BY Typed DEF IInv, IsOpen, Positions, Side
<1>2. /\ market'.status = "Active" /\ market'.pool_total = market.pool_total + a
      /\ market'.total = [market.total EXCEPT ![o] = market.total[o] + a]
      /\ market'.total_claimed = market.total_claimed
      /\ market.total \in [Outcomes -> Nat] /\ market.pool_total \in Nat
  BY <1>1 DEF Enter, Market
<1>3. /\ positions' = [positions EXCEPT ![p0].amount = positions[p0].amount + a]
      /\ UNCHANGED <<treasury, rewards, index, winners, minted>>
  BY DEF Enter
<1>4. positions[p0] \in Position /\ positions \in [Positions -> Position]
  BY <1>1 DEF TypeOK
<1>5. \A p \in Positions : /\ positions'[p].claimed = positions[p].claimed
                           /\ positions'[p].lynx_minted = positions[p].lynx_minted
                           /\ p # p0 => positions'[p].amount = positions[p].amount
  BY <1>3, <1>4 DEF Position
<1>6. /\ Amount \in [Positions -> Nat] /\ Amount' \in [Positions -> Nat]
      /\ Amount'[p0] = Amount[p0] + a
      /\ \A p \in Positions \ {p0} : Amount'[p] = Amount[p]
  <2>1. positions'[p0].amount = positions[p0].amount + a
    BY <1>1, <1>3, <1>4 DEF Position
  <2>2. positions[p0].amount \in Nat
    BY <1>4 DEF Position
  <2>3. Amount \in [Positions -> Nat]
    BY <1>1, AmountsNat
  <2>4. /\ Amount'[p0] = Amount[p0] + a
        /\ \A p \in Positions \ {p0} : Amount'[p] = Amount[p]
    BY <1>1, <1>5, <2>1 DEF Amount
  <2>5. \A p \in Positions : Amount'[p] \in Nat
    BY <2>3, <2>4
  <2>6. Amount' \in [Positions -> Nat]
    BY <2>5 DEF Amount
  <2> QED
    BY <2>3, <2>4, <2>6
<1> HIDE DEF p0
<1>7. ASSUME NEW S \in SUBSET Positions, p0 \in S
      PROVE  SumFunctionOnSet(Amount', S) = SumFunctionOnSet(Amount, S) + a
  <2>1. IsFiniteSet(S) /\ (\A p \in S : Amount[p] \in Int /\ Amount'[p] \in Int)
        /\ (\A p \in S \ {p0} : Amount[p] = Amount'[p])
    BY <1>6, FinitelyManyPositions
  <2>2. SumFunctionOnSet(Amount', S) = SumFunctionOnSet(Amount, S) - Amount[p0] + Amount'[p0]
    BY <1>7, <2>1, SumUpdate
  <2>3. SumFunctionOnSet(Amount, S) \in Int /\ Amount[p0] \in Int
    BY <1>7, <2>1, SumInt
  <2> QED
    BY <1>6, <2>2, <2>3
<1>8. ASSUME NEW q \in Outcomes, q # o
      PROVE  SumFunctionOnSet(Amount', Side(q)) = SumFunctionOnSet(Amount, Side(q))
  <2>1. IsFiniteSet(Side(q)) /\ Side(q) \subseteq Positions /\ p0 \notin Side(q)
    BY <1>8, FinitelyManyPositions DEF Side, p0
  <2> QED
    BY <1>6, <2>1, SumSame
<1>9. SumFunction(market'.total) = SumFunction(market.total) + a
  <2> DEFINE f == market.total
             g == market'.total
  <2>1. /\ f \in [Outcomes -> Nat] /\ g \in [Outcomes -> Nat] /\ g[o] = f[o] + a
        /\ \A q \in Outcomes \ {o} : f[q] = g[q]
    BY <1>2
  <2>2. /\ SumFunction(f) = SumFunctionOnSet(f, Outcomes)
        /\ SumFunction(g) = SumFunctionOnSet(g, Outcomes)
    BY <2>1 DEF SumFunction
  <2> HIDE DEF f, g
  <2>3. SumFunctionOnSet(g, Outcomes) = SumFunctionOnSet(f, Outcomes) - f[o] + g[o]
    BY <2>1, FinitelyManyPositions, SumUpdate
  <2>4. SumFunctionOnSet(f, Outcomes) \in Int /\ f[o] \in Int
    BY <2>1, FinitelyManyPositions, SumInt
  <2>5. SumFunction(g) = SumFunction(f) + a
    BY <2>1, <2>2, <2>3, <2>4
  <2> QED
    BY <2>5 DEF f, g
<1>10. SidesCounted'
  <2>1. \A q \in Outcomes : market'.total[q] = SumFunctionOnSet(Amount', Side(q))
    BY <1>1, <1>2, <1>7, <1>8, FinitelyManyPositions DEF Books, SidesCounted
  <2>2. market'.pool_total = SumFunctionOnSet(Amount', Positions)
    BY <1>1, <1>2, <1>7 DEF Books, SidesCounted
  <2>3. market'.pool_total = SumFunction(market'.total)
    BY <1>2, <1>9 DEF Books, SidesCounted
  <2> QED
    BY <2>1, <2>2, <2>3 DEF SidesCounted
<1>11. Untouched'
  BY <1>1, <1>2, <1>3, <1>5 DEF Books, Untouched, Exists
<1>12. WinningSide' /\ MintedByShare' /\ PaidByShare' /\ Solvency'
  BY <1>2 DEF WinningSide, MintedByShare, PaidByShare, Solvency
<1> QED
  BY <1>10, <1>11, <1>12 DEF Books

-----------------------------------------------------------------------------
\* A vault that holds what the pool promised, before anybody claimed, pays all.
LEMMA CoveredIsSolvent ==
  TypeOK /\ SidesCounted /\ WinningSide /\ vault >= Promised => Solvency
<1> SUFFICES ASSUME TypeOK, SidesCounted, WinningSide, vault >= Promised,
                    Exists, market.status = "Resolved", market.winning_total > 0
             PROVE  vault >= SumFunction([p \in Unclaimed |-> Due(p)])
  BY DEF Solvency
<1> DEFINE S == Side(market.result)
<1>1. /\ S \subseteq Positions /\ Unclaimed \subseteq S /\ IsFiniteSet(S) /\ IsFiniteSet(Unclaimed)
      /\ SumFunctionOnSet(Amount, S) = market.winning_total
  BY ClaimsAreOnTheSide, FinitelyManyPositions DEF WinningSide
<1>2. SumFunctionOnSet(DueOf, S) <= Promised /\ Promised \in Nat
  BY <1>1, SideFits, SharesTyped
<1> HIDE DEF S
<1>3. \A p \in S : DueOf[p] \in Nat
  BY <1>1, SharesTyped
<1>4. SumFunctionOnSet(DueOf, Unclaimed) <= SumFunctionOnSet(DueOf, S)
  BY <1>1, <1>3, SumSubset
<1>5. /\ SumFunctionOnSet(DueOf, Unclaimed) \in Nat /\ SumFunctionOnSet(DueOf, S) \in Nat
      /\ vault \in Nat
  BY <1>1, <1>3, SumNat DEF TypeOK
<1>6. vault >= SumFunctionOnSet(DueOf, Unclaimed)
  BY <1>2, <1>4, <1>5
<1> QED
  BY <1>6, ClaimSums

LEMMA NobodyPaid ==
  Claimed = {} => SumFunction([p \in Claimed |-> Payout(p)]) = 0
<1>1. SumFunctionOnSet(PayoutOf, {}) = 0
  BY SumEmpty
<1> QED
  BY <1>1, ClaimSums

\* The two fees round down, so that the vault keeps at least the payout pool.
LEMMA FeesLeaveThePool ==
  ASSUME NEW a \in Nat
  PROVE  /\ Bps(a, STAKER_REWARD_FEE_BPS) \in Nat /\ Bps(a, TREASURY_EVENT_FEE_BPS) \in Nat
         /\ a - Bps(a, STAKER_REWARD_FEE_BPS) - Bps(a, TREASURY_EVENT_FEE_BPS) >= PayoutPool(a)
BY DEF PayoutPool, Bps, MulDiv, BPS_DENOMINATOR, EVENT_PROTOCOL_FEE_BPS,
       STAKER_REWARD_FEE_BPS, TREASURY_EVENT_FEE_BPS

LEMMA FinalizeBooks ==
  ASSUME IInv, Books, Exists, NEW r \in Outcomes, NEW by \in {Oracle, Nobody},
         NEW snapshot \in Nat, NEW staked \in Nat,
         FinalizeMarketAndFees(r, by, snapshot, staked)
  PROVE  Books'
<1>1. TypeOK /\ Conservation /\ market \in Market /\ TypeOK'
  BY Typed, FinalizeKeeps DEF IInv
<1>2. /\ market.status # "Resolved" /\ market'.status = "Resolved" /\ Exists'
      /\ market'.result = r /\ market'.winning_total = market.total[r]
      /\ market'.total = market.total /\ market'.pool_total = market.pool_total
      /\ market'.total_claimed = market.total_claimed
      /\ market'.currency = market.currency
      /\ UNCHANGED <<positions, minted>>
  BY <1>1 DEF FinalizeMarketAndFees, Market, Exists
<1>3. /\ market.pool_total \in Nat /\ vault = market.pool_total
      /\ winners = 0 /\ market.total_claimed = 0
      /\ \A p \in Positions : ~positions[p].claimed /\ ~positions[p].lynx_minted /\ minted[p] = 0
  BY <1>1, <1>2 DEF Books, Untouched, Conservation, TypeOK, Market
<1>4. winners' = 0 /\ vault' >= Promised'
  <2>1. CASE IsSol
    <3>1. /\ vault' = vault - Bps(market.pool_total, STAKER_REWARD_FEE_BPS)
                            - Bps(market.pool_total, TREASURY_EVENT_FEE_BPS)
          /\ winners' = winners /\ Promised' = PayoutPool(market.pool_total)
      BY <1>2, <2>1 DEF FinalizeMarketAndFees, PayEventFees, Promised, IsSol
    <3> QED
      BY <1>3, <3>1, FeesLeaveThePool
  <2>2. CASE ~IsSol
    BY <1>2, <1>3, <2>2 DEF FinalizeMarketAndFees, money, Promised, IsSol
  <2> QED
    BY <2>1, <2>2
<1>5. SidesCounted'
  <2>1. Amount' = Amount
    BY <1>2 DEF Amount
  <2> QED
    BY <1>2, <2>1 DEF Books, SidesCounted
<1>6. Claimed' = {}
  BY <1>2, <1>3 DEF Claimed
<1>7. WinningSide' /\ Untouched' /\ MintedByShare'
  BY <1>2, <1>3, <1>6 DEF WinningSide, Untouched, MintedByShare
<1>8. PaidByShare'
  <2>1. SumFunction([p \in Claimed |-> Payout(p)])' = 0
    <3>1. (Claimed = {} => SumFunction([p \in Claimed |-> Payout(p)]) = 0)'
      BY NobodyPaid, PTL
    <3> QED
      BY <1>6, <3>1
  <2> QED
    BY <1>2, <1>3, <1>4, <2>1 DEF PaidByShare
<1>9. Solvency'
  <2>1. (TypeOK /\ SidesCounted /\ WinningSide /\ vault >= Promised => Solvency)'
    BY CoveredIsSolvent, PTL
  <2> QED
    BY <1>1, <1>4, <1>5, <1>7, <2>1
<1> QED
  BY <1>5, <1>7, <1>8, <1>9 DEF Books
-----------------------------------------------------------------------------
\* A settlement step: the shares of a resolved market stay as they are.
Settles ==
  /\ market.status = "Resolved" /\ market'.status = "Resolved"
  /\ market'.result = market.result /\ market'.currency = market.currency
  /\ market'.total = market.total /\ market'.pool_total = market.pool_total
  /\ market'.winning_total = market.winning_total
  /\ market'.mint_ratio_bps = market.mint_ratio_bps
  /\ \A p \in Positions : positions'[p].amount = positions[p].amount

LEMMA SharesStay ==
  ASSUME Books, Settles
  PROVE  /\ Amount' = Amount /\ PayoutOf' = PayoutOf /\ DueOf' = DueOf
         /\ Exists /\ Exists'
         /\ \A p \in Positions :
              /\ PositionIsWinner(p)' <=> PositionIsWinner(p)
              /\ PositionEmission(p)' = PositionEmission(p)
         /\ SidesCounted' /\ Untouched'
<1>1. Amount' = Amount
  BY DEF Settles, Amount
<1>2. PayoutOf' = PayoutOf
  BY DEF Settles, PayoutOf, Payout
<1>3. DueOf' = DueOf
  BY DEF Settles, DueOf, Due, Payout, PositionFee, IsSol
<1>4. Exists /\ Exists'
  BY DEF Settles, Exists
<1>5. ASSUME NEW p \in Positions
      PROVE  /\ PositionIsWinner(p)' <=> PositionIsWinner(p)
             /\ PositionEmission(p)' = PositionEmission(p)
  BY DEF Settles, PositionIsWinner, PositionEmission, TotalEmission
<1>6. SidesCounted'
  BY <1>1, <1>4 DEF Settles, Books, SidesCounted
<1>7. Untouched'
  BY <1>4 DEF Settles, Untouched
<1> QED
  BY <1>1, <1>2, <1>3, <1>4, <1>5, <1>6, <1>7

LEMMA ClaimSumsNext ==
  (/\ SumFunction([p \in Unclaimed |-> Due(p)]) = SumFunctionOnSet(DueOf, Unclaimed)
   /\ SumFunction([p \in Claimed |-> Payout(p)]) = SumFunctionOnSet(PayoutOf, Claimed))'
BY ClaimSums, PTL

\* A winner who claims leaves the others' part in the vault.
LEMMA ClaimBooks ==
  ASSUME IInv, Books, NEW p \in Positions, ClaimMarketSol(p) \/ ClaimMarketLynx(p)
  PROVE  Books'
<1>1. /\ TypeOK /\ Exists /\ market \in Market /\ market.status = "Resolved"
      /\ ~positions[p].claimed /\ PositionIsWinner(p) /\ market.winning_total > 0
  BY Typed DEF IInv, ClaimMarketSol, ClaimMarketLynx, MayClaim, Exists
<1>2. positions' = [positions EXCEPT ![p].claimed = TRUE] /\ minted' = minted
  BY DEF ClaimMarketSol, ClaimMarketLynx
<1>3. /\ positions \in [Positions -> Position] /\ positions[p] \in Position
  BY <1>1 DEF TypeOK
<1>4. /\ positions'[p].claimed
      /\ \A q \in Positions : /\ positions'[q].amount = positions[q].amount
                              /\ positions'[q].lynx_minted = positions[q].lynx_minted
                              /\ q # p => positions'[q].claimed = positions[q].claimed
  BY <1>2, <1>3 DEF Position
<1>5. Settles /\ (IsSol' <=> IsSol)
  <2>1. CASE ClaimMarketSol(p)
    BY <1>1, <1>4, <2>1 DEF ClaimMarketSol, Settles, Market, IsSol
  <2>2. CASE ClaimMarketLynx(p)
    BY <1>1, <1>4, <2>2 DEF ClaimMarketLynx, Settles, IsSol
  <2> QED
    BY <2>1, <2>2
<1>6. /\ p \in Unclaimed /\ p \notin Claimed
      /\ Unclaimed' = Unclaimed \ {p} /\ Claimed' = Claimed \cup {p}
  <2>1. \A q \in Positions : PositionIsWinner(q)' <=> PositionIsWinner(q)
    BY <1>5, SharesStay
  <2> QED
    BY <1>1, <1>4, <2>1 DEF Unclaimed, Claimed
<1>7. /\ vault' = vault - Due(p) /\ winners' = winners + Payout(p)
      /\ (IsSol => market'.total_claimed = market.total_claimed + Payout(p))
  <2>1. CASE ClaimMarketSol(p)
    <3>1. Payout(p) \in Nat /\ IsSol /\ Due(p) = Payout(p)
      BY <1>1, <2>1, ClaimShares DEF ClaimMarketSol, MayClaim, IsSol, Due
    <3>2. market'.total_claimed = market.total_claimed + Payout(p)
      BY <1>1, <2>1 DEF ClaimMarketSol, Market
    <3> QED
      BY <2>1, <3>1, <3>2 DEF ClaimMarketSol
  <2>2. CASE ClaimMarketLynx(p)
    <3>1. Payout(p) \in Nat /\ PositionFee(p) \in Nat /\ vault \in Nat /\ ~IsSol
      BY <1>1, <2>2, ClaimShares DEF ClaimMarketLynx, MayClaim, IsSol, TypeOK
    <3> QED
      BY <2>2, <3>1 DEF ClaimMarketLynx, Due
  <2> QED
    BY <2>1, <2>2
<1>8. /\ IsFiniteSet(Claimed) /\ IsFiniteSet(Unclaimed)
      /\ PayoutOf \in [Positions -> Nat] /\ DueOf \in [Positions -> Nat]
      /\ PayoutOf[p] = Payout(p) /\ DueOf[p] = Due(p)
      /\ Claimed \in SUBSET Positions /\ Unclaimed \in SUBSET Positions
  BY <1>1, SharesTyped, FinitelyManyPositions DEF Claimed, Unclaimed
<1>9. WinningSide'
  BY <1>1, <1>5, <1>6, SharesStay DEF Settles, Books, WinningSide, Claimed
<1>10. MintedByShare'
  <2>1. \A q \in Positions : PositionEmission(q)' = PositionEmission(q)
    BY <1>5, SharesStay
  <2> QED
    BY <1>1, <1>2, <1>4, <2>1 DEF Books, MintedByShare
<1>11. PaidByShare'
  <2>1. winners = SumFunctionOnSet(PayoutOf, Claimed)
        /\ (IsSol => market.total_claimed = winners)
    BY <1>1, ClaimSums DEF Books, PaidByShare
  <2>2. SumFunctionOnSet(PayoutOf, Claimed \cup {p}) = SumFunctionOnSet(PayoutOf, Claimed) + Payout(p)
    <3>1. \A q \in Claimed \cup {p} : PayoutOf[q] \in Int
      BY <1>8
    <3> QED
      BY <1>6, <1>8, <3>1, SumInsert
  <2>3. winners' = SumFunctionOnSet(PayoutOf, Claimed \cup {p})
    BY <1>7, <2>1, <2>2
  <2>4. SumFunction([q \in Claimed |-> Payout(q)])' = SumFunctionOnSet(PayoutOf', Claimed')
    BY ClaimSumsNext
  <2>5. PayoutOf' = PayoutOf
    BY <1>5, SharesStay
  <2>6. winners' = SumFunction([q \in Claimed |-> Payout(q)])'
    BY <1>6, <2>3, <2>4, <2>5
  <2> QED
    BY <1>5, <1>7, <2>1, <2>6 DEF PaidByShare
<1>12. Solvency'
  <2>1. vault >= SumFunctionOnSet(DueOf, Unclaimed)
    BY <1>1, ClaimSums DEF Books, Solvency
  <2>2. SumFunctionOnSet(DueOf, Unclaimed) = Due(p) + SumFunctionOnSet(DueOf, Unclaimed \ {p})
    <3>1. \A q \in Unclaimed : DueOf[q] \in Int
      BY <1>8
    <3> QED
      BY <1>6, <1>8, <3>1, SumSplit
  <2>3. vault' >= SumFunctionOnSet(DueOf, Unclaimed \ {p})
    <3>1. /\ vault \in Nat /\ Due(p) \in Nat
          /\ SumFunctionOnSet(DueOf, Unclaimed \ {p}) \in Int
      <4>1. IsFiniteSet(Unclaimed \ {p}) /\ \A q \in Unclaimed \ {p} : DueOf[q] \in Int
        BY <1>8, FS_Subset
      <4> QED
        BY <1>1, <1>8, <4>1, SumInt DEF TypeOK
    <3> QED
      BY <1>7, <2>1, <2>2, <3>1
  <2>4. SumFunction([q \in Unclaimed |-> Due(q)])' = SumFunctionOnSet(DueOf', Unclaimed')
    BY ClaimSumsNext
  <2>5. DueOf' = DueOf
    BY <1>5, SharesStay
  <2>6. vault' >= SumFunction([q \in Unclaimed |-> Due(q)])'
    BY <1>6, <2>3, <2>4, <2>5
  <2> QED
    BY <2>6 DEF Solvency
<1> QED
  BY <1>5, <1>9, <1>10, <1>11, <1>12, SharesStay DEF Books

\* When the payouts made reach the payout pool, nothing is left to claim.
LEMMA AllWereDue ==
  ASSUME TypeOK, Books, Exists, market.status = "Resolved", IsSol,
         market.winning_total > 0, market.total_claimed >= PayoutPool(market.pool_total)
  PROVE  SumFunctionOnSet(DueOf, Unclaimed) = 0
<1> DEFINE S == Side(market.result)
           pays == PayoutPool(market.pool_total)
<1>1. /\ S \subseteq Positions /\ Claimed \cup Unclaimed \subseteq S /\ Claimed \cap Unclaimed = {}
      /\ IsFiniteSet(S) /\ IsFiniteSet(Claimed) /\ IsFiniteSet(Unclaimed)
      /\ SumFunctionOnSet(Amount, S) = market.winning_total
  BY ClaimsAreOnTheSide, FinitelyManyPositions DEF Books, WinningSide
<1>2. SumFunctionOnSet(PayoutOf, S) <= pays /\ pays \in Nat
  BY <1>1, SideFits, SharesTyped
<1>3. market.total_claimed = SumFunctionOnSet(PayoutOf, Claimed)
  BY ClaimSums DEF Books, PaidByShare
<1> HIDE DEF S, pays
<1>4. \A p \in S : PayoutOf[p] \in Nat /\ DueOf[p] \in Nat /\ DueOf[p] = PayoutOf[p]
  <2>1. \A p \in Positions : /\ PayoutOf[p] = Payout(p) /\ DueOf[p] = Due(p)
                             /\ Payout(p) \in Nat
    BY SharesTyped
  <2>2. \A p \in Positions : Due(p) = Payout(p)
    BY <2>1 DEF Due
  <2> QED
    BY <1>1, <2>1, <2>2
<1>5. SumFunctionOnSet(PayoutOf, Claimed \cup Unclaimed) <= SumFunctionOnSet(PayoutOf, S)
  BY <1>1, <1>4, SumSubset
<1>6. SumFunctionOnSet(PayoutOf, Claimed \cup Unclaimed)
        = SumFunctionOnSet(PayoutOf, Claimed) + SumFunctionOnSet(PayoutOf, Unclaimed)
  <2>1. \A p \in Claimed \cup Unclaimed : PayoutOf[p] \in Int
    BY <1>1, <1>4
  <2> QED
    BY <1>1, <2>1, SumDisjoint
<1>7. /\ SumFunctionOnSet(PayoutOf, Claimed) \in Nat
      /\ SumFunctionOnSet(PayoutOf, Unclaimed) \in Nat
      /\ SumFunctionOnSet(PayoutOf, S) \in Nat
  BY <1>1, <1>4, SumNat
<1>8. SumFunctionOnSet(DueOf, Unclaimed) = SumFunctionOnSet(PayoutOf, Unclaimed)
  <2>1. \A p \in Unclaimed : DueOf[p] = PayoutOf[p]
    BY <1>1, <1>4
  <2> QED
    BY <1>1, <2>1, SumSame
<1>9. SumFunctionOnSet(PayoutOf, Claimed) >= pays
  BY <1>3 DEF pays
<1> QED
  BY <1>2, <1>5, <1>6, <1>7, <1>8, <1>9

\* A step that pays no winner and changes no claim.
LEMMA NoClaimBooks ==
  ASSUME Books, Settles, winners' = winners, market'.total_claimed = market.total_claimed,
         \A p \in Positions : positions'[p].claimed = positions[p].claimed,
         MintedByShare',
         market.winning_total > 0 => vault' >= SumFunctionOnSet(DueOf, Unclaimed)
  PROVE  Books'
<1>1. Claimed' = Claimed /\ Unclaimed' = Unclaimed
  BY SharesStay DEF Claimed, Unclaimed
<1>2. PayoutOf' = PayoutOf /\ DueOf' = DueOf
  BY SharesStay
<1>3. /\ SumFunction([p \in Unclaimed |-> Due(p)])' = SumFunctionOnSet(DueOf', Unclaimed')
      /\ SumFunction([p \in Claimed |-> Payout(p)])' = SumFunctionOnSet(PayoutOf', Claimed')
  BY ClaimSumsNext
<1>4. PaidByShare'
  <2>1. winners = SumFunctionOnSet(PayoutOf, Claimed)
        /\ (IsSol => market.total_claimed = winners)
    BY ClaimSums, SharesStay DEF Books, PaidByShare, Settles
  <2>2. IsSol' <=> IsSol
    BY DEF IsSol, Settles
  <2> QED
    BY <1>1, <1>2, <1>3, <2>1, <2>2 DEF PaidByShare
<1>5. Solvency'
  BY <1>1, <1>2, <1>3 DEF Solvency, Settles
<1>6. WinningSide'
  BY <1>1, SharesStay DEF Books, WinningSide, Settles, Claimed
<1> QED
  BY <1>4, <1>5, <1>6, SharesStay DEF Books

LEMMA SweepBooks ==
  ASSUME IInv, Books, SweepUnclaimedMarketSol \/ SweepUnclaimedMarketLynx
  PROVE  Books'
<1>1. /\ TypeOK /\ Exists /\ market \in Market /\ market.status = "Resolved" /\ vault \in Nat
  BY Typed DEF IInv, TypeOK, SweepUnclaimedMarketSol, SweepUnclaimedMarketLynx, Exists
<1>2. market' = [market EXCEPT !.swept = TRUE] /\ UNCHANGED <<positions, winners, minted>>
  BY DEF SweepUnclaimedMarketSol, SweepUnclaimedMarketLynx, SendToTreasury
<1>3. Settles /\ market'.total_claimed = market.total_claimed
  BY <1>1, <1>2 DEF Settles, Market
<1>4. MintedByShare'
  BY <1>1, <1>2, <1>3, SharesStay DEF Books, MintedByShare
<1>5. market.winning_total > 0 => vault' >= SumFunctionOnSet(DueOf, Unclaimed)
  <2> SUFFICES ASSUME market.winning_total > 0
               PROVE  vault' >= SumFunctionOnSet(DueOf, Unclaimed)
    OBVIOUS
  <2>1. /\ IsSol /\ market.total_claimed >= PayoutPool(market.pool_total)
        /\ vault' = vault - vault
    BY <1>1, Typed DEF SweepUnclaimedMarketSol, SweepUnclaimedMarketLynx, SendToTreasury
  <2>2. SumFunctionOnSet(DueOf, Unclaimed) = 0
    BY <1>1, <2>1, AllWereDue
  <2> QED
    BY <1>1, <2>1, <2>2
<1> QED
  BY <1>2, <1>3, <1>4, <1>5, NoClaimBooks

LEMMA MintBooks ==
  ASSUME IInv, Books, NEW p \in Positions, MintLynxDistribution(p)
  PROVE  Books'
<1>1. /\ TypeOK /\ Exists /\ market \in Market /\ market.status = "Resolved"
      /\ market.pool_total \in Nat \ {0} /\ ~positions[p].lynx_minted
  BY Typed DEF IInv, MintLynxDistribution, Exists
<1>2. positions' = [positions EXCEPT ![p].lynx_minted = TRUE] /\ UNCHANGED <<market, money>>
  BY DEF MintLynxDistribution
<1>3. positions \in [Positions -> Position] /\ positions[p] \in Position
      /\ minted \in [Positions -> Nat]
  BY <1>1 DEF TypeOK
<1>4. /\ positions'[p].lynx_minted
      /\ \A q \in Positions : /\ positions'[q].amount = positions[q].amount
                              /\ positions'[q].claimed = positions[q].claimed
                              /\ q # p => positions'[q].lynx_minted = positions[q].lynx_minted
  BY <1>2, <1>3 DEF Position
<1>5. Settles /\ market'.total_claimed = market.total_claimed
  BY <1>1, <1>2, <1>4 DEF Settles
<1>6. minted' = [minted EXCEPT ![p] = PositionEmission(p)]
  <2> DEFINE s == Split(PositionEmission(p))
  <2>1. minted' = [minted EXCEPT ![p] = minted[p] + s.participant + s.treasury + s.sale]
    BY DEF MintLynxDistribution
  <2>2. minted[p] = 0
    BY <1>1 DEF Books, MintedByShare
  <2>3. PositionEmission(p) \in Nat
    BY <1>1, PositionEmissionNat
  <2>4. s.participant \in Nat /\ s.sale \in Nat /\ s.treasury \in Nat
        /\ s.participant + s.treasury + s.sale = PositionEmission(p)
    BY <2>3, SplitNat
  <2> HIDE DEF s
  <2>5. minted[p] + s.participant + s.treasury + s.sale = PositionEmission(p)
    BY <2>2, <2>3, <2>4
  <2> QED
    BY <2>1, <2>5
<1>7. MintedByShare'
  <2>1. \A q \in Positions : PositionEmission(q)' = PositionEmission(q)
    BY <1>5, SharesStay
  <2> QED
    BY <1>1, <1>3, <1>4, <1>6, <2>1 DEF Books, MintedByShare
<1>8. market.winning_total > 0 => vault' >= SumFunctionOnSet(DueOf, Unclaimed)
  BY <1>1, <1>2, ClaimSums DEF Books, Solvency, money
<1> QED
  BY <1>2, <1>4, <1>5, <1>7, <1>8, NoClaimBooks DEF money

LEMMA StepBooks == IInv /\ Books /\ [AnyNext]_vars => Books'
<1> SUFFICES ASSUME IInv, Books, [AnyNext]_vars PROVE Books'
  OBVIOUS
<1>1. CASE UNCHANGED vars
  BY <1>1, SameBooks DEF vars
<1>2. CASE Tick
  BY <1>2, SameBooks DEF Tick
<1>3. ASSUME NEW u \in Owners, NEW o \in Outcomes, NEW a \in Amounts,
             NEW q \in Slippages, NEW z \in BOOLEAN,
             BuyPositionSol(u, o, a, q, z) \/ BuyPositionLynxWithBurn(u, o, a, q, z)
      PROVE  Books'
  <2>1. a \in Nat /\ a - Bps(a, LYNX_EVENT_BURN_BPS) \in Nat /\ Bps(a, LYNX_EVENT_BURN_BPS) \in Nat
    BY BurnAtMostAmount, MarketNumbersAssumption
  <2>2. \E b, c \in Nat : Enter(u, o, b, c)
    BY <1>3, <2>1 DEF BuyPositionSol, BuyPositionLynxWithBurn
  <2> QED
    BY <1>3, <2>2, EnterBooks DEF BuyPositionSol, BuyPositionLynxWithBurn, MayEnter
<1>4. CASE CutOffMarket \/ (\E z \in BOOLEAN : DisputeResolution(z))
           \/ (\E k \in Owners \cup {Oracle}, r \in Outcomes, z \in BOOLEAN, ratio \in Nat \ {0} :
                 ProposeResolution(k, r, z, ratio))
  <2>1. Exists /\ market.status # "Resolved" /\ UNCHANGED <<positions, money, minted>>
    BY <1>4 DEF CutOffMarket, MayCutOff, IsOpen, DisputeResolution, ProposeResolution, Exists
  <2>2. market \in Market
    BY <2>1, Typed DEF IInv
  <2>3. /\ market'.status # "Resolved" /\ Exists'
        /\ market'.total = market.total /\ market'.pool_total = market.pool_total
        /\ market'.total_claimed = market.total_claimed
    BY <1>4, <2>2 DEF CutOffMarket, DisputeResolution, ProposeResolution, Market, Exists
  <2> QED
    BY <2>1, <2>3, UnresolvedBooks
<1>5. ASSUME NEW s \in Staked, FinalizeResolution(s)
      PROVE  Books'
  <2>1. Exists /\ TypeOK /\ market.proposed_result \in Outcomes /\ s \in Nat
    BY <1>5, MarketNumbersAssumption DEF FinalizeResolution, IInv, Exists, ProposalStands
  <2>2. market.mint_ratio_snapshot_bps \in Nat
    BY <2>1, Typed DEF Market
  <2> QED
    BY <1>5, <2>1, <2>2, FinalizeBooks DEF FinalizeResolution
<1>6. ASSUME NEW r \in Outcomes, NEW ratio \in Nat \ {0}, NEW s \in Staked,
             ExecuteResolveMarketAdmin(r, ratio, s, Nobody)
      PROVE  Books'
  <2> DEFINE earlier == market.mint_ratio_snapshot_bps
             snapshot == IF IsSol /\ earlier = 0 THEN ratio ELSE earlier
  <2>1. Exists /\ TypeOK /\ s \in Nat /\ ratio \in Nat
    BY <1>6, MarketNumbersAssumption DEF ExecuteResolveMarketAdmin, IInv
  <2>2. snapshot \in Nat
    BY <2>1, Typed DEF Market
  <2>3. FinalizeMarketAndFees(r, Nobody, snapshot, s)
    BY <1>6 DEF ExecuteResolveMarketAdmin
  <2> HIDE DEF snapshot
  <2> QED
    BY <2>1, <2>2, <2>3, FinalizeBooks
<1> QED
  BY <1>1, <1>2, <1>3, <1>4, <1>5, <1>6, CreateMarketBooks, ClaimBooks, SweepBooks,
     MintBooks DEF AnyNext, NextAt

THEOREM BooksKept == Spec => []Books
BY InitBooks, StepBooks, NextIsAny, Invariance, PTL DEF Spec

\* The side totals and the pool that price entries and divide payouts are at all
\* times those of the position accounts.
THEOREM TotalsCountPositions == Spec => []PoolAccounting
BY BooksKept, AccountingFollows, PTL

\* Whatever the pool, the shares and the order of fees, claims and sweeps, the
\* vault covers every claim still open, however the quotients round.
THEOREM WinnersCanBePaid == Spec => []Solvency
<1>1. Books => Solvency
  BY DEF Books
<1> QED
  BY <1>1, BooksKept, PTL

\* What winners were paid is the sum of the shares of those who claimed.
THEOREM WinnersArePaidByShare == Spec => []PaidByShare
<1>1. Books => PaidByShare
  BY DEF Books
<1> QED
  BY <1>1, BooksKept, PTL

\* A market never emits more LYNX than its pool at the frozen ratio.
THEOREM EmissionIsBounded == Spec => []EmissionBounded
BY TypeCorrect, BooksKept, EmissionFollows, PTL

-----------------------------------------------------------------------------
(* Duels                                                                     *)

Duel ==
  [creator : Owners, rival : Owners \cup {Nobody}, amount : Nat,
   creator_outcome : Outcomes, rival_outcome : Outcomes \cup {"Unresolved"},
   duel_type : DuelTypes, status : {"Open", "Active", "Resolved", "Cancelled"},
   expires_ts : Nat]

\* A market proposes, and resolves to, an outcome it has.
ResultFits ==
  /\ market.status = "PendingResolution" => OutcomeIsTradeable(market.proposed_result)
  /\ market.status = "Resolved" => OutcomeIsTradeable(market.result)

\* A duel is of the market's kind, on outcomes the market has.
DuelFits(duel) ==
  /\ (duel.duel_type = "OneVOneVProtocol") <=> market.is_ternary
  /\ OutcomeIsTradeable(duel.creator_outcome)
  /\ duel.status = "Active" =>
       OutcomeIsTradeable(duel.rival_outcome) /\ duel.rival_outcome # duel.creator_outcome

DuelsFit ==
  /\ duels \in Seq(Duel)
  /\ \A d \in DOMAIN duels : Exists /\ DuelFits(duels[d])

DuelInv == IInv /\ ResultFits /\ DuelsFit

LEMMA DuelInitHolds == DuelsInit => DuelInv
<1> SUFFICES ASSUME DuelsInit PROVE DuelInv
  OBVIOUS
<1>1. IInv
  BY InitHolds DEF DuelsInit
<1>2. ResultFits
  BY DEF DuelsInit, Init, NoMarket, ResultFits
<1>3. DuelsFit
  BY DEF DuelsInit, DuelsFit
<1> QED
  BY <1>1, <1>2, <1>3 DEF DuelInv

LEMMA SomebodyFollows == DuelInv => SomebodyWins
<1> SUFFICES ASSUME DuelInv, NEW d \in DOMAIN duels,
                    duels[d].status = "Active", market.status = "Resolved"
             PROVE  /\ ~(CreatorWins(d) /\ RivalWins(d))
                    /\ duels[d].duel_type = "OneVOne" => CreatorWins(d) \/ RivalWins(d)
  BY DEF SomebodyWins
<1>1. /\ DuelFits(duels[d]) /\ OutcomeIsTradeable(market.result)
  BY DEF DuelInv, DuelsFit, ResultFits
<1> QED
  BY <1>1 DEF DuelFits, OutcomeIsTradeable, CreatorWins, RivalWins
-----------------------------------------------------------------------------
\* A market that exists stays, and keeps its kind.
SameKind == Exists => Exists' /\ market'.is_ternary = market.is_ternary

\* A step that touches neither kind, status nor results.
LEMMA ResultUntouched ==
  ASSUME ResultFits, market'.is_ternary = market.is_ternary,
         market'.status = market.status,
         market'.proposed_result = market.proposed_result, market'.result = market.result
  PROVE  ResultFits'
BY DEF ResultFits, OutcomeIsTradeable

LEMMA FinalizeFits ==
  ASSUME IInv, Exists, NEW r \in Outcomes, NEW by, NEW snapshot, NEW staked,
         FinalizeMarketAndFees(r, by, snapshot, staked)
  PROVE  SameKind /\ ResultFits'
<1>1. market \in Market
  BY Typed DEF IInv
<1>2. /\ market'.status = "Resolved" /\ market'.result = r
      /\ market'.is_ternary = market.is_ternary
      /\ (market.is_ternary \/ r # "Draw")
  BY <1>1 DEF FinalizeMarketAndFees, Market
<1> QED
  BY <1>2 DEF SameKind, ResultFits, OutcomeIsTradeable, Exists, Outcomes

LEMMA EntersFit ==
  ASSUME IInv, ResultFits, Exists, NEW u, NEW o, NEW a, NEW b, Enter(u, o, a, b)
  PROVE  SameKind /\ ResultFits'
<1>1. market \in Market
  BY Typed DEF IInv
<1>2. market'.status = "Active" /\ market'.is_ternary = market.is_ternary
  BY <1>1 DEF Enter, Market
<1> QED
  BY <1>2 DEF SameKind, ResultFits, Exists

LEMMA ResolutionFits ==
  ASSUME IInv, ResultFits,
         \/ CutOffMarket
         \/ \E k, r, z, ratio : ProposeResolution(k, r, z, ratio)
         \/ \E z : DisputeResolution(z)
         \/ \E s : FinalizeResolution(s)
         \/ \E r \in Outcomes : \E ratio, s : ExecuteResolveMarketAdmin(r, ratio, s, Nobody)
  PROVE  SameKind /\ ResultFits'
<1>1. Exists
  BY DEF CutOffMarket, MayCutOff, IsOpen, ProposeResolution, DisputeResolution,
         FinalizeResolution, ExecuteResolveMarketAdmin, Exists
<1>2. market \in Market
  BY <1>1, Typed DEF IInv
<1>3. CASE CutOffMarket
  <2>1. market'.status = "CutOff" /\ market'.is_ternary = market.is_ternary
    BY <1>2, <1>3 DEF CutOffMarket, Market
  <2> QED
    BY <2>1 DEF SameKind, ResultFits, Exists
<1>4. CASE \E k, r, z, ratio : ProposeResolution(k, r, z, ratio)
  <2>1. PICK k, r, z, ratio : ProposeResolution(k, r, z, ratio)
    BY <1>4
  <2>2. /\ market'.status = "PendingResolution" /\ market'.proposed_result = r
        /\ market'.is_ternary = market.is_ternary /\ OutcomeIsTradeable(r)
    BY <1>2, <2>1 DEF ProposeResolution, Market
  <2> QED
    BY <2>2 DEF SameKind, ResultFits, OutcomeIsTradeable, Exists
<1>5. CASE \E z : DisputeResolution(z)
  <2>1. market'.status = "CutOff" /\ market'.is_ternary = market.is_ternary
    BY <1>2, <1>5 DEF DisputeResolution, Market
  <2> QED
    BY <2>1 DEF SameKind, ResultFits, Exists
<1>6. CASE \E s : FinalizeResolution(s)
  <2>1. market.proposed_result \in Outcomes
    BY <1>6 DEF FinalizeResolution, IInv, ProposalStands
  <2> QED
    BY <1>1, <1>6, <2>1, FinalizeFits DEF FinalizeResolution
<1>7. CASE \E r \in Outcomes : \E ratio, s : ExecuteResolveMarketAdmin(r, ratio, s, Nobody)
  BY <1>1, <1>7, FinalizeFits DEF ExecuteResolveMarketAdmin
<1> QED
  BY <1>3, <1>4, <1>5, <1>6, <1>7

LEMMA SettlementFits ==
  ASSUME IInv, ResultFits,
         \/ \E p \in Positions : ClaimMarketSol(p)
         \/ \E p \in Positions : ClaimMarketLynx(p)
         \/ SweepUnclaimedMarketSol \/ SweepUnclaimedMarketLynx
         \/ \E p \in Positions : MintLynxDistribution(p)
  PROVE  SameKind /\ ResultFits'
<1>1. market.status = "Resolved" /\ Exists
  BY DEF ClaimMarketSol, ClaimMarketLynx, MayClaim, SweepUnclaimedMarketSol,
         SweepUnclaimedMarketLynx, MintLynxDistribution, Exists
<1>2. market \in Market
  BY <1>1, Typed DEF IInv
<1>3. /\ market'.status = market.status /\ market'.result = market.result
      /\ market'.proposed_result = market.proposed_result
      /\ market'.is_ternary = market.is_ternary
  BY <1>2 DEF ClaimMarketSol, ClaimMarketLynx, SweepUnclaimedMarketSol,
              SweepUnclaimedMarketLynx, SendToTreasury, MintLynxDistribution, Market
<1> QED
  BY <1>1, <1>3, ResultUntouched DEF SameKind, Exists

\* Whatever happens to it, a market keeps its kind and resolves to an outcome
\* it has.
LEMMA MarketStepFits ==
  ASSUME IInv, ResultFits, [AnyNext]_vars
  PROVE  SameKind /\ ResultFits'
<1>1. CASE UNCHANGED vars \/ Tick
  BY <1>1, ResultUntouched DEF vars, Tick, SameKind, Exists
<1>2. CASE \E c \in Currencies, t \in BOOLEAN, d \in Deadlines : CreateMarket(c, t, d[1], d[2])
  <2>1. ~Exists /\ market'.status = "Open"
    BY <1>2 DEF CreateMarket
  <2> QED
    BY <2>1 DEF SameKind, ResultFits
<1>3. CASE \E u \in Owners, o \in Outcomes, a \in Amounts, q \in Slippages, z \in BOOLEAN :
             BuyPositionSol(u, o, a, q, z) \/ BuyPositionLynxWithBurn(u, o, a, q, z)
  <2>1. Exists
    BY <1>3 DEF BuyPositionSol, BuyPositionLynxWithBurn, MayEnter
  <2> QED
    BY <1>3, <2>1, EntersFit DEF BuyPositionSol, BuyPositionLynxWithBurn
<1>4. CASE \/ CutOffMarket
           \/ \E k \in Owners \cup {Oracle}, r \in Outcomes, z \in BOOLEAN, ratio \in Nat \ {0} :
                ProposeResolution(k, r, z, ratio)
           \/ \E z \in BOOLEAN : DisputeResolution(z)
           \/ \E s \in Staked : FinalizeResolution(s)
           \/ \E r \in Outcomes, ratio \in Nat \ {0}, s \in Staked :
                ExecuteResolveMarketAdmin(r, ratio, s, Nobody)
  BY <1>4, ResolutionFits
<1> QED
  BY <1>1, <1>2, <1>3, <1>4, SettlementFits DEF AnyNext, NextAt
-----------------------------------------------------------------------------
\* One duel is replaced, the market stays as it is.
LEMMA ReplacedFits ==
  ASSUME DuelsFit, UNCHANGED vars, NEW d \in DOMAIN duels, NEW duel \in Duel, DuelFits(duel),
         duels' = [duels EXCEPT ![d] = duel]
  PROVE  DuelsFit'
<1>1. duels' \in Seq(Duel) /\ DOMAIN duels' = DOMAIN duels
  BY DEF DuelsFit
<1>2. \A e \in DOMAIN duels' : duels'[e] = IF e = d THEN duel ELSE duels[e]
  BY DEF DuelsFit
<1>3. \A e \in DOMAIN duels' : Exists /\ DuelFits(duels'[e])
  BY <1>1, <1>2 DEF DuelsFit
<1>4. market' = market
  BY DEF vars
<1> QED
  BY <1>1, <1>3, <1>4 DEF DuelsFit, DuelFits, OutcomeIsTradeable, Exists

LEMMA CreateDuelFits ==
  ASSUME DuelsFit, NEW u \in Owners, NEW a \in Stakes, NEW o \in Outcomes,
         NEW t \in DuelTypes, NEW e \in 1..MaxTime, NEW z, CreateDuel(u, a, o, t, e, z)
  PROVE  DuelsFit'
<1> DEFINE duel == [creator |-> u, rival |-> Nobody, amount |-> a,
                    creator_outcome |-> o, rival_outcome |-> "Unresolved",
                    duel_type |-> t, status |-> "Open", expires_ts |-> e]
<1>1. duel \in Duel
  BY DuelsAssumption DEF Duel
<1>2. Exists /\ DuelFits(duel)
  BY DEF CreateDuel, TypeFits, DuelFits
<1>3. duels' = Append(duels, duel) /\ market' = market
  BY DEF CreateDuel, vars
<1> HIDE DEF duel
<1>4. duels' \in Seq(Duel)
  BY <1>1, <1>3 DEF DuelsFit
<1>5. \A d \in DOMAIN duels' : duels'[d] = duel \/ (d \in DOMAIN duels /\ duels'[d] = duels[d])
  BY <1>1, <1>3 DEF DuelsFit
<1>6. \A d \in DOMAIN duels' : Exists /\ DuelFits(duels'[d])
  BY <1>2, <1>5 DEF DuelsFit
<1> QED
  BY <1>3, <1>4, <1>6 DEF DuelsFit, DuelFits, OutcomeIsTradeable, Exists

LEMMA AcceptDuelFits ==
  ASSUME DuelsFit, NEW d \in DOMAIN duels, NEW u \in Owners, NEW o \in Outcomes, NEW z,
         AcceptDuel(d, u, o, z)
  PROVE  DuelsFit'
<1> DEFINE duel == [duels[d] EXCEPT !.rival = u, !.rival_outcome = o, !.status = "Active"]
<1>1. duels[d] \in Duel /\ DuelFits(duels[d])
  BY DEF DuelsFit
<1>2. /\ duel \in Duel /\ duel.status = "Active" /\ duel.rival_outcome = o
      /\ duel.duel_type = duels[d].duel_type
      /\ duel.creator_outcome = duels[d].creator_outcome
  BY <1>1 DEF Duel
<1>3. DuelFits(duel)
  BY <1>1, <1>2 DEF AcceptDuel, DuelFits
<1>4. duels' = [duels EXCEPT ![d] = duel] /\ UNCHANGED vars
  BY DEF AcceptDuel
<1> HIDE DEF duel
<1> QED
  BY <1>2, <1>3, <1>4, ReplacedFits

\* A duel that ends keeps its bets.
LEMMA EndedFits ==
  ASSUME DuelsFit, NEW d \in DOMAIN duels, NEW status \in {"Resolved", "Cancelled"},
         UNCHANGED vars, duels' = [duels EXCEPT ![d].status = status]
  PROVE  DuelsFit'
<1> DEFINE duel == [duels[d] EXCEPT !.status = status]
<1>1. duels[d] \in Duel /\ DuelFits(duels[d])
  BY DEF DuelsFit
<1>2. /\ duel \in Duel /\ duel.status # "Active"
      /\ duel.duel_type = duels[d].duel_type
      /\ duel.creator_outcome = duels[d].creator_outcome
  BY <1>1 DEF Duel
<1>3. DuelFits(duel)
  BY <1>1, <1>2 DEF DuelFits
<1>4. duels' = [duels EXCEPT ![d] = duel]
  OBVIOUS
<1> HIDE DEF duel
<1> QED
  BY <1>2, <1>3, <1>4, ReplacedFits

LEMMA DuelStepFits ==
  ASSUME DuelsFit, DuelStep
  PROVE  DuelsFit' /\ UNCHANGED vars
<1>1. CASE \E u \in Owners, a \in Stakes, o \in Outcomes, t \in DuelTypes, e \in 1..MaxTime,
              z \in BOOLEAN : CreateDuel(u, a, o, t, e, z)
  <2>1. PICK u \in Owners, a \in Stakes, o \in Outcomes, t \in DuelTypes, e \in 1..MaxTime,
             z \in BOOLEAN : CreateDuel(u, a, o, t, e, z)
    BY <1>1
  <2>2. UNCHANGED vars
    BY <2>1 DEF CreateDuel
  <2> QED
    BY <2>1, <2>2, CreateDuelFits
<1>2. CASE \E d \in DOMAIN duels, u \in Owners, o \in Outcomes, z \in BOOLEAN :
              AcceptDuel(d, u, o, z)
  BY <1>2, AcceptDuelFits DEF AcceptDuel
<1>3. CASE \E d \in DOMAIN duels, s \in Staked : ResolveDuelSol(d, s)
  BY <1>3, EndedFits DEF ResolveDuelSol
<1>4. CASE \E d \in DOMAIN duels, u \in Owners, s \in Staked : ResolveProtocolDuel(d, u, s)
  BY <1>4, EndedFits DEF ResolveProtocolDuel
<1>5. CASE \E d \in DOMAIN duels : CancelDuel(d)
  BY <1>5, EndedFits DEF CancelDuel
<1> QED
  BY <1>1, <1>2, <1>3, <1>4, <1>5 DEF DuelStep

\* While duels rest, the market keeps what they depend on.
LEMMA DuelsRest ==
  ASSUME DuelsFit, SameKind, duels' = duels
  PROVE  DuelsFit'
BY DEF DuelsFit, SameKind, DuelFits, OutcomeIsTradeable

\* A step of the duels, or of the market at any ratio.
AnyDuelsNext == DuelStep \/ (AnyNext /\ UNCHANGED duelVars)

LEMMA DuelsNextIsAny == [DuelsNext]_allVars => [AnyDuelsNext]_allVars
<1> SUFFICES ASSUME [DuelsNext]_allVars PROVE [AnyDuelsNext]_allVars
  OBVIOUS
<1>1. CASE DuelStep \/ UNCHANGED allVars
  BY <1>1 DEF AnyDuelsNext
<1>2. CASE Next /\ UNCHANGED duelVars
  <2>1. AnyNext \/ UNCHANGED vars
    BY <1>2, NextIsAny
  <2> QED
    BY <1>2, <2>1 DEF AnyDuelsNext, allVars
<1> QED
  BY <1>1, <1>2 DEF DuelsNext

LEMMA DuelInvKept == DuelInv /\ [AnyDuelsNext]_allVars => DuelInv'
<1> SUFFICES ASSUME DuelInv, [AnyDuelsNext]_allVars PROVE DuelInv'
  OBVIOUS
<1>1. [AnyNext]_vars
  BY DuelStepFits DEF AnyDuelsNext, allVars, DuelInv
<1>2. IInv' /\ SameKind /\ ResultFits'
  BY <1>1, StepKeeps, MarketStepFits DEF DuelInv
<1>3. DuelsFit'
  <2>1. CASE DuelStep
    BY <2>1, DuelStepFits DEF DuelInv
  <2>2. CASE (AnyNext /\ UNCHANGED duelVars) \/ UNCHANGED allVars
    BY <1>2, <2>2, DuelsRest DEF DuelInv, duelVars, allVars
  <2> QED
    BY <2>1, <2>2 DEF AnyDuelsNext
<1> QED
  BY <1>2, <1>3 DEF DuelInv

\* For any players, bets and exposures, and whatever decides the market, its
\* oracle or the governance: a 1v1 that is due has exactly one winner, and a
\* 1v1vP at most one besides the protocol (lib.rs, create_duel, accept_duel and
\* finalize_market_and_fees).
THEOREM DuelsHaveAWinner == DuelsSpec => []SomebodyWins
<1>1. DuelsSpec => []DuelInv
  BY DuelInitHolds, DuelInvKept, DuelsNextIsAny, PTL DEF DuelsSpec
<1> QED
  BY <1>1, SomebodyFollows, PTL
-----------------------------------------------------------------------------
\* What the vault of a duel holds.
Held(duel) ==
  CASE duel.status = "Open" -> duel.amount
    [] duel.status = "Active" -> 2 * duel.amount
    [] OTHER -> 0

VaultInv ==
  /\ duels \in Seq(Duel)
  /\ duel_vaults \in Seq(Int)
  /\ Len(duel_vaults) = Len(duels)
  /\ \A d \in DOMAIN duels : duel_vaults[d] = Held(duels[d])

LEMMA ExactFollows == VaultInv => VaultsExact
BY DEF VaultInv, VaultsExact, Held, Pot

LEMMA VaultReplaced ==
  ASSUME VaultInv, NEW d \in DOMAIN duels, NEW duel \in Duel, NEW x \in Int, x = Held(duel),
         duels' = [duels EXCEPT ![d] = duel], duel_vaults' = [duel_vaults EXCEPT ![d] = x]
  PROVE  VaultInv'
<1>1. DOMAIN duels = 1..Len(duels) /\ DOMAIN duel_vaults = 1..Len(duels)
  BY DEF VaultInv
<1>2. /\ duels' \in Seq(Duel) /\ Len(duels') = Len(duels) /\ DOMAIN duels' = DOMAIN duels
      /\ duel_vaults' \in Seq(Int) /\ Len(duel_vaults') = Len(duel_vaults)
  BY DEF VaultInv
<1>3. \A e \in DOMAIN duels' : duel_vaults'[e] = Held(duels'[e])
  <2> TAKE e \in DOMAIN duels'
  <2>1. CASE e = d
    BY <1>1, <1>2, <2>1 DEF VaultInv
  <2>2. CASE e # d
    BY <1>1, <1>2, <2>2 DEF VaultInv
  <2> QED
    BY <2>1, <2>2
<1> QED
  BY <1>2, <1>3 DEF VaultInv

\* A duel ends, and what is taken out of its vault is all there was.
LEMMA EndsEmpty ==
  ASSUME VaultInv, NEW d \in DOMAIN duels, NEW status \in {"Resolved", "Cancelled"},
         duels' = [duels EXCEPT ![d].status = status],
         duel_vaults' = [duel_vaults EXCEPT ![d] = 0]
  PROVE  VaultInv'
<1> DEFINE duel == [duels[d] EXCEPT !.status = status]
<1>1. duels[d] \in Duel
  BY DEF VaultInv
<1>2. duel \in Duel /\ duel.status \notin {"Open", "Active"}
  BY <1>1 DEF Duel
<1>3. 0 \in Int /\ 0 = Held(duel)
  BY <1>2 DEF Held
<1>4. duels' = [duels EXCEPT ![d] = duel]
  OBVIOUS
<1> HIDE DEF duel
<1> QED
  BY <1>2, <1>3, <1>4, VaultReplaced

\* The fees and the prize of a duel are its pot.
LEMMA PotIsShared ==
  ASSUME VaultInv, NEW d \in DOMAIN duels, duels[d].status = "Active"
  PROVE  /\ Pot(d) \in Nat /\ duel_vaults[d] = Pot(d)
         /\ duel_vaults[d] - StakerFee(d) - TreasuryFee(d) - Prize(d) = 0
         /\ duel_vaults[d] - 0 - Pot(d) - 0 = 0
         /\ duel_vaults[d] - (Pot(d) \div 2) - (Pot(d) - (Pot(d) \div 2)) - 0 = 0
<1>1. duels[d].amount \in Nat /\ duel_vaults[d] = 2 * duels[d].amount
  <2>1. duels[d] \in Duel /\ duel_vaults[d] = Held(duels[d])
    BY DEF VaultInv
  <2> QED
    BY <2>1 DEF Duel, Held
<1>2. Pot(d) \in Nat /\ duel_vaults[d] = Pot(d)
  BY <1>1 DEF Pot
<1>3. StakerFee(d) \in Nat /\ TreasuryFee(d) \in Nat
  <2>1. STAKER_REWARD_FEE_BPS \in Nat /\ TREASURY_EVENT_FEE_BPS \in Nat
    BY DEF STAKER_REWARD_FEE_BPS, TREASURY_EVENT_FEE_BPS
  <2> QED
    BY <1>2, <2>1, BpsNat DEF StakerFee, TreasuryFee
<1>4. Prize(d) = Pot(d) - StakerFee(d) - TreasuryFee(d)
  BY DEF Prize
<1>5. Pot(d) \div 2 \in Nat
  BY <1>2
<1> QED
  BY <1>2, <1>3, <1>4, <1>5

LEMMA CreateDuelExact ==
  ASSUME VaultInv, NEW u \in Owners, NEW a \in Stakes, NEW o \in Outcomes,
         NEW t \in DuelTypes, NEW e \in 1..MaxTime, NEW z, CreateDuel(u, a, o, t, e, z)
  PROVE  VaultInv'
<1> DEFINE duel == [creator |-> u, rival |-> Nobody, amount |-> a,
                    creator_outcome |-> o, rival_outcome |-> "Unresolved",
                    duel_type |-> t, status |-> "Open", expires_ts |-> e]
<1>1. duel \in Duel /\ Held(duel) = a /\ a \in Nat
  BY DuelsAssumption DEF Duel, Held
<1>2. duels' = Append(duels, duel) /\ duel_vaults' = Append(duel_vaults, a)
  BY DEF CreateDuel
<1> HIDE DEF duel
<1>3. /\ duels' \in Seq(Duel) /\ duel_vaults' \in Seq(Int)
      /\ Len(duel_vaults') = Len(duels') /\ Len(duels') = Len(duels) + 1
  BY <1>1, <1>2 DEF VaultInv
<1>4. \A d \in DOMAIN duels' : duel_vaults'[d] = Held(duels'[d])
  <2> TAKE d \in DOMAIN duels'
  <2>1. CASE d = Len(duels) + 1
    BY <1>1, <1>2, <2>1 DEF VaultInv
  <2>2. CASE d # Len(duels) + 1
    BY <1>1, <1>2, <1>3, <2>2 DEF VaultInv
  <2> QED
    BY <2>1, <2>2
<1> QED
  BY <1>3, <1>4 DEF VaultInv

LEMMA AcceptDuelExact ==
  ASSUME VaultInv, NEW d \in DOMAIN duels, NEW u \in Owners, NEW o \in Outcomes, NEW z,
         AcceptDuel(d, u, o, z)
  PROVE  VaultInv'
<1> DEFINE duel == [duels[d] EXCEPT !.rival = u, !.rival_outcome = o, !.status = "Active"]
<1>1. duels[d] \in Duel /\ duel_vaults[d] = duels[d].amount
  BY DEF VaultInv, AcceptDuel, Held
<1>2. duel \in Duel /\ duel.status = "Active" /\ duel.amount = duels[d].amount
  BY <1>1 DEF Duel
<1>3. duels[d].amount \in Nat /\ Held(duel) = 2 * duels[d].amount
  BY <1>1, <1>2 DEF Duel, Held
<1>4. /\ duels' = [duels EXCEPT ![d] = duel]
      /\ duel_vaults' = [duel_vaults EXCEPT ![d] = duel_vaults[d] + duels[d].amount]
  BY DEF AcceptDuel
<1> HIDE DEF duel
<1>5. duel_vaults[d] + duels[d].amount = Held(duel) /\ Held(duel) \in Int
  BY <1>1, <1>3
<1> QED
  BY <1>2, <1>4, <1>5, VaultReplaced

LEMMA ResolveDuelSolExact ==
  ASSUME VaultInv, NEW d \in DOMAIN duels, NEW s, ResolveDuelSol(d, s)
  PROVE  VaultInv'
<1>1. duels[d].status = "Active" /\ duels' = [duels EXCEPT ![d].status = "Resolved"]
  BY DEF ResolveDuelSol, MayResolve
<1>2. \/ duel_vaults' = [duel_vaults EXCEPT
                          ![d] = duel_vaults[d] - StakerFee(d) - TreasuryFee(d) - Prize(d)]
      \/ duel_vaults' = [duel_vaults EXCEPT ![d] = duel_vaults[d] - 0 - Pot(d) - 0]
  BY DEF ResolveDuelSol, Divide
<1> QED
  BY <1>1, <1>2, PotIsShared, EndsEmpty

LEMMA ResolveProtocolDuelExact ==
  ASSUME VaultInv, NEW d \in DOMAIN duels, NEW u, NEW s, ResolveProtocolDuel(d, u, s)
  PROVE  VaultInv'
<1>1. duels[d].status = "Active" /\ duels' = [duels EXCEPT ![d].status = "Resolved"]
  BY DEF ResolveProtocolDuel, MayResolve
<1>2. \/ duel_vaults' = [duel_vaults EXCEPT
                          ![d] = duel_vaults[d] - StakerFee(d) - TreasuryFee(d) - Prize(d)]
      \/ duel_vaults' = [duel_vaults EXCEPT
                          ![d] = duel_vaults[d] - (Pot(d) \div 2)
                                   - (Pot(d) - (Pot(d) \div 2)) - 0]
  BY DEF ResolveProtocolDuel, Divide
<1> QED
  BY <1>1, <1>2, PotIsShared, EndsEmpty

LEMMA CancelDuelExact ==
  ASSUME VaultInv, NEW d \in DOMAIN duels, CancelDuel(d)
  PROVE  VaultInv'
<1>1. duels[d].amount \in Nat /\ duel_vaults[d] = duels[d].amount
  <2>1. duels[d] \in Duel /\ duel_vaults[d] = Held(duels[d]) /\ duels[d].status = "Open"
    BY DEF VaultInv, CancelDuel
  <2> QED
    BY <2>1 DEF Duel, Held
<1>2. duel_vaults[d] - duels[d].amount = 0
  BY <1>1
<1>3. /\ duels' = [duels EXCEPT ![d].status = "Cancelled"]
      /\ duel_vaults' = [duel_vaults EXCEPT ![d] = duel_vaults[d] - duels[d].amount]
  BY DEF CancelDuel
<1> QED
  BY <1>2, <1>3, EndsEmpty

LEMMA VaultInvKept == VaultInv /\ [AnyDuelsNext]_allVars => VaultInv'
<1> SUFFICES ASSUME VaultInv, [AnyDuelsNext]_allVars PROVE VaultInv'
  OBVIOUS
<1>1. CASE \E u \in Owners, a \in Stakes, o \in Outcomes, t \in DuelTypes, e \in 1..MaxTime,
              z \in BOOLEAN : CreateDuel(u, a, o, t, e, z)
  <2>1. PICK u \in Owners, a \in Stakes, o \in Outcomes, t \in DuelTypes, e \in 1..MaxTime,
             z \in BOOLEAN : CreateDuel(u, a, o, t, e, z)
    BY <1>1
  <2> QED
    BY <2>1, CreateDuelExact
<1>2. CASE \E d \in DOMAIN duels, u \in Owners, o \in Outcomes, z \in BOOLEAN :
              AcceptDuel(d, u, o, z)
  BY <1>2, AcceptDuelExact
<1>3. CASE \E d \in DOMAIN duels, s \in Staked : ResolveDuelSol(d, s)
  BY <1>3, ResolveDuelSolExact
<1>4. CASE \E d \in DOMAIN duels, u \in Owners, s \in Staked : ResolveProtocolDuel(d, u, s)
  BY <1>4, ResolveProtocolDuelExact
<1>5. CASE \E d \in DOMAIN duels : CancelDuel(d)
  BY <1>5, CancelDuelExact
<1>6. CASE UNCHANGED duelVars
  BY <1>6 DEF duelVars, VaultInv
<1> QED
  BY <1>1, <1>2, <1>3, <1>4, <1>5, <1>6 DEF AnyDuelsNext, DuelStep, allVars

\* For any bets, whatever the fees of a pot round to and whoever wins, a duel's
\* vault holds the bets of a duel that is still on, and nothing is left in it
\* when the duel has ended (lib.rs, create_duel to cancel_duel).
THEOREM DuelVaultsAreExact == DuelsSpec => []VaultsExact
<1>1. DuelsInit => VaultInv
  BY DEF DuelsInit, VaultInv
<1>2. DuelsSpec => []VaultInv
  BY <1>1, VaultInvKept, DuelsNextIsAny, PTL DEF DuelsSpec
<1> QED
  BY <1>2, ExactFollows, PTL
-----------------------------------------------------------------------------
\* What players lost is in vaults, with the treasury or with the stakers; the
\* winner of a duel that is on is a player.
Balanced ==
  /\ purse \in [Owners -> Int]
  /\ duel_treasury \in Int /\ duel_rewards \in Int
  /\ SumFunction(purse) + duel_treasury + duel_rewards + SumFunction(duel_vaults) = 0
  /\ \A d \in DOMAIN duels : duels[d].status = "Active" => duels[d].rival \in Owners

MoneyInv == VaultInv /\ Balanced

\* The sum of a sequence of integers, or of the purses, when one of them moves.
LEMMA VaultMoves ==
  ASSUME VaultInv, NEW d \in DOMAIN duels, NEW y \in Int,
         duel_vaults' = [duel_vaults EXCEPT ![d] = y]
  PROVE  /\ SumFunction(duel_vaults) \in Int /\ duel_vaults[d] \in Int
         /\ SumFunction(duel_vaults') = SumFunction(duel_vaults) - duel_vaults[d] + y
<1> DEFINE D == 1..Len(duels)
<1>1. /\ DOMAIN duel_vaults = D /\ DOMAIN duel_vaults' = D /\ d \in D /\ IsFiniteSet(D)
      /\ \A e \in D : duel_vaults[e] \in Int /\ duel_vaults'[e] \in Int
      /\ \A e \in D \ {d} : duel_vaults[e] = duel_vaults'[e]
      /\ duel_vaults'[d] = y
  <2>1. Len(duels) \in Int /\ IsFiniteSet(D)
    BY FS_Interval DEF VaultInv
  <2> QED
    BY <2>1 DEF VaultInv
<1> HIDE DEF D
<1>2. SumFunctionOnSet(duel_vaults', D)
        = SumFunctionOnSet(duel_vaults, D) - duel_vaults[d] + duel_vaults'[d]
  BY ONLY <1>1, SumUpdate
<1>3. SumFunctionOnSet(duel_vaults, D) \in Int
  BY <1>1, SumInt
<1> QED
  BY <1>1, <1>2, <1>3 DEF SumFunction

LEMMA PurseMoves ==
  ASSUME Balanced, NEW u \in Owners, NEW z \in Int, purse' = [purse EXCEPT ![u] = @ + z]
  PROVE  /\ purse' \in [Owners -> Int] /\ SumFunction(purse) \in Int
         /\ SumFunction(purse') = SumFunction(purse) + z
<1>1. /\ DOMAIN purse = Owners /\ purse' \in [Owners -> Int] /\ IsFiniteSet(Owners)
      /\ \A e \in Owners : purse[e] \in Int /\ purse'[e] \in Int
      /\ \A e \in Owners \ {u} : purse[e] = purse'[e]
      /\ purse'[u] = purse[u] + z
  BY MarketKeysAssumption DEF Balanced
<1>2. SumFunctionOnSet(purse', Owners) = SumFunctionOnSet(purse, Owners) - purse[u] + purse'[u]
  BY ONLY <1>1, u \in Owners, SumUpdate
<1>3. SumFunctionOnSet(purse, Owners) \in Int
  BY <1>1, SumInt
<1> QED
  BY <1>1, <1>2, <1>3 DEF SumFunction

LEMMA CreateDuelBalances ==
  ASSUME MoneyInv, NEW u \in Owners, NEW a \in Stakes, NEW o \in Outcomes,
         NEW t \in DuelTypes, NEW e \in 1..MaxTime, NEW z, CreateDuel(u, a, o, t, e, z)
  PROVE  Balanced'
<1> DEFINE n == Len(duel_vaults)
           D == 1..n
           E == 1..(n + 1)
<1>1. a \in Nat /\ duel_vaults \in Seq(Int) /\ duel_vaults' = Append(duel_vaults, a)
      /\ n \in Nat /\ n = Len(duels)
  BY DuelsAssumption DEF CreateDuel, MoneyInv, VaultInv
<1>2. /\ DOMAIN duel_vaults = D /\ DOMAIN duel_vaults' = E
      /\ n + 1 \notin D /\ E = D \cup {n + 1} /\ IsFiniteSet(D)
      /\ duel_vaults'[n + 1] = a
      /\ \A d \in D : duel_vaults'[d] = duel_vaults[d] /\ duel_vaults[d] \in Int
  <2>1. IsFiniteSet(D)
    BY <1>1, FS_Interval
  <2> QED
    BY <1>1, <2>1
<1>3. /\ SumFunctionOnSet(duel_vaults', D) = SumFunctionOnSet(duel_vaults, D)
      /\ SumFunctionOnSet(duel_vaults, D) \in Int
  <2> HIDE DEF D
  <2> QED
    BY <1>2, SumSame, SumInt
<1>4. SumFunctionOnSet(duel_vaults', D \cup {n + 1}) = SumFunctionOnSet(duel_vaults', D) + a
  <2>1. \A d \in D \cup {n + 1} : duel_vaults'[d] \in Int
    BY <1>1, <1>2
  <2> HIDE DEF D, n
  <2> QED
    BY <1>2, <2>1, SumInsert
<1>5. SumFunction(duel_vaults') = SumFunction(duel_vaults) + a
  <2> HIDE DEF D, E, n
  <2>1. SumFunctionOnSet(duel_vaults', E) = SumFunctionOnSet(duel_vaults', D \cup {n + 1})
    BY <1>2, Zenon
  <2> QED
    BY <1>2, <1>3, <1>4, <2>1 DEF SumFunction
<1>6. /\ purse' \in [Owners -> Int] /\ SumFunction(purse) \in Int
      /\ SumFunction(purse') = SumFunction(purse) + (0 - a)
  <2>1. Balanced /\ purse[u] \in Int /\ purse[u] - a = purse[u] + (0 - a)
    BY <1>1 DEF MoneyInv, Balanced
  <2>2. purse' = [purse EXCEPT ![u] = @ + (0 - a)]
    BY <2>1, Zenon DEF CreateDuel
  <2>3. 0 - a \in Int
    BY <1>1
  <2> QED
    BY <2>1, <2>2, <2>3, PurseMoves
<1>7. SumFunction(duel_vaults) \in Int
  BY <1>2, <1>3 DEF SumFunction
<1>8. /\ duel_treasury' = duel_treasury /\ duel_rewards' = duel_rewards
      /\ duel_treasury \in Int /\ duel_rewards \in Int
      /\ SumFunction(purse) + duel_treasury + duel_rewards + SumFunction(duel_vaults) = 0
  BY DEF CreateDuel, MoneyInv, Balanced
<1>9. SumFunction(purse') + duel_treasury' + duel_rewards' + SumFunction(duel_vaults') = 0
  BY <1>1, <1>5, <1>6, <1>7, <1>8
<1>10. \A d \in DOMAIN duels' : duels'[d].status = "Active" => duels'[d].rival \in Owners
  <2> TAKE d \in DOMAIN duels'
  <2>1. \/ d \in DOMAIN duels /\ duels'[d] = duels[d]
        \/ duels'[d].status = "Open"
    BY DEF CreateDuel, MoneyInv, VaultInv
  <2> QED
    BY <2>1 DEF MoneyInv, Balanced
<1> QED
  BY <1>6, <1>8, <1>9, <1>10 DEF Balanced

\* One duel's vault, a purse and the two totals move, and the moves cancel out.
LEMMA MovesCancel ==
  ASSUME MoneyInv, NEW d \in DOMAIN duels, NEW y \in Int, NEW u \in Owners, NEW z \in Int,
         duel_vaults' = [duel_vaults EXCEPT ![d] = y],
         purse' = [purse EXCEPT ![u] = @ + z],
         duel_treasury' \in Int, duel_rewards' \in Int,
         y - duel_vaults[d] + z + duel_treasury' - duel_treasury
           + duel_rewards' - duel_rewards = 0,
         DOMAIN duels' = DOMAIN duels,
         \A e \in DOMAIN duels : duels'[e].status = "Active" => duels'[e].rival \in Owners
  PROVE  Balanced'
<1>1. VaultInv /\ Balanced
  BY DEF MoneyInv
<1>2. /\ SumFunction(duel_vaults) \in Int /\ duel_vaults[d] \in Int
      /\ SumFunction(duel_vaults') = SumFunction(duel_vaults) - duel_vaults[d] + y
  BY <1>1, VaultMoves
<1>3. /\ purse' \in [Owners -> Int] /\ SumFunction(purse) \in Int
      /\ SumFunction(purse') = SumFunction(purse) + z
  BY <1>1, PurseMoves
<1>4. /\ duel_treasury \in Int /\ duel_rewards \in Int
      /\ SumFunction(purse) + duel_treasury + duel_rewards + SumFunction(duel_vaults) = 0
  BY <1>1 DEF Balanced
<1>5. SumFunction(purse') + duel_treasury' + duel_rewards' + SumFunction(duel_vaults') = 0
  BY <1>2, <1>3, <1>4
<1> QED
  BY <1>3, <1>5 DEF Balanced

LEMMA AcceptDuelBalances ==
  ASSUME MoneyInv, NEW d \in DOMAIN duels, NEW u \in Owners, NEW o \in Outcomes, NEW z,
         AcceptDuel(d, u, o, z)
  PROVE  Balanced'
<1>1. duels[d] \in Duel /\ duels[d].amount \in Nat /\ duel_vaults[d] \in Int
      /\ purse \in [Owners -> Int] /\ duel_treasury \in Int /\ duel_rewards \in Int
  <2>1. duels[d] \in Duel /\ d \in DOMAIN duel_vaults
    BY DEF MoneyInv, VaultInv
  <2> QED
    BY <2>1 DEF MoneyInv, VaultInv, Balanced, Duel
<1>2. /\ duel_vaults' = [duel_vaults EXCEPT ![d] = duel_vaults[d] + duels[d].amount]
      /\ purse' = [purse EXCEPT ![u] = @ + (0 - duels[d].amount)]
      /\ duel_treasury' = duel_treasury /\ duel_rewards' = duel_rewards
  <2>1. purse[u] - duels[d].amount = purse[u] + (0 - duels[d].amount)
    BY <1>1
  <2> QED
    BY <2>1, Zenon DEF AcceptDuel
<1>3. /\ DOMAIN duels' = DOMAIN duels
      /\ \A e \in DOMAIN duels : duels'[e].status = "Active" => duels'[e].rival \in Owners
  <2>1. duels' = [duels EXCEPT ![d] = [duels[d] EXCEPT
                    !.rival = u, !.rival_outcome = o, !.status = "Active"]]
    BY DEF AcceptDuel
  <2>2. [duels[d] EXCEPT !.rival = u, !.rival_outcome = o, !.status = "Active"].rival = u
    BY <1>1 DEF Duel
  <2> QED
    BY <2>1, <2>2 DEF MoneyInv, Balanced
<1>4. /\ duel_vaults[d] + duels[d].amount \in Int /\ 0 - duels[d].amount \in Int
      /\ (duel_vaults[d] + duels[d].amount) - duel_vaults[d] + (0 - duels[d].amount)
           + duel_treasury' - duel_treasury + duel_rewards' - duel_rewards = 0
  BY <1>1, <1>2
<1> QED
  BY <1>1, <1>2, <1>3, <1>4, MovesCancel

\* A duel that ends was, if on, between players.
LEMMA EndedRivals ==
  ASSUME MoneyInv, NEW d \in DOMAIN duels, NEW status \in {"Resolved", "Cancelled"},
         duels' = [duels EXCEPT ![d].status = status]
  PROVE  /\ DOMAIN duels' = DOMAIN duels
         /\ \A e \in DOMAIN duels : duels'[e].status = "Active" => duels'[e].rival \in Owners
<1>1. duels[d] \in Duel
  BY DEF MoneyInv, VaultInv
<1>2. duels' = [duels EXCEPT ![d] = [duels[d] EXCEPT !.status = status]]
  OBVIOUS
<1>3. [duels[d] EXCEPT !.status = status].status # "Active"
  BY <1>1 DEF Duel
<1> QED
  BY <1>2, <1>3 DEF MoneyInv, Balanced

\* Whatever is divided among stakers, treasury and winner leaves the vault.
LEMMA DivideBalances ==
  ASSUME MoneyInv, NEW d \in DOMAIN duels, duels[d].status = "Active",
         NEW x \in Int, NEW y \in Int, NEW z \in Int, NEW s, Divide(d, x, y, z, s),
         duels' = [duels EXCEPT ![d].status = "Resolved"]
  PROVE  Balanced'
<1> DEFINE staked == x > 0 /\ s > 0
<1>1. /\ duel_vaults[d] \in Int /\ duel_treasury \in Int /\ duel_rewards \in Int
      /\ Winner(d) \in Owners
  <2>1. duels[d] \in Duel /\ d \in DOMAIN duel_vaults
    BY DEF MoneyInv, VaultInv
  <2>2. duels[d].creator \in Owners /\ duels[d].rival \in Owners
    BY <2>1 DEF MoneyInv, Balanced, Duel
  <2> QED
    BY <2>1, <2>2 DEF MoneyInv, VaultInv, Balanced, Winner
<1>2. /\ duel_vaults' = [duel_vaults EXCEPT ![d] = duel_vaults[d] - x - y - z]
      /\ duel_rewards' = IF staked THEN duel_rewards + x ELSE duel_rewards
      /\ duel_treasury' = duel_treasury + y + (IF staked THEN 0 ELSE x)
      /\ purse' = [purse EXCEPT ![Winner(d)] = @ + z]
  BY DEF Divide
<1>3. /\ duel_rewards' \in Int /\ duel_treasury' \in Int
      /\ (duel_rewards' - duel_rewards) + (duel_treasury' - duel_treasury) = x + y
  <2> HIDE DEF staked
  <2> QED
    BY <1>1, <1>2
<1>4. /\ duel_vaults[d] - x - y - z \in Int
      /\ (duel_vaults[d] - x - y - z) - duel_vaults[d] + z + duel_treasury' - duel_treasury
           + duel_rewards' - duel_rewards = 0
  BY <1>1, <1>3
<1> QED
  BY <1>1, <1>2, <1>3, <1>4, EndedRivals, MovesCancel

LEMMA ResolvesBalance ==
  ASSUME MoneyInv, NEW d \in DOMAIN duels, NEW u, NEW s,
         ResolveDuelSol(d, s) \/ ResolveProtocolDuel(d, u, s)
  PROVE  Balanced'
<1>1. duels[d].status = "Active" /\ duels' = [duels EXCEPT ![d].status = "Resolved"]
  BY DEF ResolveDuelSol, ResolveProtocolDuel, MayResolve
<1>2. Pot(d) \in Int /\ StakerFee(d) \in Int /\ TreasuryFee(d) \in Int /\ Prize(d) \in Int
      /\ Pot(d) \div 2 \in Int /\ Pot(d) - (Pot(d) \div 2) \in Int
  <2>1. Pot(d) \in Nat
    BY <1>1, PotIsShared DEF MoneyInv
  <2>2. StakerFee(d) \in Nat /\ TreasuryFee(d) \in Nat
    <3>1. STAKER_REWARD_FEE_BPS \in Nat /\ TREASURY_EVENT_FEE_BPS \in Nat
      BY DEF STAKER_REWARD_FEE_BPS, TREASURY_EVENT_FEE_BPS
    <3> QED
      BY <2>1, <3>1, BpsNat DEF StakerFee, TreasuryFee
  <2> QED
    BY <2>1, <2>2 DEF Prize
<1>3. \/ Divide(d, StakerFee(d), TreasuryFee(d), Prize(d), s)
      \/ Divide(d, 0, Pot(d), 0, s)
      \/ Divide(d, Pot(d) \div 2, Pot(d) - (Pot(d) \div 2), 0, s)
  BY DEF ResolveDuelSol, ResolveProtocolDuel
<1> QED
  BY <1>1, <1>2, <1>3, DivideBalances, 0 \in Int

LEMMA CancelDuelBalances ==
  ASSUME MoneyInv, NEW d \in DOMAIN duels, CancelDuel(d)
  PROVE  Balanced'
<1> DEFINE a == duels[d].amount
<1>1. /\ a \in Nat /\ duels[d].creator \in Owners /\ duel_vaults[d] \in Int
      /\ duel_treasury \in Int /\ duel_rewards \in Int
  <2>1. duels[d] \in Duel /\ d \in DOMAIN duel_vaults
    BY DEF MoneyInv, VaultInv
  <2> QED
    BY <2>1 DEF MoneyInv, VaultInv, Balanced, Duel
<1>2. /\ duel_vaults' = [duel_vaults EXCEPT ![d] = duel_vaults[d] - a]
      /\ purse' = [purse EXCEPT ![duels[d].creator] = @ + a]
      /\ duel_treasury' = duel_treasury /\ duel_rewards' = duel_rewards
      /\ duels' = [duels EXCEPT ![d].status = "Cancelled"]
  BY DEF CancelDuel
<1>3. /\ duel_vaults[d] - a \in Int
      /\ (duel_vaults[d] - a) - duel_vaults[d] + a + duel_treasury' - duel_treasury
           + duel_rewards' - duel_rewards = 0
  <2> HIDE DEF a
  <2> QED
    BY <1>1, <1>2
<1>4. /\ DOMAIN duels' = DOMAIN duels
      /\ \A e \in DOMAIN duels : duels'[e].status = "Active" => duels'[e].rival \in Owners
  BY <1>2, EndedRivals
<1>5. a \in Int /\ duel_treasury' \in Int /\ duel_rewards' \in Int
  BY <1>1, <1>2
<1> HIDE DEF a
<1> QED
  BY <1>1, <1>2, <1>3, <1>4, <1>5, MovesCancel

LEMMA MoneyInvKept == MoneyInv /\ [AnyDuelsNext]_allVars => MoneyInv'
<1> SUFFICES ASSUME MoneyInv, [AnyDuelsNext]_allVars PROVE Balanced'
  BY VaultInvKept DEF MoneyInv
<1>1. ASSUME NEW u \in Owners, NEW a \in Stakes, NEW o \in Outcomes, NEW t \in DuelTypes,
             NEW e \in 1..MaxTime, NEW z \in BOOLEAN, CreateDuel(u, a, o, t, e, z)
      PROVE  Balanced'
  BY <1>1, CreateDuelBalances
<1>2. CASE \E d \in DOMAIN duels, u \in Owners, o \in Outcomes, z \in BOOLEAN :
              AcceptDuel(d, u, o, z)
  BY <1>2, AcceptDuelBalances
<1>3. CASE \E d \in DOMAIN duels, s \in Staked : ResolveDuelSol(d, s)
  BY <1>3, ResolvesBalance
<1>4. CASE \E d \in DOMAIN duels, u \in Owners, s \in Staked : ResolveProtocolDuel(d, u, s)
  BY <1>4, ResolvesBalance
<1>5. CASE \E d \in DOMAIN duels : CancelDuel(d)
  BY <1>5, CancelDuelBalances
<1>6. CASE UNCHANGED duelVars
  BY <1>6 DEF duelVars, MoneyInv, Balanced
<1> QED
  BY <1>1, <1>2, <1>3, <1>4, <1>5, <1>6 DEF AnyDuelsNext, DuelStep, allVars

LEMMA MoneyInvStarts == DuelsInit => MoneyInv
<1> SUFFICES ASSUME DuelsInit PROVE MoneyInv
  OBVIOUS
<1>1. VaultInv
  BY DEF DuelsInit, VaultInv
<1>2. DOMAIN purse = Owners /\ \A u \in Owners : purse[u] = 0
  BY DEF DuelsInit
<1>3. SumFunction(purse) = 0
  BY <1>2, MarketKeysAssumption, SumZero DEF SumFunction
<1>4. SumFunction(duel_vaults) = 0
  <2>1. DOMAIN duel_vaults = {}
    BY DEF DuelsInit
  <2> QED
    BY <2>1, SumEmpty DEF SumFunction
<1> QED
  BY <1>1, <1>3, <1>4 DEF DuelsInit, MoneyInv, Balanced

LEMMA MoneyFollows == MoneyInv => DuelMoneyExact
BY ExactFollows DEF MoneyInv, Balanced, DuelMoneyExact

\* For any players and bets, whatever the fees round to and whoever stakes: the
\* money of duels is in the vaults of those that are on, exactly, or was paid to
\* players, the treasury or the stakers (lib.rs, create_duel to cancel_duel).
THEOREM DuelMoneyIsExact == DuelsSpec => []DuelMoneyExact
<1>1. DuelsSpec => []MoneyInv
  BY MoneyInvStarts, MoneyInvKept, DuelsNextIsAny, PTL DEF DuelsSpec
<1> QED
  BY <1>1, MoneyFollows, PTL
-----------------------------------------------------------------------------
\* What a duel counts for in the protocol's exposure while it is on.
LiveExposure(duel) ==
  IF duel.status \in {"Open", "Active"} THEN Exposed(duel.duel_type, duel.amount) ELSE 0
Exposures == [d \in DOMAIN duels |-> LiveExposure(duels[d])]

ExposureInv ==
  /\ duels \in Seq(Duel)
  /\ exposure \in Nat /\ exposure <= MaxExposure
  /\ exposure = SumFunction(Exposures)

LEMMA LiveExposureNat ==
  ASSUME NEW duel \in Duel
  PROVE  LiveExposure(duel) \in Nat
BY DEF Duel, LiveExposure, Exposed

LEMMA ExposuresTyped ==
  ASSUME duels \in Seq(Duel)
  PROVE  /\ IsFiniteSet(DOMAIN duels) /\ DOMAIN Exposures = DOMAIN duels
         /\ \A d \in DOMAIN duels : Exposures[d] = LiveExposure(duels[d]) /\ Exposures[d] \in Nat
<1>1. Len(duels) \in Nat /\ DOMAIN duels = 1..Len(duels)
  OBVIOUS
<1>2. IsFiniteSet(1..Len(duels))
  BY <1>1, FS_Interval
<1>3. IsFiniteSet(DOMAIN duels)
  BY <1>1, <1>2, Zenon
<1>4. ASSUME NEW d \in DOMAIN duels PROVE LiveExposure(duels[d]) \in Nat
  BY LiveExposureNat
<1> QED
  BY <1>3, <1>4 DEF Exposures

\* A duel is replaced: the exposure it counted for is at most the sum, which
\* moves by the difference.
LEMMA ExposureMoves ==
  ASSUME duels \in Seq(Duel), NEW d \in DOMAIN duels, NEW duel \in Duel,
         duels' = [duels EXCEPT ![d] = duel]
  PROVE  /\ duels' \in Seq(Duel)
         /\ LiveExposure(duels[d]) \in Nat /\ LiveExposure(duel) \in Nat
         /\ SumFunction(Exposures) \in Nat
         /\ LiveExposure(duels[d]) <= SumFunction(Exposures)
         /\ SumFunction(Exposures)'
              = SumFunction(Exposures) - LiveExposure(duels[d]) + LiveExposure(duel)
<1> DEFINE D == DOMAIN duels
           f == Exposures
           g == Exposures'
<1>1. /\ duels' \in Seq(Duel) /\ DOMAIN duels' = D
      /\ duels'[d] = duel /\ \A e \in D \ {d} : duels'[e] = duels[e]
  OBVIOUS
<1>2. /\ IsFiniteSet(D) /\ DOMAIN f = D
      /\ \A e \in D : f[e] = LiveExposure(duels[e]) /\ f[e] \in Nat
  BY ExposuresTyped
<1>3. DOMAIN g = D /\ \A e \in D : g[e] = LiveExposure(duels'[e])
  BY <1>1 DEF Exposures
<1>4. LiveExposure(duel) \in Nat
  BY LiveExposureNat
<1>5. /\ \A e \in D \ {d} : f[e] = g[e]
      /\ g[d] = LiveExposure(duel) /\ f[d] = LiveExposure(duels[d])
      /\ \A e \in D : f[e] \in Int /\ g[e] \in Int
  BY <1>1, <1>2, <1>3, <1>4
<1> HIDE DEF D, f, g
<1>6. d \in D
  BY DEF D
<1>7. SumFunctionOnSet(g, D) = SumFunctionOnSet(f, D) - f[d] + g[d]
  BY ONLY <1>2, <1>5, <1>6, SumUpdate
<1>8. f[d] <= SumFunctionOnSet(f, D) /\ SumFunctionOnSet(f, D) \in Nat
  BY ONLY <1>2, <1>6, SumElement, SumNat
<1>9. SumFunction(f) = SumFunctionOnSet(f, D) /\ SumFunction(g) = SumFunctionOnSet(g, D)
  BY <1>2, <1>3 DEF SumFunction
<1>10. /\ f[d] <= SumFunction(f) /\ SumFunction(f) \in Nat /\ f[d] \in Nat
       /\ SumFunction(g) = SumFunction(f) - f[d] + g[d]
  BY <1>2, <1>6, <1>7, <1>8, <1>9
<1> QED
  BY <1>1, <1>4, <1>5, <1>10 DEF f, g

LEMMA CreateDuelExposes ==
  ASSUME ExposureInv, NEW u \in Owners, NEW a \in Stakes, NEW o \in Outcomes,
         NEW t \in DuelTypes, NEW e \in 1..MaxTime, NEW z, CreateDuel(u, a, o, t, e, z)
  PROVE  ExposureInv'
<1> DEFINE duel == [creator |-> u, rival |-> Nobody, amount |-> a,
                    creator_outcome |-> o, rival_outcome |-> "Unresolved",
                    duel_type |-> t, status |-> "Open", expires_ts |-> e]
           n == Len(duels) + 1
           D == DOMAIN duels
           f == Exposures
           g == Exposures'
<1>1. duel \in Duel /\ LiveExposure(duel) = Exposed(t, a)
  BY DuelsAssumption DEF Duel, LiveExposure
<1>2. duels' = Append(duels, duel) /\ exposure' = exposure + Exposed(t, a)
      /\ exposure + Exposed(t, a) <= MaxExposure
  BY DEF CreateDuel, WithinCap
<1>3. LiveExposure(duel) \in Nat
  BY <1>1, LiveExposureNat
<1> HIDE DEF duel
<1>4. /\ duels \in Seq(Duel) /\ duels' \in Seq(Duel) /\ DOMAIN duels' = D \cup {n} /\ n \notin D
      /\ duels'[n] = duel /\ \A d \in D : duels'[d] = duels[d]
  BY <1>1, <1>2 DEF ExposureInv
<1>5. /\ IsFiniteSet(D) /\ DOMAIN f = D
      /\ \A d \in D : f[d] = LiveExposure(duels[d]) /\ f[d] \in Nat
  BY <1>4, ExposuresTyped
<1>6. DOMAIN g = D \cup {n} /\ \A d \in D \cup {n} : g[d] = LiveExposure(duels'[d])
  BY <1>4 DEF Exposures
<1>7. /\ \A d \in D : f[d] = g[d]
      /\ g[n] = LiveExposure(duel)
      /\ \A d \in D \cup {n} : g[d] \in Int
  BY <1>3, <1>4, <1>5, <1>6
<1> HIDE DEF D, f, g, n
<1>8. SumFunctionOnSet(g, D \cup {n}) = SumFunctionOnSet(g, D) + g[n]
  BY ONLY <1>4, <1>5, <1>7, SumInsert
<1>9. SumFunctionOnSet(f, D) = SumFunctionOnSet(g, D)
  BY ONLY <1>5, <1>7, SumSame
<1>10. SumFunction(f) = SumFunctionOnSet(f, D) /\ SumFunction(g) = SumFunctionOnSet(g, D \cup {n})
  <2>1. SumFunction(g) = SumFunctionOnSet(g, DOMAIN g)
    BY DEF SumFunction
  <2>2. SumFunction(f) = SumFunctionOnSet(f, DOMAIN f)
    BY DEF SumFunction
  <2> QED
    BY <1>5, <1>6, <2>1, <2>2, Zenon
<1>11. exposure \in Nat /\ exposure = SumFunction(f)
  BY DEF ExposureInv, f
<1>12. exposure' = SumFunction(g) /\ exposure' \in Nat /\ exposure' <= MaxExposure
  BY <1>1, <1>2, <1>3, <1>7, <1>8, <1>9, <1>10, <1>11
<1> QED
  BY <1>4, <1>12 DEF ExposureInv, g

LEMMA AcceptDuelExposes ==
  ASSUME ExposureInv, NEW d \in DOMAIN duels, NEW u \in Owners, NEW o \in Outcomes, NEW z,
         AcceptDuel(d, u, o, z)
  PROVE  ExposureInv'
<1> DEFINE duel == [duels[d] EXCEPT !.rival = u, !.rival_outcome = o, !.status = "Active"]
<1>1. duels[d] \in Duel /\ duels \in Seq(Duel) /\ duels[d].status = "Open"
  BY DEF ExposureInv, AcceptDuel
<1>2. duel \in Duel /\ LiveExposure(duel) = LiveExposure(duels[d])
  BY <1>1 DEF Duel, LiveExposure
<1>3. duels' = [duels EXCEPT ![d] = duel] /\ exposure' = exposure
  BY DEF AcceptDuel
<1> HIDE DEF duel
<1>4. /\ duels' \in Seq(Duel)
      /\ SumFunction(Exposures)'
           = SumFunction(Exposures) - LiveExposure(duels[d]) + LiveExposure(duel)
      /\ LiveExposure(duels[d]) \in Nat /\ SumFunction(Exposures) \in Nat
  BY <1>1, <1>2, <1>3, ExposureMoves
<1>5. SumFunction(Exposures)' = SumFunction(Exposures)
  BY <1>2, <1>4
<1> QED
  BY <1>3, <1>4, <1>5 DEF ExposureInv

\* A duel that ends releases what it counted for.
LEMMA EndReleases ==
  ASSUME ExposureInv, NEW d \in DOMAIN duels, NEW status \in {"Resolved", "Cancelled"},
         duels[d].status \in {"Open", "Active"},
         duels' = [duels EXCEPT ![d].status = status],
         exposure' = IF duels[d].duel_type = "OneVOneVProtocol"
                       THEN Released(duels[d].amount) ELSE exposure
  PROVE  ExposureInv'
<1> DEFINE duel == [duels[d] EXCEPT !.status = status]
<1>1. duels[d] \in Duel /\ duels \in Seq(Duel)
  BY DEF ExposureInv
<1>2. duel \in Duel /\ LiveExposure(duel) = 0
  BY <1>1 DEF Duel, LiveExposure
<1>3. duels' = [duels EXCEPT ![d] = duel]
  OBVIOUS
<1> HIDE DEF duel
<1>4. /\ duels' \in Seq(Duel)
      /\ SumFunction(Exposures)'
           = SumFunction(Exposures) - LiveExposure(duels[d]) + LiveExposure(duel)
      /\ LiveExposure(duels[d]) \in Nat /\ SumFunction(Exposures) \in Nat
      /\ LiveExposure(duels[d]) <= SumFunction(Exposures)
  BY <1>1, <1>2, <1>3, ExposureMoves
<1>5. /\ exposure = SumFunction(Exposures) /\ exposure \in Nat /\ exposure <= MaxExposure
      /\ duels[d].amount \in Nat
  BY <1>1 DEF ExposureInv, Duel
<1>6. LiveExposure(duels[d]) = IF duels[d].duel_type = "OneVOneVProtocol"
                                 THEN duels[d].amount ELSE 0
  BY DEF LiveExposure, Exposed
<1>7. exposure' = exposure - LiveExposure(duels[d])
  <2>1. CASE duels[d].duel_type = "OneVOneVProtocol"
    BY <1>4, <1>5, <1>6, <2>1 DEF Released
  <2>2. CASE duels[d].duel_type # "OneVOneVProtocol"
    BY <1>5, <1>6, <2>2
  <2> QED
    BY <2>1, <2>2
<1>8. /\ exposure' = SumFunction(Exposures)' /\ exposure' \in Nat /\ exposure' <= MaxExposure
  BY <1>2, <1>4, <1>5, <1>7, DuelsAssumption
<1> QED
  BY <1>4, <1>8 DEF ExposureInv

LEMMA ExposureInvKept == ExposureInv /\ [AnyDuelsNext]_allVars => ExposureInv'
<1> SUFFICES ASSUME ExposureInv, [AnyDuelsNext]_allVars PROVE ExposureInv'
  OBVIOUS
<1>1. ASSUME NEW u \in Owners, NEW a \in Stakes, NEW o \in Outcomes, NEW t \in DuelTypes,
             NEW e \in 1..MaxTime, NEW z \in BOOLEAN, CreateDuel(u, a, o, t, e, z)
      PROVE  ExposureInv'
  BY <1>1, CreateDuelExposes
<1>2. CASE \E d \in DOMAIN duels, u \in Owners, o \in Outcomes, z \in BOOLEAN :
              AcceptDuel(d, u, o, z)
  BY <1>2, AcceptDuelExposes
<1>3. CASE \E d \in DOMAIN duels, s \in Staked : ResolveDuelSol(d, s)
  BY <1>3, EndReleases DEF ResolveDuelSol, MayResolve
<1>4. CASE \E d \in DOMAIN duels, u \in Owners, s \in Staked : ResolveProtocolDuel(d, u, s)
  BY <1>4, EndReleases DEF ResolveProtocolDuel, MayResolve
<1>5. CASE \E d \in DOMAIN duels : CancelDuel(d)
  BY <1>5, EndReleases DEF CancelDuel, ReleasedByCancel
<1>6. CASE UNCHANGED duelVars
  BY <1>6 DEF duelVars, ExposureInv, Exposures
<1> QED
  BY <1>1, <1>2, <1>3, <1>4, <1>5, <1>6 DEF AnyDuelsNext, DuelStep, allVars

LEMMA ExposureInvStarts == DuelsInit => ExposureInv
<1> SUFFICES ASSUME DuelsInit PROVE ExposureInv
  OBVIOUS
<1>1. DOMAIN Exposures = {} /\ exposure = 0 /\ duels = << >>
  BY DEF DuelsInit, Exposures
<1>2. SumFunction(Exposures) = 0
  BY <1>1, SumEmpty DEF SumFunction
<1> QED
  BY <1>1, <1>2, DuelsAssumption DEF ExposureInv

LEMMA ExposureFollows == ExposureInv => ExposureIsLive
BY DEF ExposureInv, ExposureIsLive, Exposures, LiveExposure

\* For any cap, bets and number of duels: the exposure counted against the cap
\* is that of the protocol's duels that are on, so the saturating subtraction of
\* a release never saturates, and it never exceeds the cap (lib.rs, SC-03).
THEOREM ExposureIsExact == DuelsSpec => []ExposureIsLive
<1>1. DuelsSpec => []ExposureInv
  BY ExposureInvStarts, ExposureInvKept, DuelsNextIsAny, PTL DEF DuelsSpec
<1> QED
  BY <1>1, ExposureFollows, PTL

-----------------------------------------------------------------------------
(* The mint ratio                                                            *)

\* The number of samples the ring holds.
N == SnapshotCount
Sample == [ts : Nat, supply : Nat]
Twap ==
  [exists : BOOLEAN, snapshots : [1..N -> Nat], count : Nat, next_index : Nat,
   last_snapshot_ts : Nat]

TwapTyped ==
  /\ twap \in Twap
  /\ taken \in Seq(Sample)
  /\ ~twap.exists => twap = NoTwap /\ taken = << >>

\* The latest sample is in the slot before the next one, the others go back
\* from it, around the ring.
Ring ==
  /\ twap.next_index \in 0..(N - 1)
  /\ Len(taken) < N =>
       /\ twap.count = Len(taken) /\ twap.next_index = Len(taken)
       /\ \A i \in 1..Len(taken) : twap.snapshots[i] = taken[i].supply
  /\ Len(taken) >= N =>
       /\ twap.count = N
       /\ \A i \in 1..N :
            IF i <= twap.next_index
            THEN twap.snapshots[i] = taken[Len(taken) - twap.next_index + i].supply
            ELSE twap.snapshots[i] = taken[Len(taken) - twap.next_index - N + i].supply

Spaced ==
  /\ \A i \in DOMAIN taken : taken[i].ts <= now
  /\ taken # << >> => twap.last_snapshot_ts = taken[Len(taken)].ts
  /\ \A i \in 2..Len(taken) : taken[i].ts - taken[i - 1].ts >= SnapshotInterval

RingInv == now \in Nat /\ TwapTyped /\ Ring /\ Spaced

LEMMA SupplyNumbers == N \in Nat \ {0} /\ SnapshotInterval \in Nat \ {0}
BY SupplyAssumption DEF N

\* The slot after next_index, without the remainder.
LEMMA NextSlot ==
  ASSUME NEW i \in 0..(N - 1)
  PROVE  (i + 1) % N = IF i + 1 = N THEN 0 ELSE i + 1
<1>1. ASSUME NEW m \in Nat \ {0}, NEW k \in 0..m
      PROVE  k % m = IF k = m THEN 0 ELSE k
  OBVIOUS
<1> QED
  BY <1>1, SupplyNumbers

LEMMA SnapshotKeepsRing ==
  ASSUME RingInv, RecordSupplySnapshot, UNCHANGED now,
         InstantaneousCirculatingSupply \in Nat
  PROVE  RingInv'
<1> DEFINE L == Len(taken)
           new == [ts |-> now, supply |-> InstantaneousCirculatingSupply]
           n == twap.next_index
<1>1. /\ L \in Nat /\ new \in Sample /\ taken' = Append(taken, new)
      /\ n \in 0..(N - 1) /\ twap.count \in Nat /\ twap.exists
  BY DEF RingInv, TwapTyped, Ring, Twap, RecordSupplySnapshot, MaySnapshot, Sample
<1>2. /\ taken' \in Seq(Sample) /\ Len(taken') = L + 1
      /\ taken'[L + 1] = new
      /\ \A i \in 1..L : taken'[i] = taken[i]
  BY <1>1 DEF RingInv, TwapTyped
<1>3. /\ twap'.snapshots = [twap.snapshots EXCEPT ![n + 1] = InstantaneousCirculatingSupply]
      /\ twap'.next_index = (n + 1) % N
      /\ twap'.count = IF twap.count < N THEN twap.count + 1 ELSE twap.count
      /\ twap'.last_snapshot_ts = now
      /\ twap'.exists
      /\ twap' = [exists |-> twap'.exists, snapshots |-> twap'.snapshots,
                  count |-> twap'.count, next_index |-> twap'.next_index,
                  last_snapshot_ts |-> twap'.last_snapshot_ts]
  BY <1>1 DEF RecordSupplySnapshot, RingInv, TwapTyped, Twap, N
<1>4. /\ twap'.next_index = IF n + 1 = N THEN 0 ELSE n + 1
      /\ twap'.next_index \in 0..(N - 1)
  BY <1>1, <1>3, NextSlot, SupplyNumbers
<1>5. /\ twap'.snapshots \in [1..N -> Nat]
      /\ twap'.snapshots[n + 1] = new.supply
      /\ \A i \in 1..N : i # n + 1 => twap'.snapshots[i] = twap.snapshots[i]
  BY <1>1, <1>3, SupplyNumbers DEF RingInv, TwapTyped, Twap
<1>6. TwapTyped'
  <2>1. twap'.count \in Nat /\ twap'.last_snapshot_ts \in Nat
    BY <1>1, <1>3 DEF RingInv
  <2>2. twap'.next_index \in Nat /\ twap'.exists \in BOOLEAN
    BY <1>3, <1>4, SupplyNumbers
  <2>3. twap' \in Twap
    BY ONLY <1>3, <1>5, <2>1, <2>2 DEF Twap
  <2> QED
    BY <1>2, <1>3, <2>3 DEF TwapTyped, Sample, Twap, N
<1>7. Ring'
  <2> DEFINE m == twap'.next_index
  <2>1. CASE L + 1 < N
    <3>1. /\ twap.count = L /\ n = L
          /\ \A i \in 1..L : twap.snapshots[i] = taken[i].supply
      BY <2>1, <1>1, SupplyNumbers DEF RingInv, Ring
    <3>2. twap'.count = L + 1 /\ m = L + 1
      BY <3>1, <2>1, <1>1, <1>3, <1>4, SupplyNumbers
    <3>3. \A i \in 1..(L + 1) : twap'.snapshots[i] = taken'[i].supply
      BY <3>1, <2>1, <1>1, <1>2, <1>5, SupplyNumbers
    <3> QED
      BY <3>2, <3>3, <2>1, <1>1, <1>2, <1>4, SupplyNumbers DEF Ring, N
  <2>2. CASE L + 1 = N
    <3>1. /\ twap.count = L /\ n = L
          /\ \A i \in 1..L : twap.snapshots[i] = taken[i].supply
      BY <2>2, <1>1, SupplyNumbers DEF RingInv, Ring
    <3>2. twap'.count = N /\ m = 0
      BY <3>1, <2>2, <1>1, <1>3, <1>4, SupplyNumbers
    <3>3. \A i \in 1..N : twap'.snapshots[i] = taken'[i].supply
      BY <3>1, <2>2, <1>1, <1>2, <1>5, SupplyNumbers
    <3>4. \A i \in 1..N : ~(i <= m) /\ Len(taken') - m - N + i = i
      BY <3>2, <2>2, <1>2, SupplyNumbers
    <3> QED
      BY <3>2, <3>3, <3>4, <2>2, <1>1, <1>2, <1>4, SupplyNumbers DEF Ring, N
  <2>3. CASE L >= N
    <3>1. /\ twap.count = N
          /\ \A i \in 1..N :
               IF i <= n THEN twap.snapshots[i] = taken[L - n + i].supply
               ELSE twap.snapshots[i] = taken[L - n - N + i].supply
      BY <2>3 DEF RingInv, Ring
    <3>2. twap'.count = N
      BY <3>1, <1>3, SupplyNumbers
    <3>3. ASSUME NEW i \in 1..N
          PROVE  IF i <= m THEN twap'.snapshots[i] = taken'[L + 1 - m + i].supply
                 ELSE twap'.snapshots[i] = taken'[L + 1 - m - N + i].supply
      <4> HIDE DEF L, new, n, m
      <4>1. CASE i = n + 1 /\ n + 1 < N
        <5>1. m = n + 1 /\ i <= m /\ L + 1 - m + i = L + 1
          BY <4>1, <1>1, <1>4, SupplyNumbers DEF m
        <5> QED
          BY <5>1, <4>1, <1>2, <1>5
      <4>2. CASE i = n + 1 /\ n + 1 = N
        <5>1. m = 0 /\ ~(i <= m) /\ L + 1 - m - N + i = L + 1
          BY <4>2, <1>1, <1>4, SupplyNumbers DEF m
        <5> QED
          BY <5>1, <4>2, <1>2, <1>5
      <4>3. CASE i <= n
        <5>1. twap'.snapshots[i] = taken[L - n + i].supply /\ L - n + i \in 1..L
          BY <4>3, <3>1, <2>3, <1>1, <1>5, SupplyNumbers
        <5>2. IF i <= m THEN L + 1 - m + i = L - n + i ELSE L + 1 - m - N + i = L - n + i
          BY <4>3, <1>1, <1>4, SupplyNumbers DEF m
        <5> QED
          BY <5>1, <5>2, <1>2
      <4>4. CASE i > n + 1
        <5>1. twap'.snapshots[i] = taken[L - n - N + i].supply /\ L - n - N + i \in 1..L
          BY <4>4, <3>1, <2>3, <1>1, <1>5, SupplyNumbers
        <5>2. ~(i <= m) /\ L + 1 - m - N + i = L - n - N + i
          BY <4>4, <1>1, <1>4, SupplyNumbers DEF m
        <5> QED
          BY <5>1, <5>2, <1>2
      <4>5. n \in Nat /\ i \in Nat /\ n + 1 <= N /\ N \in Nat
        BY <1>1, SupplyNumbers
      <4> QED
        BY <4>1, <4>2, <4>3, <4>4, <4>5
    <3>4. Len(taken') >= N /\ ~(Len(taken') < N)
      BY <1>1, <1>2, <2>3, SupplyNumbers
    <3>5. ASSUME NEW i \in 1..N
          PROVE  IF i <= m THEN twap'.snapshots[i] = taken'[Len(taken') - m + i].supply
                 ELSE twap'.snapshots[i] = taken'[Len(taken') - m - N + i].supply
      <4>1. L + 1 - m + i = Len(taken') - m + i /\ L + 1 - m - N + i = Len(taken') - m - N + i
        <5>1. /\ L \in Nat /\ Len(taken') = L + 1 /\ m \in Int /\ i \in Int /\ N \in Int
          BY <1>1, <1>2, <1>4, SupplyNumbers
        <5> HIDE DEF L, m
        <5> QED
          BY ONLY <5>1
      <4> QED
        BY <3>3, <4>1
    <3> QED
      BY ONLY <3>2, <3>4, <3>5, <1>4 DEF Ring, N
  <2> QED
    BY <2>1, <2>2, <2>3, <1>1, SupplyNumbers
<1>8. Spaced'
  <2>1. now >= twap.last_snapshot_ts + SnapshotInterval
    BY DEF RecordSupplySnapshot, MaySnapshot
  <2>2. ASSUME NEW i \in 1..(L + 1) PROVE taken'[i].ts <= now
    BY <1>1, <1>2 DEF RingInv, Spaced
  <2>3. ASSUME NEW i \in 2..(L + 1) PROVE taken'[i].ts - taken'[i - 1].ts >= SnapshotInterval
    <3>1. CASE i = L + 1
      <4>1. L \in 1..L /\ i - 1 = L
        BY <3>1, <1>1
      <4>2. taken # << >> /\ taken[L] \in Sample
        BY <4>1 DEF RingInv, TwapTyped
      <4>3. taken[L].ts \in Nat
        BY <4>2 DEF Sample
      <4>4. taken'[i] = new /\ taken'[i - 1] = taken[L]
        BY <3>1, <4>1, <1>2
      <4> QED
        BY <4>2, <4>3, <4>4, <2>1, SupplyNumbers DEF RingInv, Spaced
    <3>2. CASE i # L + 1
      <4>1. i \in 2..L /\ i - 1 \in 1..L
        BY <3>2, <1>1
      <4> QED
        BY <4>1, <1>2 DEF RingInv, Spaced
    <3> QED
      BY <3>1, <3>2
  <2> QED
    BY <2>2, <2>3, <1>2, <1>3, <1>1 DEF Spaced
<1> QED
  BY <1>6, <1>7, <1>8 DEF RingInv
-----------------------------------------------------------------------------
\* The mean of naturals is one.
LEMMA MeanNat ==
  ASSUME NEW n \in Nat \ {0}, NEW s \in [1..n -> Nat]
  PROVE  Len(s) = n /\ Mean(s) \in Nat
<1>1. Len(s) = n /\ DOMAIN s = 1..n
  OBVIOUS
<1>2. SumFunctionOnSet(s, 1..n) \in Nat
  <2>1. IsFiniteSet(1..n)
    BY 1 \in Int, n \in Int, FS_Interval
  <2>2. \A x \in 1..n : s[x] \in Nat
    OBVIOUS
  <2> QED
    BY ONLY <2>1, <2>2, SumNat
<1>3. SumFunction(s) \in Nat
  BY <1>1, <1>2 DEF SumFunction
<1>4. ASSUME NEW a \in Nat PROVE a \div n \in Nat
  OBVIOUS
<1> QED
  BY <1>1, <1>3, <1>4 DEF Mean

LEMMA WindowTyped ==
  ASSUME taken \in Seq(Sample), NEW k \in 1..Len(taken)
  PROVE  \E n \in Nat \ {0} : Window(k) \in [1..n -> Nat]
<1> DEFINE from == IF k > N THEN k - N + 1 ELSE 1
<1>1. from \in 1..k /\ k - from + 1 \in Nat \ {0}
  BY SupplyNumbers
<1>2. \A i \in 1..(k - from + 1) : taken[from + i - 1].supply \in Nat
  <2> SUFFICES ASSUME NEW i \in 1..(k - from + 1) PROVE taken[from + i - 1].supply \in Nat
    OBVIOUS
  <2>1. from + i - 1 \in 1..Len(taken)
    <3> HIDE DEF from
    <3> QED
      BY <1>1
  <2>2. taken[from + i - 1] \in Sample
    BY <2>1
  <2> QED
    BY <2>2 DEF Sample
<1>3. Window(k) = [i \in 1..(k - from + 1) |-> taken[from + i - 1].supply]
  BY DEF Window, N
<1> HIDE DEF from
<1> QED
  BY <1>1, <1>2, <1>3

\* The average of the ring is that of the latest samples, wherever it has wrapped.
LEMMA RingIsWindow ==
  ASSUME RingInv, taken # << >>
  PROVE  /\ twap.count > 0
         /\ Average = Mean(Window(Len(taken)))
         /\ Average \in Nat
<1> DEFINE L == Len(taken)
           n == twap.next_index
           ring == SubSeq(twap.snapshots, 1, twap.count)
           window == Window(L)
<1>1. /\ L \in Nat \ {0} /\ n \in 0..(N - 1) /\ twap.snapshots \in [1..N -> Nat]
      /\ \A i \in 1..L : taken[i].supply \in Nat
  <2>1. \A i \in 1..L : taken[i] \in Sample
    BY DEF RingInv, TwapTyped
  <2> QED
    BY <2>1 DEF RingInv, TwapTyped, Twap, Ring, Sample
<1>2. twap.count \in 1..N /\ twap.count = IF L < N THEN L ELSE N
  BY <1>1, SupplyNumbers DEF RingInv, Ring
<1>3. ring = [i \in 1..twap.count |-> twap.snapshots[i]]
  <2>2. ring \in Seq(Nat) /\ Len(ring) = twap.count /\ \A i \in 1..twap.count : ring[i] = twap.snapshots[i]
    <3> DEFINE s == twap.snapshots
               m == twap.count
    <3>1. 1 \in Int /\ m \in 1..N /\ m \in Int /\ (\A i \in 1..m : s[i] \in Nat) /\ m - 1 + 1 = m
      BY <1>1, <1>2, SupplyNumbers
    <3> HIDE DEF s, m
    <3>2. /\ SubSeq(s, 1, m) \in Seq(Nat)
          /\ Len(SubSeq(s, 1, m)) = IF 1 <= m THEN m - 1 + 1 ELSE 0
          /\ \A i \in 1..m : SubSeq(s, 1, m)[i] = s[1 + i - 1]
      BY <3>1, SubSeqProperties
    <3>3. 1 <= m /\ \A i \in 1..m : 1 + i - 1 = i
      BY <3>1, SupplyNumbers
    <3>4. /\ SubSeq(s, 1, m) \in Seq(Nat) /\ Len(SubSeq(s, 1, m)) = m
          /\ \A i \in 1..m : SubSeq(s, 1, m)[i] = s[i]
      BY <3>1, <3>2, <3>3
    <3> QED
      BY <3>4 DEF s, m
  <2> QED
    BY <2>2
<1>4. window = [i \in 1..(IF L < N THEN L ELSE N) |->
                  taken[(IF L < N THEN 0 ELSE L - N) + i].supply]
  <2> DEFINE from == IF L > N THEN L - N + 1 ELSE 1
  <2>1. window = [i \in 1..(L - from + 1) |-> taken[from + i - 1].supply]
    BY DEF Window, N
  <2>2. L - from + 1 = (IF L < N THEN L ELSE N)
    <3>1. L \in Nat /\ N \in Nat
      BY <1>1, SupplyNumbers
    <3> HIDE DEF L
    <3> QED
      BY ONLY <3>1
  <2>3. \A i \in 1..(L - from + 1) : from + i - 1 = (IF L < N THEN 0 ELSE L - N) + i
    BY <1>1, SupplyNumbers
  <2> HIDE DEF from
  <2> QED
    BY <2>1, <2>2, <2>3
<1>5. Mean(ring) = Mean(window)
  <2>1. CASE L < N
    <3>1. \A i \in 1..L : twap.snapshots[i] = taken[i].supply /\ 0 + i = i
      BY <2>1, <1>1 DEF RingInv, Ring
    <3>2. ring = [i \in 1..L |-> taken[i].supply] /\ window = [i \in 1..L |-> taken[i].supply]
      BY <2>1, <3>1, <1>2, <1>3, <1>4
    <3> QED
      BY <3>2
  <2>2. CASE L >= N
    <3> DEFINE h == [i \in 1..N |-> IF i <= n THEN N - n + i ELSE i - n]
    <3>1. /\ ring = [i \in 1..N |-> twap.snapshots[i]]
          /\ window = [i \in 1..N |-> taken[(L - N) + i].supply]
      BY <2>2, <1>1, <1>2, <1>3, <1>4, SupplyNumbers
    <3>2. /\ h \in [1..N -> 1..N]
          /\ \A x, y \in 1..N : h[x] = h[y] => x = y
          /\ \A u \in 1..N : \E x \in 1..N : h[x] = u
      <4>1. h \in [1..N -> 1..N]
        BY <1>1, SupplyNumbers
      <4>2. \A x, y \in 1..N : h[x] = h[y] => x = y
        BY <1>1, SupplyNumbers
      <4>3. ASSUME NEW u \in 1..N PROVE \E x \in 1..N : h[x] = u
        <5>1. CASE u + n <= N
          <6>1. u + n \in 1..N /\ h[u + n] = u
            BY <5>1, <1>1, SupplyNumbers
          <6> QED
            BY <6>1
        <5>2. CASE u + n > N
          <6>1. u + n - N \in 1..N /\ h[u + n - N] = u
            BY <5>2, <1>1, SupplyNumbers
          <6> QED
            BY <6>1
        <5> QED
          BY <5>1, <5>2, <1>1, SupplyNumbers
      <4> QED
        BY <4>1, <4>2, <4>3
    <3>3. ASSUME NEW i \in 1..N PROVE ring[i] \in Int /\ ring[i] = window[h[i]]
      <4>1. ring[i] = twap.snapshots[i] /\ ring[i] \in Int
        <5>1. twap.snapshots[i] \in Nat
          BY <1>1
        <5> HIDE DEF ring
        <5> QED
          BY <3>1, <5>1
      <4>2. window[h[i]] = taken[(L - N) + h[i]].supply
        BY <3>1, <3>2
      <4>3. IF i <= n THEN twap.snapshots[i] = taken[L - n + i].supply
            ELSE twap.snapshots[i] = taken[L - n - N + i].supply
        BY <2>2 DEF RingInv, Ring
      <4>4. (L - N) + h[i] = IF i <= n THEN L - n + i ELSE L - n - N + i
        BY <1>1, SupplyNumbers
      <4> HIDE DEF ring, window, h
      <4> QED
        BY <4>1, <4>2, <4>3, <4>4
    <3>4. SumFunctionOnSet(ring, 1..N) = SumFunctionOnSet(window, 1..N)
      <4> DEFINE S == 1..N
      <4>1. IsFiniteSet(S)
        <5>1. N \in Int
          BY SupplyNumbers
        <5> QED
          BY <5>1, 1 \in Int, FS_Interval
      <4>2. h \in [S -> S]
        BY <3>2
      <4>3. \A x, y \in S : h[x] = h[y] => x = y
        BY <3>2
      <4>4. \A u \in S : \E x \in S : h[x] = u
        BY <3>2
      <4>5. \A x \in S : ring[x] \in Int /\ ring[x] = window[h[x]]
        BY <3>3
      <4> HIDE DEF ring, window, h, S
      <4>6. SumFunctionOnSet(ring, S) = SumFunctionOnSet(window, S)
        BY ONLY <4>1, <4>2, <4>3, <4>4, <4>5, SumMoved
      <4> QED
        BY <4>6 DEF S
    <3>5. DOMAIN ring = 1..N /\ DOMAIN window = 1..N /\ Len(ring) = N /\ Len(window) = N
      <4>1. ASSUME NEW f PROVE Len([i \in 1..N |-> f[i]]) = N /\ DOMAIN [i \in 1..N |-> f[i]] = 1..N
        BY SupplyNumbers
      <4>2. ring = [i \in 1..N |-> ring[i]] /\ window = [i \in 1..N |-> window[i]]
        <5> HIDE DEF ring, window
        <5> QED
          BY <3>1
      <4> HIDE DEF ring, window
      <4> QED
        BY <4>1, <4>2
    <3> QED
      BY <3>4, <3>5 DEF Mean, SumFunction
  <2> QED
    BY <2>1, <2>2, <1>1, SupplyNumbers
<1>6. Mean(ring) \in Nat
  <2>1. twap.count \in Nat \ {0} /\ \A i \in 1..twap.count : twap.snapshots[i] \in Nat
    BY <1>1, <1>2, SupplyNumbers
  <2> HIDE DEF ring
  <2>2. ring \in [1..twap.count -> Nat]
    BY <1>3, <2>1
  <2> QED
    BY <2>1, <2>2, MeanNat
<1> QED
  BY <1>2, <1>5, <1>6 DEF Average
-----------------------------------------------------------------------------
\* What the supply is made of. There are always at least no LYNX.
SupplyTyped ==
  /\ elsewhere = [supply |-> elsewhere.supply, burned |-> elsewhere.burned]
  /\ elsewhere.supply \in Int /\ elsewhere.burned \in Int
  /\ duel_lynx \in Int

LEMMA SupplyNat ==
  ASSUME IInv, SupplyTyped
  PROVE  InstantaneousCirculatingSupply \in Nat
<1>1. SumFunction(minted) \in Nat
  <2>1. minted \in [Positions -> Nat]
    BY DEF IInv, TypeOK
  <2>2. DOMAIN minted = Positions /\ \A p \in Positions : minted[p] \in Nat
    BY <2>1
  <2> QED
    BY <2>2, FinitelyManyPositions, SumNat DEF SumFunction
<1>2. (IF Exists THEN market.burned_lynx ELSE 0) \in Nat
  <2>1. CASE Exists
    BY <2>1, Typed DEF IInv, Market
  <2> QED
    BY <2>1
<1>3. TotalLynxSupply \in Int /\ TotalLynxBurned \in Int
  BY <1>1, <1>2 DEF SupplyTyped, TotalLynxSupply, TotalLynxBurned
<1> QED
  BY <1>3 DEF InstantaneousCirculatingSupply

\* A supply has a tier, and a tier a ratio at which LYNX may be minted.
LEMMA RatioPositive ==
  ASSUME NEW supply \in Nat
  PROVE  RatioForCirculating(supply) \in Nat \ {0}
<1>1. ASSUME NEW a \in Nat, NEW b \in Nat \ {0} PROVE a \div b \in Nat
  OBVIOUS
<1> DEFINE tier == (supply \div MicroLynxPerLynx) \div TierWidth + 1
<1>2. tier \in Nat \ {0}
  BY <1>1, SupplyAssumption
<1> HIDE DEF tier
<1>3. (IF tier < 11 THEN tier ELSE 11) \in 1..11
  BY <1>2
<1>4. \A i \in 1..11 : MintRatios[i] \in Nat \ {0}
  BY DEF MintRatios
<1>5. MintRatios[IF tier < 11 THEN tier ELSE 11] \in Nat \ {0}
  BY <1>3, <1>4
<1> QED
  BY <1>5 DEF RatioForCirculating, tier

LEMMA RatioIsPositive ==
  ASSUME IInv, SupplyTyped, RingInv
  PROVE  MintRatioBpsTwap \in Nat \ {0}
<1>1. twap.count > 0 => Average \in Nat
  <2>1. taken = << >> => ~(twap.count > 0)
    BY SupplyNumbers DEF RingInv, Ring
  <2> QED
    BY <2>1, RingIsWindow
<1> QED
  BY <1>1, SupplyNat, RatioPositive DEF MintRatioBpsTwap

\* The ratio of the latest window, once there is a sample.
LEMMA RatioOfWindow ==
  ASSUME RingInv, taken # << >>
  PROVE  MintRatioBpsTwap = RatioForCirculating(Mean(Window(Len(taken))))
BY RingIsWindow DEF MintRatioBpsTwap
-----------------------------------------------------------------------------
\* What the oracle's proposal froze: the ratio of the samples there were.
Proposed == market.status = "PendingResolution"
Ruled == market.status = "Resolved" /\ market.resolved_by = Oracle
FrozenOf(k, ratio) == k = 0 \/ ratio = RatioForCirculating(Mean(Window(k)))

FrozenInv ==
  /\ Proposed \/ Ruled => market.proposed_ts <= now
  /\ Proposed /\ IsSol =>
       \E k \in CountedAt(market.proposed_ts) : FrozenOf(k, market.mint_ratio_snapshot_bps)
  /\ Ruled /\ IsSol =>
       \E k \in CountedAt(market.proposed_ts) : FrozenOf(k, market.mint_ratio_bps)

TwapInv == DuelInv /\ RingInv /\ SupplyTyped /\ FrozenInv

LEMMA TwapInvStarts == SupplyInit => TwapInv
<1> SUFFICES ASSUME SupplyInit PROVE TwapInv
  OBVIOUS
<1>1. DuelInv
  BY DuelInitHolds DEF SupplyInit
<1>2. RingInv
  <2>1. twap = NoTwap /\ taken = << >> /\ now = 1
    BY DEF SupplyInit, DuelsInit, Init
  <2>2. NoTwap \in Twap
    BY SupplyNumbers DEF NoTwap, Twap, N
  <2>3. Ring
    BY <2>1, SupplyNumbers DEF Ring, NoTwap, N
  <2> QED
    BY <2>1, <2>2, <2>3 DEF RingInv, TwapTyped, Spaced
<1>3. SupplyTyped
  BY SupplyAssumption DEF SupplyInit, DuelsInit, SupplyTyped
<1>4. FrozenInv
  BY DEF SupplyInit, DuelsInit, Init, NoMarket, FrozenInv, Proposed, Ruled
<1> QED
  BY <1>1, <1>2, <1>3, <1>4 DEF TwapInv

\* A sample taken since does not change which samples counted, nor their mean.
LEMMA StillCounted ==
  ASSUME taken \in Seq(Sample), NEW sample \in Sample, taken' = Append(taken, sample),
         NEW t, t <= sample.ts, NEW k \in CountedAt(t)
  PROVE  k \in CountedAt(t)' /\ Window(k)' = Window(k)
<1>1. /\ k \in 0..Len(taken)
      /\ \A i \in 1..k : taken[i].ts <= t
      /\ \A i \in (k + 1)..Len(taken) : taken[i].ts >= t
  BY DEF CountedAt
<1>2. /\ Len(taken') = Len(taken) + 1 /\ Len(taken) \in Nat
      /\ taken'[Len(taken) + 1] = sample
      /\ \A i \in 1..Len(taken) : taken'[i] = taken[i]
  OBVIOUS
<1>3. k \in CountedAt(t)'
  <2>1. \A i \in 1..k : taken'[i].ts <= t
    BY <1>1, <1>2
  <2>2. ASSUME NEW i \in (k + 1)..(Len(taken) + 1) PROVE taken'[i].ts >= t
    <3>1. CASE i = Len(taken) + 1
      <4>1. sample.ts \in Nat /\ taken'[i] = sample
        BY <3>1, <1>2 DEF Sample
      <4> QED
        BY <4>1
    <3>2. CASE i # Len(taken) + 1
      <4>1. i \in (k + 1)..Len(taken) /\ i \in 1..Len(taken)
        BY <3>2, <1>1, <1>2
      <4> QED
        BY <4>1, <1>1, <1>2
    <3> QED
      BY <3>1, <3>2
  <2>3. k \in 0..Len(taken')
    BY <1>1, <1>2
  <2> QED
    BY <2>1, <2>2, <2>3, <1>2 DEF CountedAt
<1>4. Window(k)' = Window(k)
  <2> DEFINE from == IF k > SnapshotCount THEN k - SnapshotCount + 1 ELSE 1
  <2>1. \A i \in 1..(k - from + 1) : from + i - 1 \in 1..Len(taken)
    <3>1. k \in Int /\ SnapshotCount \in Nat \ {0} /\ k <= Len(taken)
      BY <1>1, <1>2, SupplyNumbers DEF N
    <3>2. from \in Nat \ {0}
      BY <3>1
    <3> HIDE DEF from
    <3> QED
      BY <3>1, <3>2, <1>2
  <2>2. /\ Window(k) = [i \in 1..(k - from + 1) |-> taken[from + i - 1].supply]
        /\ Window(k)' = [i \in 1..(k - from + 1) |-> taken'[from + i - 1].supply]
    BY DEF Window
  <2> HIDE DEF from
  <2> QED
    BY <2>1, <2>2, <1>2
<1> QED
  BY <1>3, <1>4

\* What is frozen stays so while the market rests, whatever is sampled.
LEMMA SamplesKeepFrozen ==
  ASSUME TwapInv, UNCHANGED <<now, market>>, NEW sample \in Sample, sample.ts = now,
         taken' = taken \/ taken' = Append(taken, sample)
  PROVE  FrozenInv'
<1>1. CASE taken' = taken
  BY <1>1 DEF TwapInv, FrozenInv, Proposed, Ruled, FrozenOf, CountedAt, Window, IsSol
<1>2. CASE taken' = Append(taken, sample)
  <2> DEFINE t == market.proposed_ts
  <2>1. taken \in Seq(Sample)
    BY DEF TwapInv, RingInv, TwapTyped
  <2>2. ASSUME NEW k \in CountedAt(t), NEW ratio, FrozenOf(k, ratio), t <= now
        PROVE  k \in CountedAt(t)' /\ FrozenOf(k, ratio)'
    <3>1. PICK u : u = t
      OBVIOUS
    <3>2. k \in CountedAt(u)' /\ Window(k)' = Window(k)
      BY <3>1, <2>1, <2>2, <1>2, StillCounted
    <3>3. u = t'
      BY <3>1
    <3>4. Mean(Window(k))' = Mean(Window(k))
      BY <3>2 DEF Mean
    <3>5. FrozenOf(k, ratio)'
      BY <3>4, <2>2 DEF FrozenOf, RatioForCirculating
    <3>6. CountedAt(u)' = CountedAt(t)'
      BY <3>3 DEF CountedAt
    <3> QED
      BY <3>2, <3>5, <3>6
  <2>3. t <= now \/ ~(Proposed \/ Ruled)
    BY DEF TwapInv, FrozenInv
  <2>4. UNCHANGED <<Proposed, Ruled, IsSol, market.mint_ratio_snapshot_bps, market.mint_ratio_bps>>
    BY DEF Proposed, Ruled, IsSol
  <2>5. Proposed /\ IsSol =>
          \E k \in CountedAt(t)' : FrozenOf(k, market.mint_ratio_snapshot_bps)'
    <3> SUFFICES ASSUME Proposed, IsSol
                 PROVE  \E k \in CountedAt(t)' : FrozenOf(k, market.mint_ratio_snapshot_bps)'
      OBVIOUS
    <3>1. PICK k \in CountedAt(t) : FrozenOf(k, market.mint_ratio_snapshot_bps)
      BY DEF TwapInv, FrozenInv
    <3>2. PICK ratio : ratio = market.mint_ratio_snapshot_bps
      OBVIOUS
    <3>3. k \in CountedAt(t)' /\ FrozenOf(k, ratio)'
      BY <2>2, <2>3, <3>1, <3>2
    <3>4. FrozenOf(k, market.mint_ratio_snapshot_bps)'
      BY <3>2, <3>3, <2>4 DEF FrozenOf
    <3> QED
      BY <3>3, <3>4
  <2>6. Ruled /\ IsSol => \E k \in CountedAt(t)' : FrozenOf(k, market.mint_ratio_bps)'
    <3> SUFFICES ASSUME Ruled, IsSol
                 PROVE  \E k \in CountedAt(t)' : FrozenOf(k, market.mint_ratio_bps)'
      OBVIOUS
    <3>1. PICK k \in CountedAt(t) : FrozenOf(k, market.mint_ratio_bps)
      BY DEF TwapInv, FrozenInv
    <3>2. PICK ratio : ratio = market.mint_ratio_bps
      OBVIOUS
    <3>3. k \in CountedAt(t)' /\ FrozenOf(k, ratio)'
      BY <2>2, <2>3, <3>1, <3>2
    <3>4. FrozenOf(k, market.mint_ratio_bps)'
      BY <3>2, <3>3, <2>4 DEF FrozenOf
    <3> QED
      BY <3>3, <3>4
  <2> QED
    BY <2>3, <2>4, <2>5, <2>6 DEF FrozenInv
<1> QED
  BY <1>1, <1>2

\* A step of the market that leaves what was frozen, or one after which nothing is.
LEMMA VerdictStands ==
  ASSUME TwapInv, UNCHANGED taken, now' = now \/ now' = now + 1,
         market'.status = market.status, market'.currency = market.currency,
         market'.resolved_by = market.resolved_by, market'.proposed_ts = market.proposed_ts,
         market'.mint_ratio_snapshot_bps = market.mint_ratio_snapshot_bps,
         market'.mint_ratio_bps = market.mint_ratio_bps
  PROVE  FrozenInv'
<1>1. /\ Proposed' = Proposed /\ Ruled' = Ruled /\ IsSol' = IsSol
      /\ CountedAt(market.proposed_ts)' = CountedAt(market.proposed_ts)
      /\ \A k : Window(k)' = Window(k)
  BY DEF Proposed, Ruled, IsSol, CountedAt, Window
<1>2. /\ \A k : FrozenOf(k, market.mint_ratio_snapshot_bps)' = FrozenOf(k, market.mint_ratio_snapshot_bps)
      /\ \A k : FrozenOf(k, market.mint_ratio_bps)' = FrozenOf(k, market.mint_ratio_bps)
  BY <1>1 DEF FrozenOf
<1>3. Proposed \/ Ruled => market'.proposed_ts <= now'
  <2> SUFFICES ASSUME Proposed \/ Ruled PROVE market'.proposed_ts <= now'
    OBVIOUS
  <2>1. market.proposed_ts \in Nat /\ now \in Nat
    BY Typed DEF TwapInv, DuelInv, IInv, TypeOK, Proposed, Ruled, Exists, Market
  <2> QED
    BY <2>1 DEF TwapInv, FrozenInv
<1> QED
  BY <1>1, <1>2, <1>3 DEF TwapInv, FrozenInv

LEMMA NothingFrozen ==
  ASSUME ~Proposed', ~Ruled'
  PROVE  FrozenInv'
BY DEF FrozenInv

LEMMA ProposeFreezes ==
  ASSUME TwapInv, UNCHANGED taken, NEW k, NEW r, NEW z,
         ProposeResolution(k, r, z, MintRatioBpsTwap)
  PROVE  FrozenInv'
<1>1. market \in Market /\ Exists
  BY Typed DEF TwapInv, DuelInv, IInv, ProposeResolution
<1>2. /\ market'.status = "PendingResolution" /\ market'.proposed_ts = now
      /\ market'.currency = market.currency
      /\ market'.mint_ratio_snapshot_bps = FrozenRatio(MintRatioBpsTwap)
      /\ UNCHANGED now /\ now \in Nat
  BY <1>1 DEF ProposeResolution, Market, TwapInv, RingInv
<1>3. Proposed' /\ ~Ruled' /\ IsSol' = IsSol
  BY <1>2 DEF Proposed, Ruled, IsSol
<1>4. ASSUME IsSol
      PROVE  \E j \in CountedAt(market.proposed_ts)' : FrozenOf(j, market.mint_ratio_snapshot_bps)'
  <2>1. Len(taken) \in CountedAt(market.proposed_ts)'
    <3>1. Len(taken) \in Nat /\ DOMAIN taken = 1..Len(taken)
      BY DEF TwapInv, RingInv, TwapTyped
    <3>2. \A i \in 1..Len(taken) : taken[i].ts <= now
      BY <3>1 DEF TwapInv, RingInv, Spaced
    <3>3. (Len(taken) + 1)..Len(taken) = {}
      BY <3>1
    <3> QED
      BY <1>2, <3>1, <3>2, <3>3 DEF CountedAt
  <2>2. FrozenOf(Len(taken), market.mint_ratio_snapshot_bps)'
    <3>1. market'.mint_ratio_snapshot_bps = MintRatioBpsTwap
      BY <1>2, <1>4 DEF FrozenRatio
    <3>2. CASE taken = << >>
      BY <3>2 DEF FrozenOf
    <3>3. CASE taken # << >>
      <4>1. MintRatioBpsTwap = RatioForCirculating(Mean(Window(Len(taken))))
        BY <3>3, RatioOfWindow DEF TwapInv
      <4>2. Window(Len(taken))' = Window(Len(taken))
        BY DEF Window
      <4> QED
        BY <3>1, <4>1, <4>2 DEF FrozenOf
    <3> QED
      BY <3>2, <3>3
  <2>3. PICK j : j = Len(taken)
    OBVIOUS
  <2>4. j \in CountedAt(market.proposed_ts)' /\ FrozenOf(j, market.mint_ratio_snapshot_bps)'
    BY <2>1, <2>2, <2>3 DEF FrozenOf
  <2> QED
    BY <2>4
<1> QED
  BY <1>2, <1>3, <1>4 DEF FrozenInv

LEMMA FinalizeFreezes ==
  ASSUME TwapInv, UNCHANGED taken, NEW s, FinalizeResolution(s)
  PROVE  FrozenInv'
<1>1. Exists /\ Proposed
  BY DEF FinalizeResolution, Exists, Proposed
<1>2. market \in Market
  BY <1>1, Typed DEF TwapInv, DuelInv, IInv
<1>3. /\ market'.status = "Resolved" /\ market'.proposed_ts = market.proposed_ts
      /\ market'.currency = market.currency /\ UNCHANGED now
      /\ IsSol => market'.mint_ratio_bps = market.mint_ratio_snapshot_bps
  BY <1>2 DEF FinalizeResolution, FinalizeMarketAndFees, Market
<1>4. ~Proposed' /\ IsSol' = IsSol
  BY <1>3 DEF Proposed, IsSol
<1>5. market'.proposed_ts <= now'
  BY <1>1, <1>3 DEF TwapInv, FrozenInv
<1>6. ASSUME IsSol
      PROVE  \E j \in CountedAt(market.proposed_ts)' : FrozenOf(j, market.mint_ratio_bps)'
  <2>1. PICK j \in CountedAt(market.proposed_ts) : FrozenOf(j, market.mint_ratio_snapshot_bps)
    BY <1>1, <1>6 DEF TwapInv, FrozenInv
  <2>2. CountedAt(market.proposed_ts)' = CountedAt(market.proposed_ts) /\ Window(j)' = Window(j)
    BY <1>3 DEF CountedAt, Window
  <2>3. FrozenOf(j, market.mint_ratio_bps)'
    BY <1>3, <1>6, <2>1, <2>2 DEF FrozenOf
  <2> QED
    BY <2>1, <2>2, <2>3
<1> QED
  BY <1>4, <1>5, <1>6 DEF FrozenInv

LEMMA SettlementStands ==
  ASSUME TwapInv, UNCHANGED taken,
         \/ \E p \in Positions : ClaimMarketSol(p)
         \/ \E p \in Positions : ClaimMarketLynx(p)
         \/ SweepUnclaimedMarketSol \/ SweepUnclaimedMarketLynx
         \/ \E p \in Positions : MintLynxDistribution(p)
  PROVE  FrozenInv'
<1>1. Exists
  BY DEF ClaimMarketSol, ClaimMarketLynx, MayClaim, SweepUnclaimedMarketSol,
         SweepUnclaimedMarketLynx, MintLynxDistribution, Exists
<1>2. market \in Market
  BY <1>1, Typed DEF TwapInv, DuelInv, IInv
<1>3. /\ UNCHANGED now
      /\ market'.status = market.status /\ market'.currency = market.currency
      /\ market'.resolved_by = market.resolved_by /\ market'.proposed_ts = market.proposed_ts
      /\ market'.mint_ratio_snapshot_bps = market.mint_ratio_snapshot_bps
      /\ market'.mint_ratio_bps = market.mint_ratio_bps
  BY <1>2 DEF ClaimMarketSol, ClaimMarketLynx, SweepUnclaimedMarketSol,
              SweepUnclaimedMarketLynx, SendToTreasury, MintLynxDistribution, Market
<1> QED
  BY <1>3, VerdictStands

LEMMA MarketKeepsFrozen ==
  ASSUME TwapInv, NextAt(FrozenRatios), UNCHANGED taken
  PROVE  FrozenInv'
<1>1. CASE Tick
  <2>1. now' = now + 1 /\ market' = market
    BY <1>1 DEF Tick
  <2> QED
    BY <2>1, VerdictStands
<1>2. CASE \E c \in Currencies, t \in BOOLEAN, d \in Deadlines : CreateMarket(c, t, d[1], d[2])
  <2>1. market'.status = "Open"
    BY <1>2 DEF CreateMarket
  <2> QED
    BY <2>1, NothingFrozen DEF Proposed, Ruled
<1>3. CASE \/ \E u \in Owners, o \in Outcomes, a \in Amounts, q \in Slippages, z \in BOOLEAN :
                BuyPositionSol(u, o, a, q, z) \/ BuyPositionLynxWithBurn(u, o, a, q, z)
           \/ CutOffMarket
           \/ \E z \in BOOLEAN : DisputeResolution(z)
  <2>1. Exists
    BY <1>3 DEF BuyPositionSol, BuyPositionLynxWithBurn, MayEnter, CutOffMarket, MayCutOff,
                IsOpen, DisputeResolution, Exists
  <2>2. market \in Market
    BY <2>1, Typed DEF TwapInv, DuelInv, IInv
  <2>3. market'.status \in {"Active", "CutOff"}
    <3>1. ASSUME NEW u, NEW o, NEW a, NEW b, Enter(u, o, a, b) PROVE market'.status = "Active"
      BY <3>1, <2>2 DEF Enter, Market
    <3>2. CASE CutOffMarket \/ \E z \in BOOLEAN : DisputeResolution(z)
      BY <3>2, <2>2 DEF CutOffMarket, DisputeResolution, Market
    <3> QED
      BY <1>3, <3>1, <3>2 DEF BuyPositionSol, BuyPositionLynxWithBurn
  <2> QED
    BY <2>3, NothingFrozen DEF Proposed, Ruled
<1>4. CASE \E k \in Owners \cup {Oracle}, r \in Outcomes, z \in BOOLEAN, ratio \in FrozenRatios :
             ProposeResolution(k, r, z, ratio)
  BY <1>4, ProposeFreezes DEF FrozenRatios
<1>5. CASE \E s \in Staked : FinalizeResolution(s)
  BY <1>5, FinalizeFreezes
<1>6. ASSUME NEW r \in Outcomes, NEW ratio \in FrozenRatios, NEW s \in Staked,
             ExecuteResolveMarketAdmin(r, ratio, s, Nobody)
      PROVE  FrozenInv'
  <2>1. market \in Market
    BY <1>6, Typed DEF TwapInv, DuelInv, IInv, ExecuteResolveMarketAdmin
  <2>2. market'.status = "Resolved" /\ market'.resolved_by = Nobody
    BY <1>6, <2>1 DEF ExecuteResolveMarketAdmin, FinalizeMarketAndFees, Market
  <2> QED
    BY <2>2, NothingFrozen, MarketKeysAssumption DEF Proposed, Ruled
<1> QED
  BY <1>1, <1>2, <1>3, <1>4, <1>5, <1>6, SettlementStands DEF NextAt

\* A step of the market lets at most a unit of time pass.
LEMMA ClockSteps ==
  ASSUME NEW ratios, NextAt(ratios)
  PROVE  now' = now \/ now' = now + 1
BY DEF NextAt, Tick, CreateMarket, BuyPositionSol, BuyPositionLynxWithBurn, Enter, CutOffMarket,
       ProposeResolution, DisputeResolution, FinalizeResolution, ExecuteResolveMarketAdmin,
       FinalizeMarketAndFees, ClaimMarketSol, ClaimMarketLynx, SweepUnclaimedMarketSol,
       SweepUnclaimedMarketLynx, SendToTreasury, MintLynxDistribution
-----------------------------------------------------------------------------
\* Every step of the protocol is one of the duels or of the market, or leaves both.
LEMMA ProtocolStepIsAny ==
  ASSUME TwapInv, [ProtocolNext]_protocolVars
  PROVE  [AnyDuelsNext]_allVars
<1>1. FrozenRatios \in SUBSET (Nat \ {0})
  BY RatioIsPositive DEF FrozenRatios, TwapInv, DuelInv
<1>2. CASE MarketStep
  <2>1. AnyNext \/ UNCHANGED vars
    BY <1>1, <1>2, NextAtAny DEF MarketStep
  <2> QED
    BY <1>2, <2>1 DEF MarketStep, AnyDuelsNext, allVars
<1>3. CASE ProtocolNext /\ ~MarketStep
  BY <1>3 DEF ProtocolNext, InitSupplyTwap, SomebodySnapshots, SupplyMoves, SnapshotterStarts,
              SnapshotterAnswered, Recorded, TooSoon, SnapshotFails, SnapshotterCrashes,
              SnapshotterRests, AnyDuelsNext
<1>4. CASE UNCHANGED protocolVars
  BY <1>4 DEF protocolVars
<1> QED
  BY <1>2, <1>3, <1>4

\* A prize is paid in whole LYNX units.
LEMMA DuelsKeepSupply ==
  ASSUME TwapInv, DuelStep, UNCHANGED elsewhere
  PROVE  SupplyTyped'
<1>1. CASE UNCHANGED duel_lynx
  BY <1>1 DEF TwapInv, SupplyTyped
<1>2. CASE \E d \in DOMAIN duels, u \in Owners, s \in Staked : ResolveProtocolDuel(d, u, s)
  <2>1. PICK d \in DOMAIN duels, u \in Owners, s \in Staked : ResolveProtocolDuel(d, u, s)
    BY <1>2
  <2>2. duels[d].amount \in Nat
    <3>1. duels[d] \in Duel
      BY DEF TwapInv, DuelInv, DuelsFit
    <3> QED
      BY <3>1 DEF Duel
  <2>3. market.mint_ratio_bps \in Nat
    BY <2>1, Typed DEF TwapInv, DuelInv, IInv, ResolveProtocolDuel, MayResolve, Market
  <2>4. duels[d].amount \div LamportsPerMicroLynx \in Nat
    <3>1. ASSUME NEW a \in Nat, NEW b \in Nat \ {0} PROVE a \div b \in Nat
      OBVIOUS
    <3> QED
      BY <2>2, <3>1, MarketNumbersAssumption
  <2>5. Bps(duels[d].amount \div LamportsPerMicroLynx, market.mint_ratio_bps) \in Nat
    BY <2>3, <2>4, BpsNat
  <2> QED
    BY <2>1, <2>5 DEF ResolveProtocolDuel, TwapInv, SupplyTyped
<1>3. DuelStep => \/ UNCHANGED duel_lynx
                  \/ \E d \in DOMAIN duels, u \in Owners, s \in Staked : ResolveProtocolDuel(d, u, s)
  BY DEF DuelStep, CreateDuel, AcceptDuel, ResolveDuelSol, CancelDuel
<1> QED
  BY <1>1, <1>2, <1>3

LEMMA TwapInvKept == TwapInv /\ [ProtocolNext]_protocolVars => TwapInv'
<1> SUFFICES ASSUME TwapInv, [ProtocolNext]_protocolVars PROVE TwapInv'
  OBVIOUS
<1>1. DuelInv'
  BY ProtocolStepIsAny, DuelInvKept DEF TwapInv
<1>2. ASSUME UNCHANGED <<now, market>>, taken' = taken PROVE FrozenInv'
  <2>1. \E sample \in Sample : sample.ts = now
    <3>1. [ts |-> now, supply |-> 0] \in Sample
      BY DEF TwapInv, RingInv, Sample
    <3> QED
      BY <3>1
  <2> QED
    BY <1>2, <2>1, SamplesKeepFrozen
<1>3. ASSUME RecordSupplySnapshot, UNCHANGED <<allVars, elsewhere>>
      PROVE  RingInv' /\ SupplyTyped' /\ FrozenInv'
  <2>1. InstantaneousCirculatingSupply \in Nat
    BY SupplyNat DEF TwapInv, DuelInv
  <2>2. UNCHANGED <<now, market, duel_lynx>>
    BY <1>3 DEF allVars, vars, duelVars
  <2>3. [ts |-> now, supply |-> InstantaneousCirculatingSupply] \in Sample
    BY <2>1 DEF TwapInv, RingInv, Sample
  <2>4. FrozenInv'
    BY <1>3, <2>2, <2>3, SamplesKeepFrozen DEF RecordSupplySnapshot
  <2> QED
    BY <1>3, <2>1, <2>2, <2>4, SnapshotKeepsRing DEF TwapInv, SupplyTyped
<1>4. ASSUME now' = now \/ now' = now + 1, UNCHANGED <<twap, taken>> PROVE RingInv'
  <2>1. now \in Nat /\ now' \in Nat /\ now <= now'
    BY <1>4 DEF TwapInv, RingInv
  <2>2. TwapTyped' /\ Ring'
    BY <1>4 DEF TwapInv, RingInv, TwapTyped, Ring
  <2>3. Spaced'
    <3>1. ASSUME NEW i \in DOMAIN taken PROVE taken[i].ts <= now'
      <4>1. taken[i] \in Sample /\ taken[i].ts <= now
        BY DEF TwapInv, RingInv, TwapTyped, Spaced
      <4>2. taken[i].ts \in Nat
        BY <4>1 DEF Sample
      <4> QED
        BY <4>1, <4>2, <2>1
    <3> QED
      BY <1>4, <3>1 DEF TwapInv, RingInv, Spaced
  <2> QED
    BY <2>1, <2>2, <2>3 DEF RingInv
<1>5. CASE DuelStep /\ UNCHANGED supplyVars
  <2>1. UNCHANGED <<now, market, elsewhere, twap, taken>>
    BY <1>5, DuelStepFits DEF supplyVars, vars, TwapInv, DuelInv
  <2> QED
    BY <1>1, <1>2, <1>4, <1>5, <2>1, DuelsKeepSupply DEF TwapInv
<1>6. CASE MarketStep
  <2>1. UNCHANGED <<elsewhere, twap, taken, duel_lynx>>
    BY <1>6 DEF MarketStep, supplyVars, duelVars
  <2>2. now' = now \/ now' = now + 1
    BY <1>6, ClockSteps DEF MarketStep
  <2> QED
    BY <1>1, <1>4, <1>6, <2>1, <2>2, MarketKeepsFrozen DEF MarketStep, TwapInv, SupplyTyped
<1>7. CASE InitSupplyTwap
  <2>1. /\ twap = NoTwap /\ taken = << >> /\ taken' = << >>
        /\ twap' = [NoTwap EXCEPT !.exists = TRUE]
        /\ UNCHANGED <<now, market, elsewhere, duel_lynx>>
    BY <1>7 DEF InitSupplyTwap, TwapInv, RingInv, TwapTyped, allVars, vars, duelVars
  <2>2. twap' \in Twap /\ twap'.exists /\ twap'.count = 0 /\ twap'.next_index = 0
    BY <2>1, SupplyNumbers DEF NoTwap, Twap, N
  <2>3. Ring'
    BY <2>1, <2>2, SupplyNumbers DEF Ring, N
  <2>4. TwapTyped'
    BY <2>1, <2>2 DEF TwapTyped, Twap, N
  <2>5. Spaced' /\ now' \in Nat
    BY <2>1 DEF Spaced, TwapInv, RingInv
  <2> QED
    BY <1>1, <1>2, <2>1, <2>3, <2>4, <2>5 DEF TwapInv, RingInv, SupplyTyped
<1>8. CASE SomebodySnapshots \/ Recorded \/ (SnapshotFails /\ RecordSupplySnapshot)
  <2>1. RecordSupplySnapshot /\ UNCHANGED <<allVars, elsewhere>>
    BY <1>8 DEF SomebodySnapshots, Recorded, SnapshotFails, SnapshotterRests
  <2> QED
    BY <1>1, <1>3, <2>1 DEF TwapInv
<1>9. CASE SupplyMoves
  <2>1. UNCHANGED <<now, market, twap, taken, duel_lynx>>
    BY <1>9 DEF SupplyMoves, allVars, vars, duelVars
  <2>2. SupplyTyped'
    BY <1>9, <2>1, SupplyAssumption
    DEF SupplyMoves, MintElsewhere, BurnElsewhere, TwapInv, SupplyTyped
  <2> QED
    BY <1>1, <1>2, <1>4, <2>1, <2>2 DEF TwapInv
<1>10. CASE SnapshotterStarts \/ TooSoon \/ SnapshotterCrashes \/ UNCHANGED protocolVars
            \/ (SnapshotFails /\ UNCHANGED <<twap, taken>>)
  <2>1. UNCHANGED <<now, market, elsewhere, twap, taken, duel_lynx>>
    BY <1>10 DEF SnapshotterStarts, TooSoon, SnapshotterCrashes, SnapshotFails, SnapshotterRests,
                 protocolVars, supplyVars, allVars, vars, duelVars
  <2> QED
    BY <1>1, <1>2, <1>4, <2>1 DEF TwapInv, SupplyTyped
<1>11. SnapshotFails => RecordSupplySnapshot \/ UNCHANGED <<twap, taken>>
  BY DEF SnapshotFails
<1>12. \/ DuelStep /\ UNCHANGED supplyVars
       \/ MarketStep \/ InitSupplyTwap \/ SomebodySnapshots \/ SupplyMoves
       \/ SnapshotterStarts \/ Recorded \/ TooSoon \/ SnapshotFails \/ SnapshotterCrashes
       \/ UNCHANGED protocolVars
  BY DEF ProtocolNext, SnapshotterAnswered
<1> QED
  BY <1>5, <1>6, <1>7, <1>8, <1>9, <1>10, <1>11, <1>12

LEMMA RatioFollows == TwapInv => RatioIsOfTheWindow
<1> SUFFICES ASSUME TwapInv PROVE RatioIsOfTheWindow
  OBVIOUS
<1>1. \A i \in 2..Len(taken) : taken[i].ts - taken[i - 1].ts >= SnapshotInterval
  BY DEF TwapInv, RingInv, Spaced
<1>2. taken # << >> => MintRatioBpsTwap = RatioForCirculating(Mean(Window(Len(taken))))
  BY RatioOfWindow DEF TwapInv
<1>3. Exists /\ market.status = "Resolved" /\ IsSol /\ market.resolved_by = Oracle =>
        \E k \in CountedAt(market.proposed_ts) :
          k = 0 \/ market.mint_ratio_bps = RatioForCirculating(Mean(Window(k)))
  BY DEF TwapInv, FrozenInv, Ruled, FrozenOf
<1> QED
  BY <1>1, <1>2, <1>3 DEF RatioIsOfTheWindow

\* For any ring, interval and tiers, however the ring wraps and whoever samples:
\* the samples are an interval apart, the ratio is that of the mean of the latest
\* ones, and a market the oracle resolved mints at the ratio of the samples that
\* were in when it was proposed (lib.rs, record_supply_snapshot,
\* propose_resolution and finalize_market_and_fees).
THEOREM RatioIsTheWindows == ProtocolSpec => []RatioIsOfTheWindow
<1>1. ProtocolSpec => []TwapInv
  BY TwapInvStarts, TwapInvKept, PTL DEF ProtocolSpec
<1> QED
  BY <1>1, RatioFollows, PTL

LEMMA ProtocolStepOfMarket == TwapInv /\ [ProtocolNext]_protocolVars => [AnyNext]_vars
<1> SUFFICES ASSUME TwapInv, [ProtocolNext]_protocolVars PROVE [AnyNext]_vars
  OBVIOUS
<1>1. [AnyDuelsNext]_allVars
  BY ProtocolStepIsAny
<1> QED
  BY <1>1, DuelStepFits DEF AnyDuelsNext, allVars, TwapInv, DuelInv

\* Duels keep their money, their exposure and their winners whatever ratios the
\* samples yield and however they move the supply (modules Duels and SupplyTwap
\* composed, as they are checked).
THEOREM DuelsHoldInProtocol ==
  ProtocolSpec => [](DuelMoneyExact /\ ExposureIsLive /\ SomebodyWins)
<1>1. SupplyInit => MoneyInv /\ ExposureInv
  BY MoneyInvStarts, ExposureInvStarts DEF SupplyInit
<1>2. TwapInv /\ MoneyInv /\ ExposureInv /\ [ProtocolNext]_protocolVars
        => MoneyInv' /\ ExposureInv'
  BY ProtocolStepIsAny, MoneyInvKept, ExposureInvKept
<1>3. MoneyInv /\ ExposureInv /\ TwapInv => DuelMoneyExact /\ ExposureIsLive /\ SomebodyWins
  BY MoneyFollows, ExposureFollows, SomebodyFollows DEF TwapInv
<1> QED
  BY <1>1, <1>2, <1>3, TwapInvStarts, TwapInvKept, PTL DEF ProtocolSpec

\* The market pays all its winners by share, and emits no more than its ratio
\* gives, at the ratio the samples yielded.
THEOREM MarketHoldsInProtocol ==
  ProtocolSpec => [](PoolAccounting /\ Solvency /\ PaidByShare /\ EmissionBounded)
<1>1. SupplyInit => Books
  BY InitBooks DEF SupplyInit, DuelsInit
<1>2. TwapInv /\ Books /\ [ProtocolNext]_protocolVars => Books'
  BY ProtocolStepOfMarket, StepBooks DEF TwapInv, DuelInv
<1>3. TwapInv /\ Books => PoolAccounting /\ Solvency /\ PaidByShare /\ EmissionBounded
  BY AccountingFollows, EmissionFollows DEF Books, TwapInv, DuelInv, IInv
<1> QED
  BY <1>1, <1>2, <1>3, TwapInvStarts, TwapInvKept, PTL DEF ProtocolSpec
=============================================================================
