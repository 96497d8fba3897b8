------------------------------- MODULE Duels -------------------------------
(***************************************************************************)
(* Duels on a SOL market: two players bet the same amount on different     *)
(* outcomes of a parent market, alone (1v1, binary markets) or with the    *)
(* protocol in the third position (1v1vP, ternary markets).  The market is *)
(* module Market: duels read its status, cutoff, result and mint ratio.    *)
(***************************************************************************)
EXTENDS Market, Sequences

CONSTANTS
  MaxExposure,   \* config.max_protocol_duel_exposure
  Stakes,        \* bound: the amounts players bet
  MaxDuels       \* bound: duels ever created

ASSUME DuelsAssumption ==
  /\ MaxExposure \in Nat
  /\ Stakes \subseteq Nat
  /\ MaxDuels \in Nat

VARIABLES
  duels,          \* the Duel accounts
  duel_vaults,    \* lamports in the DuelVault of each duel, above its rent
  exposure,       \* config.protocol_duel_exposure
  purse,          \* what each player won and lost in duels
  duel_treasury,  \* what duels sent the treasury
  duel_rewards,   \* what duels sent the stakers' rewards vault
  duel_index,     \* what duels added to config.reward_per_token_scaled
  duel_lynx       \* micro-LYNX duels minted

duelVars ==
  <<duels, duel_vaults, exposure, purse, duel_treasury, duel_rewards, duel_index, duel_lynx>>
allVars == <<vars, duelVars>>

DuelsInit ==
  /\ Init
  /\ duels = <<>>
  /\ duel_vaults = <<>>
  /\ exposure = 0
  /\ purse = [u \in Owners |-> 0]
  /\ duel_treasury = 0
  /\ duel_rewards = 0
  /\ duel_index = 0
  /\ duel_lynx = 0

TypeFits_Any(duelType) == TRUE
\* A 1v1 needs a binary market, a 1v1vP one with a third outcome.
TypeFits(duelType) == (duelType = "OneVOneVProtocol") <=> market.is_ternary

\* What is at stake for the protocol in a duel of this type.
Exposed(duelType, amount) == IF duelType = "OneVOneVProtocol" THEN amount ELSE 0

WithinCap(duelType, amount) == exposure + Exposed(duelType, amount) <= MaxExposure

CreateDuel(creator, amount, outcome, duelType, expires, paused) ==
  /\ amount > 0
  /\ ~paused
  /\ Exists
  /\ OutcomeIsTradeable(outcome)
  /\ IsSol
  /\ IsOpen
  /\ now < market.cutoff_ts
  /\ now < expires
  /\ expires <= market.cutoff_ts
  /\ TypeFits(duelType)
  /\ WithinCap(duelType, amount)
  /\ exposure' = exposure + Exposed(duelType, amount)
  /\ duels' = Append(duels,
       [creator |-> creator, rival |-> Nobody, amount |-> amount,
        creator_outcome |-> outcome, rival_outcome |-> "Unresolved",
        duel_type |-> duelType, status |-> "Open", expires_ts |-> expires])
  /\ duel_vaults' = Append(duel_vaults, amount)
  /\ purse' = [purse EXCEPT ![creator] = @ - amount]
  /\ UNCHANGED <<vars, duel_treasury, duel_rewards, duel_index, duel_lynx>>

AcceptDuel(d, rival, outcome, paused) ==
  /\ ~paused
  /\ duels[d].status = "Open"
  /\ IsOpen
  /\ now < market.cutoff_ts
  /\ now < duels[d].expires_ts
  /\ OutcomeIsTradeable(outcome)
  /\ rival # duels[d].creator
  /\ outcome # duels[d].creator_outcome
  /\ duels' = [duels EXCEPT
       ![d].rival = rival, ![d].rival_outcome = outcome, ![d].status = "Active"]
  /\ duel_vaults' = [duel_vaults EXCEPT ![d] = @ + duels[d].amount]
  /\ purse' = [purse EXCEPT ![rival] = @ - duels[d].amount]
  /\ UNCHANGED <<vars, exposure, duel_treasury, duel_rewards, duel_index, duel_lynx>>

Pot(d) == 2 * duels[d].amount
StakerFee(d) == Bps(Pot(d), STAKER_REWARD_FEE_BPS)
TreasuryFee(d) == Bps(Pot(d), TREASURY_EVENT_FEE_BPS)

Prize_Rounded(d) == Bps(Pot(d), BPS_DENOMINATOR - EVENT_PROTOCOL_FEE_BPS)
Prize(d) == Pot(d) - StakerFee(d) - TreasuryFee(d)

CreatorWins(d) == market.result = duels[d].creator_outcome
RivalWins(d) == market.result = duels[d].rival_outcome
Winner(d) == IF CreatorWins(d) THEN duels[d].creator ELSE duels[d].rival

\* The transfers out of a duel's vault; the treasury takes the stakers' part
\* when nobody stakes.
Divide(d, toStakers, toTreasury, toWinner, totalStaked) ==
  LET staked == toStakers > 0 /\ totalStaked > 0
  IN  /\ duel_vaults' = [duel_vaults EXCEPT ![d] = @ - toStakers - toTreasury - toWinner]
      /\ duel_rewards' = IF staked THEN duel_rewards + toStakers ELSE duel_rewards
      /\ duel_treasury' = duel_treasury + toTreasury + (IF staked THEN 0 ELSE toStakers)
      /\ purse' = [purse EXCEPT ![Winner(d)] = @ + toWinner]

MayResolve(d, duelType) ==
  /\ duels[d].duel_type = duelType
  /\ duels[d].status = "Active"
  /\ Exists
  /\ market.status = "Resolved"

\* The config account of resolve_duel_sol is not mutable: the bump of the index
\* of the handler is never written back.
ResolveDuelSol(d, totalStaked) ==
  /\ MayResolve(d, "OneVOne")
  /\ IF CreatorWins(d) # RivalWins(d)
       THEN Divide(d, StakerFee(d), TreasuryFee(d), Prize(d), totalStaked)
       ELSE Divide(d, 0, Pot(d), 0, totalStaked)
  /\ duels' = [duels EXCEPT ![d].status = "Resolved"]
  /\ UNCHANGED <<vars, exposure, duel_index, duel_lynx>>

\* saturating_sub.
Released(amount) == IF exposure > amount THEN exposure - amount ELSE 0

CreditDuelStakers(amount, totalStaked) ==
  duel_index' = IF amount > 0 /\ totalStaked > 0
                  THEN duel_index + MulDiv(amount, RewardScale, totalStaked) ELSE duel_index

ProtocolWins(d) == ~CreatorWins(d) /\ ~RivalWins(d)

\* lynxOwner owns the account the LYNX prize would be minted to: the account
\* constraint wants the creator's, the handler the winner's.
ResolveProtocolDuel(d, lynxOwner, totalStaked) ==
  /\ MayResolve(d, "OneVOneVProtocol")
  /\ lynxOwner = duels[d].creator
  /\ \/ /\ ProtocolWins(d)
        /\ LET half == Pot(d) \div 2
           IN  /\ Divide(d, half, Pot(d) - half, 0, totalStaked)
               /\ CreditDuelStakers(half, totalStaked)
        /\ UNCHANGED duel_lynx
     \/ /\ ~ProtocolWins(d)
        /\ lynxOwner = Winner(d)
        /\ market.mint_ratio_bps > 0
        /\ Divide(d, StakerFee(d), TreasuryFee(d), Prize(d), totalStaked)
        /\ CreditDuelStakers(StakerFee(d), totalStaked)
        /\ duel_lynx' = duel_lynx +
             Bps(duels[d].amount \div LamportsPerMicroLynx, market.mint_ratio_bps)
  /\ duels' = [duels EXCEPT ![d].status = "Resolved"]
  /\ exposure' = Released(duels[d].amount)
  /\ UNCHANGED vars

ReleasedByCancel_Nothing(d) == exposure
ReleasedByCancel(d) ==
  IF duels[d].duel_type = "OneVOneVProtocol" THEN Released(duels[d].amount) ELSE exposure

CancelDuel(d) ==
  /\ duels[d].status = "Open"
  /\ duel_vaults[d] >= duels[d].amount
  /\ duel_vaults' = [duel_vaults EXCEPT ![d] = @ - duels[d].amount]
  /\ purse' = [purse EXCEPT ![duels[d].creator] = @ + duels[d].amount]
  /\ exposure' = ReleasedByCancel(d)
  /\ duels' = [duels EXCEPT ![d].status = "Cancelled"]
  /\ UNCHANGED <<vars, duel_treasury, duel_rewards, duel_index, duel_lynx>>

DuelTypes == {"OneVOne", "OneVOneVProtocol"}

DuelStep ==
  \/ /\ Len(duels) < MaxDuels
     /\ \E u \in Owners, a \in Stakes, o \in Outcomes, t \in DuelTypes, e \in 1..MaxTime,
           z \in BOOLEAN : CreateDuel(u, a, o, t, e, z)
  \/ \E d \in DOMAIN duels, u \in Owners, o \in Outcomes, z \in BOOLEAN : AcceptDuel(d, u, o, z)
  \/ \E d \in DOMAIN duels, s \in Staked : ResolveDuelSol(d, s)
  \/ \E d \in DOMAIN duels, u \in Owners, s \in Staked : ResolveProtocolDuel(d, u, s)
  \/ \E d \in DOMAIN duels : CancelDuel(d)

DuelsNext == DuelStep \/ (Next /\ UNCHANGED duelVars)

KeeperSettles_CreatorOnly(d) ==
  CreatorWins(d) /\ \E s \in Staked :
    ResolveDuelSol(d, s) \/ ResolveProtocolDuel(d, Winner(d), s)

\* settleReadyDuels: the keeper passes the LYNX account of the player that won,
\* the rival's when the protocol did.
KeeperSettles(d) ==
  \E s \in Staked : ResolveDuelSol(d, s) \/ ResolveProtocolDuel(d, Winner(d), s)

\* The keeper tries every active duel of a resolved market on every cycle.
DuelsFairness ==
  \A d \in 1..MaxDuels : WF_allVars(d \in DOMAIN duels /\ KeeperSettles(d))

DuelsSpec == DuelsInit /\ [][DuelsNext]_allVars /\ DuelsFairness
-----------------------------------------------------------------------------
\* A duel's vault holds exactly the bets of a duel that is still on.
VaultsExact ==
  \A d \in DOMAIN duels :
    duel_vaults[d] = CASE duels[d].status = "Open" -> duels[d].amount
                       [] duels[d].status = "Active" -> Pot(d)
                       [] OTHER -> 0

\* Nothing is created or lost: the last lamport leaves a duel's vault when the
\* duel ends, whatever the fees round to, and what players lost is in vaults or
\* went to the treasury and the stakers' vault.
DuelMoneyExact ==
  /\ VaultsExact
  /\ SumFunction(purse) + duel_treasury + duel_rewards + SumFunction(duel_vaults) = 0

\* SC-03: the exposure counted against the cap is that of the protocol's duels
\* still on, so cancelled and settled ones never keep consuming it, and it never
\* exceeds the cap.
ExposureIsLive ==
  /\ exposure <= MaxExposure
  /\ exposure = SumFunction(
       [d \in DOMAIN duels |->
          IF duels[d].status \in {"Open", "Active"}
            THEN Exposed(duels[d].duel_type, duels[d].amount) ELSE 0])

\* However its market resolves, by its oracle or by the governance, a 1v1 has
\* exactly one winner, so its pot is never forfeited to the treasury, and a
\* 1v1vP at most one besides the protocol.
SomebodyWins ==
  \A d \in DOMAIN duels :
    duels[d].status = "Active" /\ market.status = "Resolved" =>
      /\ ~(CreatorWins(d) /\ RivalWins(d))
      /\ duels[d].duel_type = "OneVOne" => CreatorWins(d) \/ RivalWins(d)

IsDue(d) ==
  d \in DOMAIN duels /\ duels[d].status = "Active" /\ market.status = "Resolved"

\* The keeper settles every 1v1 of a resolved market, and every 1v1vP its
\* creator won: no other transaction, and nothing in its vault, prevents it.
DuelsSettle ==
  \A d \in 1..MaxDuels :
    (IsDue(d) /\ (duels[d].duel_type = "OneVOne" \/ CreatorWins(d))) ~> ~IsDue(d)

\* resolve_protocol_duel's comment: whichever of the two players wins takes the
\* pot.  So a 1v1vP the rival won must be settled in the end as well.
RivalsArePaid ==
  \A d \in 1..MaxDuels :
    (IsDue(d) /\ duels[d].duel_type = "OneVOneVProtocol" /\ RivalWins(d)) ~> ~IsDue(d)

\* resolve_duel_sol's comment: the stakers get their 5% of a duel's pot, as of
\* an event: what reaches their vault is credited to the index that pays them.
DuelFeesAreCredited ==
  [][duel_rewards' > duel_rewards => duel_index' > duel_index]_allVars
=============================================================================
