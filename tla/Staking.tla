------------------------------ MODULE Staking ------------------------------
(***************************************************************************)
(* LYNX staking: stakers lock LYNX in the shared stake vault and earn the  *)
(* staker part of every fee through a cumulative index of reward per token *)
(* (stake_lynx, unstake_lynx, claim_staking_rewards, credit_stakers).      *)
(*                                                                         *)
(* LYNX in wallets is fungible and owners may send it to each other, so a  *)
(* wallet has no state here: whatever is not staked anybody may stake.     *)
(***************************************************************************)
EXTENDS LynxMath, FiniteSets, Functions

CONSTANTS
  Stakers,        \* the keys that may stake
  RewardScale,    \* REWARD_SCALE
  StakeAmounts,   \* bound: the amounts somebody stakes or unstakes
  Fees,           \* bound: the staker parts of the fees
  LynxSupply,     \* bound: the LYNX there is to stake
  MaxIndex,       \* bound: fees are credited up to this value of the index
  MaxTime         \* bound: the last value of the clock

ASSUME StakingAssumption ==
  /\ IsFiniteSet(Stakers)
  /\ RewardScale \in Nat \ {0}
  /\ StakeAmounts \subseteq Nat
  /\ Fees \subseteq Nat
  /\ LynxSupply \in Nat
  /\ MaxIndex \in Nat
  /\ MaxTime \in Nat

VARIABLES
  now,            \* Clock::unix_timestamp
  index,          \* config.reward_per_token_scaled
  total_staked,   \* config.total_staked
  stake_vault,    \* LYNX in config.stake_vault
  rewards_vault,  \* lamports in the rewards vault, above its rent
  stakes,         \* the StakePosition account of each staker
  owed            \* history: each staker's part of every fee as it came in, less
                  \* what it claimed and what its settlements truncated, scaled

pool == <<index, total_staked, stake_vault, rewards_vault>>
stakingVars == <<now, pool, stakes, owed>>

NoStake == [amount |-> 0, reward_debt_scaled |-> 0, pending_rewards |-> 0, staked_at |-> 0]

StakingInit ==
  /\ now = 1
  /\ index = 0
  /\ total_staked = 0
  /\ stake_vault = 0
  /\ rewards_vault = 0
  /\ stakes = [u \in Stakers |-> NoStake]
  /\ owed = [u \in Stakers |-> 0]

Tick ==
  /\ now < MaxTime
  /\ now' = now + 1
  /\ UNCHANGED <<pool, stakes, owed>>

\* What a stake earned since its last settlement, scaled.
Accrued(s) ==
  IF s.amount > 0 /\ s.amount * index > s.reward_debt_scaled
    THEN s.amount * index - s.reward_debt_scaled ELSE 0

\* The settlement forgets to credit what accrued.
Settled_Forfeit(s) == [s EXCEPT !.reward_debt_scaled = s.amount * index]

\* settle_staker.
Settled(s) ==
  [s EXCEPT !.pending_rewards = @ + Accrued(s) \div RewardScale,
            !.reward_debt_scaled = s.amount * index]

\* The settlement of u drops what does not make a whole lamport.
Dust(u) == Accrued(stakes[u]) % RewardScale

Resized_OldDebt(s, amount) == [s EXCEPT !.amount = amount]

\* A settled stake whose amount changes owes the index so far for all of it.
Resized(s, amount) ==
  [s EXCEPT !.amount = amount, !.reward_debt_scaled = amount * index]

Stamped_FirstOnly(s) == [s EXCEPT !.staked_at = IF @ = 0 THEN now ELSE @]
Stamped(s) == [s EXCEPT !.staked_at = now]

StakeLynx(u, amount) ==
  /\ amount > 0
  /\ stake_vault + amount <= LynxSupply
  /\ LET settled == Settled(stakes[u])
     IN  stakes' = [stakes EXCEPT ![u] = Stamped(Resized(settled, settled.amount + amount))]
  /\ stake_vault' = stake_vault + amount
  /\ total_staked' = total_staked + amount
  /\ owed' = [owed EXCEPT ![u] = @ - Dust(u)]
  /\ UNCHANGED <<now, index, rewards_vault>>

MayUnstake(u, amount) == amount > 0 /\ stake_vault >= amount /\ stakes[u].amount >= amount

UnstakeLynx(u, amount) ==
  /\ MayUnstake(u, amount)
  /\ LET settled == Settled(stakes[u])
     IN  stakes' = [stakes EXCEPT ![u] = Resized(settled, settled.amount - amount)]
  /\ stake_vault' = stake_vault - amount
  /\ total_staked' = total_staked - amount
  /\ owed' = [owed EXCEPT ![u] = @ - Dust(u)]
  /\ UNCHANGED <<now, index, rewards_vault>>

ClaimStakingRewards(u) ==
  LET settled == Settled(stakes[u])
      amount == settled.pending_rewards
  IN  /\ amount > 0
      /\ rewards_vault >= amount
      /\ rewards_vault' = rewards_vault - amount
      /\ stakes' = [stakes EXCEPT ![u] = [settled EXCEPT !.pending_rewards = 0]]
      /\ owed' = [owed EXCEPT ![u] = @ - Dust(u) - RewardScale * amount]
      /\ UNCHANGED <<now, index, total_staked, stake_vault>>

\* credit_stakers, and the same lines of finalize_market_and_fees: the caller
\* has just sent the fee to the rewards vault and checked that somebody stakes.
CreditStakers(fee) ==
  /\ fee > 0
  /\ total_staked > 0
  /\ rewards_vault' = rewards_vault + fee
  /\ index' = index + MulDiv(fee, RewardScale, total_staked)
  /\ owed' = [u \in Stakers |->
       owed[u] + stakes[u].amount * MulDiv(fee, RewardScale, total_staked)]
  /\ UNCHANGED <<now, total_staked, stake_vault, stakes>>

StakingNext ==
  \/ Tick
  \/ \E u \in Stakers, a \in StakeAmounts : StakeLynx(u, a)
  \/ \E u \in Stakers, a \in StakeAmounts : UnstakeLynx(u, a)
  \/ \E u \in Stakers : ClaimStakingRewards(u)
  \/ /\ index < MaxIndex
     /\ \E fee \in Fees : CreditStakers(fee)

StakingSpec == StakingInit /\ [][StakingNext]_stakingVars
-----------------------------------------------------------------------------
StakePosition ==
  [amount : Nat, reward_debt_scaled : Nat, pending_rewards : Nat, staked_at : Nat]

\* Every variable holds a value of the account field or balance it models.
StakingTypeOK ==
  /\ now \in Nat \ {0}
  /\ index \in Nat
  /\ total_staked \in Nat
  /\ stake_vault \in Nat
  /\ rewards_vault \in Nat
  /\ stakes \in [Stakers -> StakePosition]
  /\ owed \in [Stakers -> Int]

\* The shared vault holds exactly the stakes, and the total that divides every
\* fee is theirs.
StakesBacked ==
  LET staked == SumFunction([u \in Stakers |-> stakes[u].amount])
  IN  stake_vault = staked /\ total_staked = staked

\* All stakers can be paid at once, pending and accruing.
RewardsSolvent ==
  rewards_vault >=
    SumFunction([u \in Stakers |->
      stakes[u].pending_rewards + Accrued(stakes[u]) \div RewardScale])

\* No staker's LYNX or rewards can be taken out by another one: in whatever
\* order stakes, top-ups, withdrawals, fees and claims come, the two vaults hold
\* what every staker could take at once.
VaultsCoverClaims == StakingTypeOK /\ StakesBacked /\ RewardsSolvent

\* Each staker gets its part of exactly the fees that came in while it staked,
\* at the amount it then had: nothing of earlier fees for a late top-up and
\* nothing lost by a withdrawal, but for what settlements truncate: what is still
\* owed to it is pending or accruing.
EarnedByShare ==
  \A u \in Stakers :
    RewardScale * stakes[u].pending_rewards + Accrued(stakes[u]) = owed[u]
=============================================================================
