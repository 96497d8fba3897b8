----------------------------- MODULE DaoProofs -----------------------------
(***************************************************************************)
(* Proofs about modules Dao and Staking, for any set of stakers, amounts   *)
(* and fees, any scale of the reward index, any durations and number of    *)
(* proposals.                                                              *)
(*                                                                         *)
(* Who votes: a stake that is older than a proposal was not added to since *)
(* the proposal was created, because adding to a stake stamps it with the  *)
(* clock, and no proposal is younger than the clock. So a stake that may   *)
(* vote is at most what the roll of the proposal says (IInv). The counters *)
(* of a proposal are the sums of the vote accounts of each side, and an    *)
(* account is created once (VotesCounted).                                 *)
(*                                                                         *)
(* What is owed: no stake was settled at a higher index than the present   *)
(* one, so what it accrues is the index gained times its amount. A fee adds*)
(* to all stakes, scaled, at most the fee, since the index gains the fee   *)
(* over the total stake rounded down and that total is the sum of the      *)
(* stakes; a claim takes from the vault what the claimer is owed no more.  *)
(* So the vault covers what all are owed (StakingInv).                     *)
(***************************************************************************)
EXTENDS Dao, SumProofs, SequenceTheorems

\* The types the argument about votes needs; StakingInv below has all of them.
StakesTyped ==
  /\ now \in Nat \ {0}
  /\ index \in Nat
  /\ total_staked \in Int
  /\ stakes \in [Stakers -> StakePosition]

ProposalsTyped ==
  /\ dao_proposals \in Seq(DaoProposal)
  /\ dao_votes \subseteq DaoVote
  /\ roll \in Seq([Stakers -> Nat])
  /\ Len(roll) = Len(dao_proposals)

\* No proposal was created after now.
CreatedByNow == \A p \in DOMAIN dao_proposals : dao_proposals[p].created_ts <= now

\* A stake that may vote on a proposal is no more than it was at its creation.
OldStakesOnRoll ==
  \A p \in DOMAIN dao_proposals, u \in Stakers :
    StakeOldEnough(p, u) => stakes[u].amount <= roll[p][u]

IInv == StakesTyped /\ ProposalsTyped /\ CreatedByNow /\ OldStakesOnRoll /\ VotesWithinRoll

-----------------------------------------------------------------------------
\* Products and quotients of naturals are naturals.
LEMMA NatProduct ==
  ASSUME NEW a \in Nat, NEW b \in Nat
  PROVE  a * b \in Nat
  OBVIOUS

LEMMA NatQuotient ==
  ASSUME NEW a \in Nat, NEW b \in Nat \ {0}
  PROVE  a \div b \in Nat
  OBVIOUS

\* A settlement changes neither the amount of a stake nor its time.
LEMMA SettledStake ==
  ASSUME NEW s \in StakePosition, index \in Nat
  PROVE  /\ Settled(s) \in StakePosition
         /\ Settled(s).amount = s.amount
         /\ Settled(s).staked_at = s.staked_at
<1>1. s.amount * index \in Nat
  BY NatProduct DEF StakePosition
<1>2. Accrued(s) \in Nat
  BY <1>1 DEF Accrued, StakePosition
<1>3. Accrued(s) \div RewardScale \in Nat
  BY <1>2, NatQuotient, StakingAssumption
<1>4. s.pending_rewards + Accrued(s) \div RewardScale \in Nat
  BY <1>3 DEF StakePosition
<1> HIDE DEF Accrued
<1> QED
  BY <1>1, <1>4 DEF Settled, StakePosition

\* A resized stake has the new amount and its old time.
LEMMA ResizedStake ==
  ASSUME NEW s \in StakePosition, NEW amount \in Nat, index \in Nat
  PROVE  /\ Resized(s, amount) \in StakePosition
         /\ Resized(s, amount).amount = amount
         /\ Resized(s, amount).staked_at = s.staked_at
<1>1. amount * index \in Nat
  BY NatProduct
<1> QED
  BY <1>1 DEF Resized, StakePosition

-----------------------------------------------------------------------------
\* A step of the staking module keeps the index typed, and no stake whose time
\* did not change grows: staking stamps a stake with the clock.
LEMMA StakingStep ==
  ASSUME StakesTyped, StakingNext
  PROVE  /\ StakesTyped'
         /\ now <= now'
         /\ \A u \in Stakers :
              \/ stakes'[u].staked_at = now
              \/ /\ stakes'[u].staked_at = stakes[u].staked_at
                 /\ stakes'[u].amount <= stakes[u].amount
<1> USE DEF StakesTyped
<1>1. CASE Tick
  BY <1>1 DEF Tick, pool, StakePosition
<1>2. ASSUME NEW u \in Stakers, NEW a \in StakeAmounts, StakeLynx(u, a)
      PROVE  /\ StakesTyped'
             /\ now <= now'
             /\ \A w \in Stakers :
                  \/ stakes'[w].staked_at = now
                  \/ /\ stakes'[w].staked_at = stakes[w].staked_at
                     /\ stakes'[w].amount <= stakes[w].amount
  <2> DEFINE settled == Settled(stakes[u])
             resized == Resized(settled, settled.amount + a)
             stamped == Stamped(resized)
  <2>1. a \in Nat
    BY StakingAssumption
  <2>2. settled \in StakePosition
    BY SettledStake
  <2>3. settled.amount + a \in Nat
    BY <2>1, <2>2 DEF StakePosition
  <2>4. resized \in StakePosition
    BY <2>2, <2>3, ResizedStake
  <2>5. stamped \in StakePosition /\ stamped.staked_at = now
    BY <2>4 DEF Stamped, StakePosition
  <2>6. stakes' = [stakes EXCEPT ![u] = stamped] /\ UNCHANGED <<now, index>>
        /\ total_staked' = total_staked + a
    BY <1>2 DEF StakeLynx
  <2> HIDE DEF settled, resized, stamped
  <2> QED
    BY <2>1, <2>5, <2>6 DEF StakePosition
<1>3. ASSUME NEW u \in Stakers, NEW a \in StakeAmounts, UnstakeLynx(u, a)
      PROVE  /\ StakesTyped'
             /\ now <= now'
             /\ \A w \in Stakers :
                  /\ stakes'[w].staked_at = stakes[w].staked_at
                  /\ stakes'[w].amount <= stakes[w].amount
  <2> DEFINE settled == Settled(stakes[u])
             resized == Resized(settled, settled.amount - a)
  <2>1. a \in Nat /\ stakes[u].amount >= a
    BY <1>3, StakingAssumption DEF UnstakeLynx, MayUnstake
  <2>2. /\ settled \in StakePosition
        /\ settled.amount = stakes[u].amount
        /\ settled.staked_at = stakes[u].staked_at
    BY SettledStake
  <2>3. settled.amount - a \in Nat
    BY <2>1, <2>2 DEF StakePosition
  <2>4. /\ resized \in StakePosition
        /\ resized.amount = stakes[u].amount - a
        /\ resized.staked_at = stakes[u].staked_at
    BY <2>2, <2>3, ResizedStake
  <2>5. stakes' = [stakes EXCEPT ![u] = resized] /\ UNCHANGED <<now, index>>
        /\ total_staked' = total_staked - a
    BY <1>3 DEF UnstakeLynx
  <2> HIDE DEF settled, resized
  <2> QED
    BY <2>1, <2>4, <2>5 DEF StakePosition
<1>4. ASSUME NEW u \in Stakers, ClaimStakingRewards(u)
      PROVE  /\ StakesTyped'
             /\ now <= now'
             /\ \A w \in Stakers :
                  /\ stakes'[w].staked_at = stakes[w].staked_at
                  /\ stakes'[w].amount <= stakes[w].amount
  <2> DEFINE settled == Settled(stakes[u])
             claimed == [settled EXCEPT !.pending_rewards = 0]
  <2>1. /\ settled \in StakePosition
        /\ settled.amount = stakes[u].amount
        /\ settled.staked_at = stakes[u].staked_at
    BY SettledStake
  <2> HIDE DEF settled
  <2>2. /\ claimed \in StakePosition
        /\ claimed.amount = stakes[u].amount
        /\ claimed.staked_at = stakes[u].staked_at
    BY <2>1 DEF StakePosition
  <2>3. stakes' = [stakes EXCEPT ![u] = claimed] /\ UNCHANGED <<now, index, total_staked>>
    BY <1>4 DEF ClaimStakingRewards, settled
  <2> HIDE DEF claimed
  <2> QED
    BY <2>2, <2>3 DEF StakePosition
<1>5. ASSUME NEW fee \in Fees, CreditStakers(fee)
      PROVE  StakesTyped' /\ UNCHANGED <<now, stakes>>
  <2>1. fee * RewardScale \in Nat
    BY NatProduct, StakingAssumption
  <2>2. total_staked \in Nat \ {0}
    BY <1>5 DEF CreditStakers
  <2>3. MulDiv(fee, RewardScale, total_staked) \in Nat
    BY <2>1, <2>2, NatQuotient DEF MulDiv
  <2> QED
    BY <1>5, <2>3 DEF CreditStakers
<1> QED
  <2>1. CASE \E fee \in Fees : CreditStakers(fee)
    BY <1>5, <2>1 DEF StakePosition
  <2> QED
    BY <1>1, <1>2, <1>3, <1>4, <2>1 DEF StakingNext

\* What a proof about a proposal starts from.
LEMMA ProposalFacts ==
  ASSUME IInv, NEW p \in DOMAIN dao_proposals
  PROVE  /\ dao_proposals[p] \in DaoProposal
         /\ dao_proposals[p].created_ts \in Nat
         /\ dao_proposals[p].created_ts <= now
         /\ \A u \in Stakers : roll[p][u] \in Nat
<1>1. dao_proposals[p] \in DaoProposal
  BY DEF IInv, ProposalsTyped
<1>2. dao_proposals[p].created_ts \in Nat
  BY <1>1 DEF DaoProposal
<1>3. dao_proposals[p].created_ts <= now
  BY DEF IInv, CreatedByNow
<1>4. roll[p] \in [Stakers -> Nat]
  BY DEF IInv, ProposalsTyped
<1> QED
  BY <1>1, <1>2, <1>3, <1>4

\* Every step of the staking module keeps what a vote may weigh.
LEMMA StakingKeeps ==
  ASSUME IInv, StakingNext, UNCHANGED daoVars
  PROVE  IInv'
<1>1. StakesTyped' /\ now \in Nat /\ now' \in Nat /\ now <= now'
  BY StakingStep DEF IInv, StakesTyped
<1>2. UNCHANGED <<dao_proposals, dao_votes, roll>>
  BY DEF daoVars
<1>3. ProposalsTyped'
  BY <1>2 DEF IInv, ProposalsTyped, DaoVote
<1>4. CreatedByNow'
  <2> SUFFICES ASSUME NEW p \in DOMAIN dao_proposals
               PROVE  dao_proposals[p].created_ts <= now'
    BY <1>2 DEF CreatedByNow
  <2>1. dao_proposals[p].created_ts \in Nat /\ dao_proposals[p].created_ts <= now
    BY ProposalFacts
  <2> QED
    BY <1>1, <2>1
<1>5. OldStakesOnRoll'
  <2> SUFFICES ASSUME NEW p \in DOMAIN dao_proposals, NEW u \in Stakers, StakeOldEnough(p, u)'
               PROVE  stakes'[u].amount <= roll[p][u]
    BY <1>2 DEF OldStakesOnRoll
  <2>1. dao_proposals[p].created_ts \in Nat /\ dao_proposals[p].created_ts <= now
    BY ProposalFacts
  <2>2. stakes'[u].staked_at > 0 /\ stakes'[u].staked_at < dao_proposals[p].created_ts
    BY <1>2 DEF StakeOldEnough
  <2>3. stakes'[u].staked_at = stakes[u].staked_at /\ stakes'[u].amount <= stakes[u].amount
    BY <1>1, <2>1, <2>2, StakingStep DEF IInv
  <2>4. stakes[u].amount <= roll[p][u]
    BY <2>2, <2>3 DEF IInv, OldStakesOnRoll, StakeOldEnough
  <2>5. roll[p][u] \in Nat /\ stakes[u].amount \in Nat /\ stakes'[u].amount \in Nat
    BY <1>1, ProposalFacts DEF IInv, ProposalsTyped, StakesTyped, StakePosition
  <2> QED
    BY <2>3, <2>4, <2>5
<1>6. VotesWithinRoll'
  BY <1>2 DEF IInv, VotesWithinRoll
<1> QED
  BY <1>1, <1>3, <1>4, <1>5, <1>6 DEF IInv

\* The roll of a new proposal is taken from the stakes as they are.
LEMMA CreateKeeps ==
  ASSUME IInv, NEW d \in Durations, NEW isAdmin, NEW paused,
         CreateDaoProposal(isAdmin, paused, d)
  PROVE  IInv'
<1> DEFINE proposal == [created_ts |-> now, end_ts |-> now + d,
                        votes_yes |-> 0, votes_no |-> 0, status |-> "Active"]
           taken == [u \in Stakers |-> stakes[u].amount]
           n == Len(dao_proposals)
<1>1. /\ dao_proposals' = Append(dao_proposals, proposal)
      /\ roll' = Append(roll, taken)
      /\ UNCHANGED <<now, index, total_staked, stakes, dao_votes>>
  BY DEF CreateDaoProposal, stakingVars, pool
<1>2. now \in Nat /\ d \in Nat /\ proposal \in DaoProposal
  BY DaoAssumption DEF IInv, StakesTyped, DaoProposal
<1>3. taken \in [Stakers -> Nat]
  BY DEF IInv, StakesTyped, StakePosition
<1>4. /\ dao_proposals \in Seq(DaoProposal) /\ roll \in Seq([Stakers -> Nat])
      /\ Len(roll) = n /\ n \in Nat
      /\ DOMAIN dao_proposals = 1..n /\ DOMAIN roll = 1..n
  BY DEF IInv, ProposalsTyped
<1> HIDE DEF proposal, taken
<1>5. /\ dao_proposals' \in Seq(DaoProposal) /\ roll' \in Seq([Stakers -> Nat])
      /\ Len(dao_proposals') = n + 1 /\ Len(roll') = n + 1
      /\ DOMAIN dao_proposals' = 1..(n + 1)
      /\ \A p \in 1..n : dao_proposals'[p] = dao_proposals[p] /\ roll'[p] = roll[p]
      /\ dao_proposals'[n + 1] = proposal /\ roll'[n + 1] = taken
  BY <1>1, <1>2, <1>3, <1>4, AppendProperties
<1> HIDE DEF n
<1>6. StakesTyped'
  BY <1>1 DEF IInv, StakesTyped
<1>7. dao_votes \subseteq DaoVote
  BY DEF IInv, ProposalsTyped
<1>8. DaoVote \subseteq DaoVote'
  BY <1>4, <1>5 DEF DaoVote
<1>9. ProposalsTyped'
  BY <1>1, <1>5, <1>7, <1>8 DEF ProposalsTyped
<1>10. CreatedByNow'
  BY <1>1, <1>2, <1>4, <1>5 DEF IInv, CreatedByNow, proposal
<1>11. OldStakesOnRoll'
  <2> SUFFICES ASSUME NEW p \in 1..(n + 1), NEW u \in Stakers, StakeOldEnough(p, u)'
               PROVE  stakes[u].amount <= roll'[p][u]
    BY <1>1, <1>5 DEF OldStakesOnRoll
  <2>1. CASE p \in 1..n
    BY <1>1, <1>4, <1>5, <2>1 DEF IInv, OldStakesOnRoll, StakeOldEnough
  <2>2. CASE p = n + 1
    BY <1>5, <2>2 DEF taken, IInv, StakesTyped, StakePosition
  <2> QED
    BY <1>4, <2>1, <2>2
<1>12. VotesWithinRoll'
  BY <1>1, <1>4, <1>5, <1>7 DEF IInv, VotesWithinRoll, DaoVote
<1> QED
  BY <1>6, <1>9, <1>10, <1>11, <1>12 DEF IInv

\* A step that leaves the stakes, the clock and the times of the proposals alone
\* keeps everything but the votes.
LEMMA SameTimesKeep ==
  ASSUME IInv, UNCHANGED <<stakingVars, roll>>,
         dao_proposals' \in Seq(DaoProposal),
         Len(dao_proposals') = Len(dao_proposals),
         \A p \in DOMAIN dao_proposals :
           dao_proposals'[p].created_ts = dao_proposals[p].created_ts,
         dao_votes' \subseteq DaoVote, VotesWithinRoll'
  PROVE  IInv'
<1>1. UNCHANGED <<now, index, total_staked, stakes, roll>>
  BY DEF stakingVars, pool
<1>2. dao_proposals \in Seq(DaoProposal) /\ DOMAIN dao_proposals' = DOMAIN dao_proposals
  BY DEF IInv, ProposalsTyped
<1>3. DaoVote' = DaoVote
  BY <1>2 DEF DaoVote
<1>4. StakesTyped'
  BY <1>1 DEF IInv, StakesTyped
<1>5. ProposalsTyped'
  BY <1>1, <1>2, <1>3 DEF IInv, ProposalsTyped
<1>6. CreatedByNow'
  BY <1>1, <1>2 DEF IInv, CreatedByNow
<1>7. OldStakesOnRoll'
  BY <1>1, <1>2 DEF IInv, OldStakesOnRoll, StakeOldEnough
<1> QED
  BY <1>4, <1>5, <1>6, <1>7 DEF IInv

\* A vote weighs the stake it was cast with, which is on the roll.
LEMMA CastKeeps ==
  ASSUME IInv, NEW p \in DOMAIN dao_proposals, NEW u \in Stakers, NEW yes \in BOOLEAN,
         CastDaoVote(p, u, yes)
  PROVE  IInv'
<1> DEFINE vote == [proposal |-> p, voter |-> u, vote_yes |-> yes, weight |-> stakes[u].amount]
           for == IF yes THEN stakes[u].amount ELSE 0
           against == IF yes THEN 0 ELSE stakes[u].amount
<1>1. dao_proposals \in Seq(DaoProposal) /\ stakes[u].amount \in Nat
  BY DEF IInv, ProposalsTyped, StakesTyped, StakePosition
<1>2. dao_proposals' = [dao_proposals EXCEPT ![p].votes_yes = @ + for, ![p].votes_no = @ + against]
  BY DEF CastDaoVote
<1>3. for \in Nat /\ against \in Nat
  BY <1>1
<1>4. dao_votes' = dao_votes \cup {vote} /\ UNCHANGED <<stakingVars, roll>>
  BY DEF CastDaoVote
<1>5. vote \in DaoVote
  BY <1>1 DEF DaoVote
<1>6. vote.weight <= roll[vote.proposal][vote.voter]
  BY DEF CastDaoVote, IInv, OldStakesOnRoll
<1> HIDE DEF vote, for, against
<1>7. /\ dao_proposals' \in Seq(DaoProposal)
      /\ Len(dao_proposals') = Len(dao_proposals)
      /\ \A q \in DOMAIN dao_proposals :
           dao_proposals'[q].created_ts = dao_proposals[q].created_ts
  <2> DEFINE counted == [dao_proposals[p] EXCEPT !.votes_yes = @ + for, !.votes_no = @ + against]
  <2>1. dao_proposals[p] \in DaoProposal
    BY <1>1
  <2>2. dao_proposals[p].votes_yes + for \in Nat /\ dao_proposals[p].votes_no + against \in Nat
    BY <1>3, <2>1 DEF DaoProposal
  <2>3. counted \in DaoProposal /\ counted.created_ts = dao_proposals[p].created_ts
    BY <2>1, <2>2 DEF DaoProposal
  <2>4. dao_proposals' = [dao_proposals EXCEPT ![p] = counted]
    BY <1>2, <2>1 DEF DaoProposal
  <2> HIDE DEF counted
  <2> QED
    BY <1>1, <2>3, <2>4
<1>8. VotesWithinRoll'
  BY <1>4, <1>6 DEF IInv, VotesWithinRoll
<1>9. dao_votes' \subseteq DaoVote
  BY <1>4, <1>5 DEF IInv, ProposalsTyped
<1> QED
  BY <1>4, <1>7, <1>8, <1>9, SameTimesKeep

LEMMA FinalizeKeeps ==
  ASSUME IInv, NEW p \in DOMAIN dao_proposals, FinalizeDaoProposal(p)
  PROVE  IInv'
<1>1. dao_proposals \in Seq(DaoProposal)
  BY DEF IInv, ProposalsTyped
<1>2. Outcome(p) \in {"Passed", "Rejected"}
  BY DEF Outcome
<1>3. /\ dao_proposals' = [dao_proposals EXCEPT ![p].status = Outcome(p)]
      /\ UNCHANGED <<stakingVars, dao_votes, roll>>
  BY DEF FinalizeDaoProposal
<1>4. /\ dao_proposals' \in Seq(DaoProposal)
      /\ Len(dao_proposals') = Len(dao_proposals)
      /\ \A q \in DOMAIN dao_proposals :
           dao_proposals'[q].created_ts = dao_proposals[q].created_ts
  <2>1. dao_proposals[p] \in DaoProposal
    BY <1>1
  <2>2. [dao_proposals[p] EXCEPT !.status = Outcome(p)] \in DaoProposal
    BY <1>2, <2>1 DEF DaoProposal
  <2> QED
    BY <1>1, <1>3, <2>1, <2>2 DEF DaoProposal
<1>5. dao_votes' \subseteq DaoVote /\ VotesWithinRoll'
  BY <1>3 DEF IInv, ProposalsTyped, VotesWithinRoll
<1> QED
  BY <1>3, <1>4, <1>5, SameTimesKeep
-----------------------------------------------------------------------------
LEMMA InitHolds == Init => IInv
<1> SUFFICES ASSUME Init PROVE IInv
  OBVIOUS
<1>1. StakesTyped
  BY DEF Init, StakingInit, StakesTyped, NoStake, StakePosition
<1>2. dao_proposals = <<>> /\ dao_votes = {} /\ roll = <<>> /\ DOMAIN dao_proposals = {}
  BY DEF Init
<1>3. ProposalsTyped
  BY <1>2 DEF ProposalsTyped
<1>4. CreatedByNow /\ OldStakesOnRoll /\ VotesWithinRoll
  BY <1>2 DEF CreatedByNow, OldStakesOnRoll, VotesWithinRoll
<1> QED
  BY <1>1, <1>3, <1>4 DEF IInv

LEMMA StepKeeps == IInv /\ [Next]_vars => IInv'
<1> SUFFICES ASSUME IInv, [Next]_vars PROVE IInv'
  OBVIOUS
<1>1. CASE StakingNext /\ UNCHANGED daoVars
  BY <1>1, StakingKeeps
<1>2. CASE DaoNext
  <2>1. CASE \E z, paused \in BOOLEAN, d \in Durations :
               now + d <= MaxTime /\ CreateDaoProposal(z, paused, d)
    BY <2>1, CreateKeeps
  <2>2. CASE \E p \in DOMAIN dao_proposals, u \in Stakers, yes \in BOOLEAN : CastDaoVote(p, u, yes)
    BY <2>2, CastKeeps
  <2>3. CASE \E p \in DOMAIN dao_proposals : FinalizeDaoProposal(p)
    BY <2>3, FinalizeKeeps
  <2> QED
    BY <1>2, <2>1, <2>2, <2>3 DEF DaoNext
<1>3. CASE UNCHANGED vars
  <2>1. UNCHANGED <<now, index, total_staked, stakes, dao_proposals, dao_votes, roll>>
    BY <1>3 DEF vars, stakingVars, pool, daoVars
  <2> QED
    BY <2>1 DEF IInv, StakesTyped, ProposalsTyped, CreatedByNow, OldStakesOnRoll,
                VotesWithinRoll, StakeOldEnough, DaoVote
<1> QED
  BY <1>1, <1>2, <1>3 DEF Next

\* No vote ever weighs more than its voter had staked when the proposal was
\* created, whatever is unstaked, sent around and staked again before the vote.
THEOREM VotesStayWithinRoll == Spec => []VotesWithinRoll
<1>1. IInv => VotesWithinRoll
  BY DEF IInv
<1> QED
  BY InitHolds, StepKeeps, <1>1, PTL DEF Spec
-----------------------------------------------------------------------------
\* What is still owed to a stake, scaled, and what the stakes amount to.
Owing(s) == RewardScale * s.pending_rewards + Accrued(s)
Amounts == [u \in Stakers |-> stakes[u].amount]

\* No stake was settled at a higher index than the present one.
DebtsFit ==
  \A u \in Stakers : stakes[u].reward_debt_scaled <= stakes[u].amount * index

\* The rewards vault holds what is owed to all stakers, to the scaled unit.
OwedBacked == RewardScale * rewards_vault >= SumFunction(owed)

StakingInv == StakingTypeOK /\ DebtsFit /\ StakesBacked /\ EarnedByShare /\ OwedBacked

\* Under a debt that fits, what a stake accrued is a plain difference.
LEMMA AccruedExact ==
  ASSUME NEW s \in StakePosition, index \in Nat, s.reward_debt_scaled <= s.amount * index
  PROVE  /\ Accrued(s) = s.amount * index - s.reward_debt_scaled
         /\ Accrued(s) \in Nat
<1>1. s.amount * index \in Nat /\ s.reward_debt_scaled \in Nat /\ s.amount \in Nat
  BY NatProduct DEF StakePosition
<1>2. CASE s.amount = 0
  <2>1. s.amount * index = 0
    BY <1>2
  <2> QED
    BY <1>1, <1>2, <2>1 DEF Accrued
<1>3. CASE s.amount # 0
  BY <1>1, <1>3 DEF Accrued
<1> QED
  BY <1>2, <1>3

\* A settlement moves what accrued to what is pending, but for the fraction of
\* a lamport it truncates.
LEMMA SettledOwes ==
  ASSUME NEW s \in StakePosition, index \in Nat, s.reward_debt_scaled <= s.amount * index
  PROVE  /\ Settled(s) \in StakePosition
         /\ Settled(s).amount = s.amount
         /\ Settled(s).reward_debt_scaled = s.amount * index
         /\ Accrued(s) % RewardScale \in Nat
         /\ RewardScale * Settled(s).pending_rewards = Owing(s) - (Accrued(s) % RewardScale)
<1> DEFINE acc == Accrued(s)
           whole == acc \div RewardScale
           dust == acc % RewardScale
<1>1. acc \in Nat
  BY AccruedExact
<1>2. RewardScale \in Nat \ {0}
  BY StakingAssumption
<1>3. Owing(s) = RewardScale * s.pending_rewards + acc
  BY DEF Owing
<1>4. Settled(s) = [s EXCEPT !.pending_rewards = s.pending_rewards + whole,
                             !.reward_debt_scaled = s.amount * index]
  BY DEF Settled
<1>5. s.amount * index \in Nat
  BY NatProduct DEF StakePosition
<1> HIDE DEF acc
<1>6. whole \in Nat /\ dust \in Nat /\ acc = RewardScale * whole + dust
  BY <1>1, <1>2
<1> HIDE DEF whole, dust
<1>7. s.pending_rewards \in Nat /\ s.pending_rewards + whole \in Nat
  BY <1>6 DEF StakePosition
<1>8. /\ Settled(s) \in StakePosition
      /\ Settled(s).amount = s.amount
      /\ Settled(s).reward_debt_scaled = s.amount * index
      /\ Settled(s).pending_rewards = s.pending_rewards + whole
  <2> DEFINE debt == s.amount * index
             pending == s.pending_rewards + whole
  <2> HIDE DEF debt, pending
  <2>1. debt \in Nat /\ pending \in Nat
    BY <1>5, <1>7 DEF debt, pending
  <2>2. Settled(s) = [s EXCEPT !.pending_rewards = pending, !.reward_debt_scaled = debt]
    BY <1>4 DEF debt, pending
  <2>3. /\ Settled(s) \in StakePosition
        /\ Settled(s).amount = s.amount
        /\ Settled(s).reward_debt_scaled = debt
        /\ Settled(s).pending_rewards = pending
    BY <2>1, <2>2 DEF StakePosition
  <2> QED
    BY <2>3 DEF debt, pending
<1>9. RewardScale * (s.pending_rewards + whole) = RewardScale * s.pending_rewards + acc - dust
  BY <1>1, <1>2, <1>6, <1>7
<1>10. RewardScale * Settled(s).pending_rewards = Owing(s) - dust
  <2> HIDE DEF dust, whole
  <2> QED
    BY <1>1, <1>2, <1>3, <1>6, <1>7, <1>8, <1>9
<1> QED
  BY <1>6, <1>8, <1>10 DEF dust, acc

\* The amounts and what is owed are whole numbers for finitely many stakers.
LEMMA StakingSums ==
  ASSUME StakingInv
  PROVE  /\ IsFiniteSet(Stakers)
         /\ \A u \in Stakers : stakes[u] \in StakePosition /\ Amounts[u] \in Nat /\ owed[u] \in Int
         /\ total_staked = SumFunctionOnSet(Amounts, Stakers)
         /\ stake_vault = SumFunctionOnSet(Amounts, Stakers)
         /\ RewardScale * rewards_vault >= SumFunctionOnSet(owed, Stakers)
         /\ SumFunctionOnSet(owed, Stakers) \in Int
<1>1. IsFiniteSet(Stakers)
  BY StakingAssumption
<1>2. \A u \in Stakers : stakes[u] \in StakePosition /\ Amounts[u] \in Nat /\ owed[u] \in Int
  BY DEF StakingInv, StakingTypeOK, StakePosition, Amounts
<1>3. DOMAIN owed = Stakers /\ DOMAIN Amounts = Stakers
  BY DEF StakingInv, StakingTypeOK, Amounts
<1>4. SumFunction(Amounts) = SumFunctionOnSet(Amounts, Stakers)
      /\ SumFunction(owed) = SumFunctionOnSet(owed, Stakers)
  BY <1>3 DEF SumFunction
<1>5. total_staked = SumFunction(Amounts) /\ stake_vault = SumFunction(Amounts)
  BY DEF StakingInv, StakesBacked, Amounts
<1>6. SumFunctionOnSet(owed, Stakers) \in Int
  BY ONLY <1>1, <1>2, SumInt
<1> QED
  BY <1>1, <1>2, <1>4, <1>5, <1>6 DEF StakingInv, OwedBacked

\* A step that settles the stake of u, resizes it, and pays u no more than what
\* it strikes off what is owed to u.
LEMMA UpdateKeeps ==
  ASSUME StakingInv, NEW u \in Stakers, NEW t \in StakePosition, NEW d \in Int, NEW paid \in Nat,
         t.reward_debt_scaled = t.amount * index,
         RewardScale * t.pending_rewards = owed[u] - d,
         paid <= rewards_vault, RewardScale * paid <= d,
         now' \in Nat \ {0}, index' = index,
         stakes' = [stakes EXCEPT ![u] = t],
         owed' = [owed EXCEPT ![u] = @ - d],
         total_staked' = total_staked - stakes[u].amount + t.amount,
         stake_vault' = stake_vault - stakes[u].amount + t.amount,
         rewards_vault' = rewards_vault - paid
  PROVE  StakingInv'
<1> DEFINE F == Amounts
           G == Amounts'
           H == owed
           K == owed'
<1>1. /\ IsFiniteSet(Stakers)
      /\ \A w \in Stakers : stakes[w] \in StakePosition /\ F[w] \in Nat /\ H[w] \in Int
      /\ total_staked = SumFunctionOnSet(F, Stakers)
      /\ stake_vault = SumFunctionOnSet(F, Stakers)
      /\ RewardScale * rewards_vault >= SumFunctionOnSet(H, Stakers)
      /\ SumFunctionOnSet(H, Stakers) \in Int
  BY StakingSums
<1>2. stakes \in [Stakers -> StakePosition] /\ owed \in [Stakers -> Int]
      /\ index \in Nat /\ rewards_vault \in Nat
  BY DEF StakingInv, StakingTypeOK
<1>3. t.amount \in Nat /\ t.pending_rewards \in Nat /\ t.reward_debt_scaled \in Nat
  BY DEF StakePosition
<1>4. stakes' \in [Stakers -> StakePosition] /\ owed' \in [Stakers -> Int]
  BY <1>2
<1>5. /\ stakes'[u] = t /\ owed'[u] = owed[u] - d
      /\ \A w \in Stakers \ {u} : stakes'[w] = stakes[w] /\ owed'[w] = owed[w]
  BY <1>2
<1>6. /\ F[u] = stakes[u].amount /\ G[u] = t.amount
      /\ \A w \in Stakers : G[w] \in Nat
      /\ \A w \in Stakers \ {u} : F[w] = G[w]
  BY <1>1, <1>3, <1>5 DEF Amounts
<1>7. /\ K[u] = H[u] - d
      /\ \A w \in Stakers : K[w] \in Int
      /\ \A w \in Stakers \ {u} : H[w] = K[w]
  BY <1>4, <1>5
<1>8. DOMAIN G = Stakers /\ DOMAIN K = Stakers
  BY <1>4 DEF Amounts
<1>9. SumFunction(G) = SumFunctionOnSet(G, Stakers) /\ SumFunction(K) = SumFunctionOnSet(K, Stakers)
  BY <1>8 DEF SumFunction
<1> HIDE DEF F, G, H, K
<1>10. SumFunctionOnSet(G, Stakers) = SumFunctionOnSet(F, Stakers) - F[u] + G[u]
  <2>1. \A w \in Stakers : F[w] \in Int /\ G[w] \in Int
    BY <1>1, <1>6
  <2> QED
    BY ONLY <1>1, <1>6, <2>1, SumUpdate
<1>11. SumFunctionOnSet(K, Stakers) = SumFunctionOnSet(H, Stakers) - H[u] + K[u]
  <2>1. \A w \in Stakers : H[w] \in Int /\ K[w] \in Int
    BY <1>1, <1>7
  <2> QED
    BY ONLY <1>1, <1>7, <2>1, SumUpdate
<1>12. SumFunctionOnSet(G, Stakers) \in Nat
  BY ONLY <1>1, <1>6, SumNat
<1>13. total_staked' = SumFunction(G) /\ stake_vault' = SumFunction(G)
  BY <1>1, <1>6, <1>9, <1>10
<1>14. StakesBacked'
  BY <1>13 DEF StakesBacked, Amounts, G
<1>15. rewards_vault' \in Nat
  BY <1>2
<1>16. StakingTypeOK'
  BY <1>2, <1>4, <1>9, <1>12, <1>13, <1>15 DEF StakingTypeOK
<1>17. DebtsFit'
  <2> SUFFICES ASSUME NEW w \in Stakers
               PROVE  stakes'[w].reward_debt_scaled <= stakes'[w].amount * index
    BY DEF DebtsFit
  <2>1. CASE w = u
    <3>1. t.amount * index \in Int
      BY <1>3
    <3> QED
      BY <1>5, <2>1, <3>1
  <2>2. CASE w # u
    BY <1>5, <2>2 DEF StakingInv, DebtsFit
  <2> QED
    BY <2>1, <2>2
<1>18. EarnedByShare'
  <2> SUFFICES ASSUME NEW w \in Stakers
               PROVE  RewardScale * stakes'[w].pending_rewards + Accrued(stakes[w])' = owed'[w]
    BY DEF EarnedByShare
  <2>1. CASE w = u
    <3>1. Accrued(stakes[w])' = 0
      <4>1. ~(t.amount * index > t.reward_debt_scaled)
        BY <1>3
      <4>2. stakes'[w] = t
        BY <1>5, <2>1
      <4> QED
        BY <4>1, <4>2 DEF Accrued
    <3>2. stakes'[w].pending_rewards = t.pending_rewards /\ owed'[w] = owed[u] - d
      BY <1>5, <2>1
    <3>3. RewardScale * t.pending_rewards \in Int
      BY <1>1, <1>7 DEF H
    <3> QED
      BY <3>1, <3>2, <3>3
  <2>2. CASE w # u
    <3>1. stakes'[w] = stakes[w] /\ owed'[w] = owed[w]
      BY <1>5, <2>2
    <3>2. Accrued(stakes[w])' = Accrued(stakes[w])
      BY <3>1 DEF Accrued
    <3> QED
      BY <3>1, <3>2 DEF StakingInv, EarnedByShare
  <2> QED
    BY <2>1, <2>2
<1>19. OwedBacked'
  <2>1. RewardScale * (rewards_vault - paid) = RewardScale * rewards_vault - RewardScale * paid
        /\ RewardScale * rewards_vault \in Int /\ RewardScale * paid \in Int
    BY <1>2, StakingAssumption
  <2>2. SumFunctionOnSet(K, Stakers) = SumFunctionOnSet(H, Stakers) - d
    BY <1>1, <1>7, <1>11
  <2>3. RewardScale * rewards_vault' >= SumFunction(K)
    <3> DEFINE a == RewardScale * rewards_vault
               b == RewardScale * paid
               s == SumFunctionOnSet(H, Stakers)
    <3> HIDE DEF a, b, s
    <3>1. a \in Int /\ b \in Int /\ s \in Int /\ a >= s /\ b <= d
      BY <1>1, <2>1 DEF a, b, s
    <3>2. a - b >= s - d
      BY <3>1
    <3>3. RewardScale * rewards_vault' = a - b
      BY <2>1 DEF a, b
    <3>4. SumFunction(K) = s - d
      BY <1>9, <2>2 DEF s
    <3> QED
      BY <3>2, <3>3, <3>4
  <2> QED
    BY <2>3 DEF OwedBacked, K
<1> QED
  BY <1>14, <1>16, <1>17, <1>18, <1>19 DEF StakingInv

\* What a settlement of u's stake does, and what it still owes it then.
LEMMA SettlementFacts ==
  ASSUME StakingInv, NEW u \in Stakers
  PROVE  /\ Settled(stakes[u]) \in StakePosition
         /\ Settled(stakes[u]).amount = stakes[u].amount
         /\ Settled(stakes[u]).reward_debt_scaled = stakes[u].amount * index
         /\ Dust(u) \in Nat
         /\ RewardScale * Settled(stakes[u]).pending_rewards = owed[u] - Dust(u)
<1>1. stakes[u] \in StakePosition /\ index \in Nat
      /\ stakes[u].reward_debt_scaled <= stakes[u].amount * index
  BY DEF StakingInv, StakingTypeOK, DebtsFit
<1>2. owed[u] = Owing(stakes[u])
  BY DEF StakingInv, EarnedByShare, Owing
<1> QED
  BY <1>1, <1>2, SettledOwes DEF Dust

LEMMA StakeKeepsClaims ==
  ASSUME StakingInv, NEW u \in Stakers, NEW a \in StakeAmounts, StakeLynx(u, a)
  PROVE  StakingInv'
<1> DEFINE settled == Settled(stakes[u])
           resized == Resized(settled, settled.amount + a)
           t == Stamped(resized)
           paid == 0
<1>1. /\ settled \in StakePosition
      /\ settled.amount = stakes[u].amount
      /\ Dust(u) \in Nat
      /\ RewardScale * settled.pending_rewards = owed[u] - Dust(u)
  BY SettlementFacts
<1>2. now \in Nat \ {0} /\ index \in Nat /\ a \in Nat /\ RewardScale \in Nat
      /\ total_staked \in Nat /\ stake_vault \in Nat /\ rewards_vault \in Nat
  BY StakingAssumption DEF StakingInv, StakingTypeOK
<1>3. /\ stakes' = [stakes EXCEPT ![u] = t]
      /\ stake_vault' = stake_vault + a /\ total_staked' = total_staked + a
      /\ owed' = [owed EXCEPT ![u] = @ - Dust(u)]
      /\ UNCHANGED <<now, index, rewards_vault>>
  BY DEF StakeLynx
<1> HIDE DEF settled
<1>4. settled.amount \in Nat /\ settled.amount + a \in Nat /\ (settled.amount + a) * index \in Nat
  BY <1>1, <1>2, NatProduct DEF StakePosition
<1>5. /\ t \in StakePosition /\ t.amount = stakes[u].amount + a
      /\ t.reward_debt_scaled = t.amount * index
      /\ t.pending_rewards = settled.pending_rewards
  <2> DEFINE amount == settled.amount + a
             debt == amount * index
  <2>1. resized = [settled EXCEPT !.amount = amount, !.reward_debt_scaled = debt]
    BY DEF Resized
  <2>2. amount \in Nat /\ debt \in Nat /\ amount = stakes[u].amount + a
    BY <1>1, <1>4
  <2>3. debt = amount * index
    OBVIOUS
  <2> HIDE DEF debt, amount
  <2>4. /\ resized \in StakePosition /\ resized.amount = amount
        /\ resized.reward_debt_scaled = debt
        /\ resized.pending_rewards = settled.pending_rewards
    BY <1>1, <2>1, <2>2 DEF StakePosition
  <2> HIDE DEF resized
  <2>5. /\ t \in StakePosition /\ t.amount = resized.amount
        /\ t.reward_debt_scaled = resized.reward_debt_scaled
        /\ t.pending_rewards = resized.pending_rewards
    BY <1>2, <2>4 DEF Stamped, StakePosition
  <2> QED
    BY <2>2, <2>3, <2>4, <2>5
<1> HIDE DEF t
<1>6. /\ total_staked' = total_staked - stakes[u].amount + t.amount
      /\ stake_vault' = stake_vault - stakes[u].amount + t.amount
      /\ rewards_vault' = rewards_vault - paid /\ RewardScale * paid <= Dust(u)
      /\ paid <= rewards_vault /\ paid \in Nat /\ Dust(u) \in Int
      /\ RewardScale * t.pending_rewards = owed[u] - Dust(u)
  BY <1>1, <1>2, <1>3, <1>4, <1>5
<1> HIDE DEF paid
<1> QED
  BY <1>2, <1>3, <1>5, <1>6, UpdateKeeps

LEMMA UnstakeKeepsClaims ==
  ASSUME StakingInv, NEW u \in Stakers, NEW a \in StakeAmounts, UnstakeLynx(u, a)
  PROVE  StakingInv'
<1> DEFINE settled == Settled(stakes[u])
           t == Resized(settled, settled.amount - a)
           paid == 0
<1>1. /\ settled \in StakePosition
      /\ settled.amount = stakes[u].amount
      /\ Dust(u) \in Nat
      /\ RewardScale * settled.pending_rewards = owed[u] - Dust(u)
  BY SettlementFacts
<1>2. now \in Nat \ {0} /\ index \in Nat /\ a \in Nat /\ RewardScale \in Nat
      /\ total_staked \in Nat /\ stake_vault \in Nat /\ rewards_vault \in Nat
  BY StakingAssumption DEF StakingInv, StakingTypeOK
<1>3. /\ stakes' = [stakes EXCEPT ![u] = t]
      /\ stake_vault' = stake_vault - a /\ total_staked' = total_staked - a
      /\ owed' = [owed EXCEPT ![u] = @ - Dust(u)]
      /\ UNCHANGED <<now, index, rewards_vault>>
      /\ stakes[u].amount >= a
  BY DEF UnstakeLynx, MayUnstake
<1> HIDE DEF settled
<1>4. settled.amount \in Nat /\ settled.amount - a \in Nat /\ (settled.amount - a) * index \in Nat
  <2>1. settled.amount \in Nat /\ settled.amount - a \in Nat
    BY <1>1, <1>2, <1>3 DEF StakePosition
  <2> QED
    BY <1>2, <2>1, NatProduct
<1>5. /\ t \in StakePosition /\ t.amount = stakes[u].amount - a
      /\ t.reward_debt_scaled = t.amount * index
      /\ t.pending_rewards = settled.pending_rewards
  <2> DEFINE amount == settled.amount - a
             debt == amount * index
  <2>1. t = [settled EXCEPT !.amount = amount, !.reward_debt_scaled = debt]
    BY DEF Resized
  <2>2. amount \in Nat /\ debt \in Nat /\ amount = stakes[u].amount - a
    BY <1>1, <1>4
  <2>3. debt = amount * index
    OBVIOUS
  <2> HIDE DEF debt, amount, t
  <2>4. /\ t \in StakePosition /\ t.amount = amount
        /\ t.reward_debt_scaled = debt
        /\ t.pending_rewards = settled.pending_rewards
    BY <1>1, <2>1, <2>2 DEF StakePosition
  <2> QED
    BY <2>2, <2>3, <2>4
<1> HIDE DEF t
<1>6. /\ total_staked' = total_staked - stakes[u].amount + t.amount
      /\ stake_vault' = stake_vault - stakes[u].amount + t.amount
      /\ rewards_vault' = rewards_vault - paid /\ RewardScale * paid <= Dust(u)
      /\ paid <= rewards_vault /\ paid \in Nat /\ Dust(u) \in Int
      /\ RewardScale * t.pending_rewards = owed[u] - Dust(u)
  BY <1>1, <1>2, <1>3, <1>4, <1>5
<1> HIDE DEF paid
<1> QED
  BY <1>2, <1>3, <1>5, <1>6, UpdateKeeps

LEMMA ClaimKeepsClaims ==
  ASSUME StakingInv, NEW u \in Stakers, ClaimStakingRewards(u)
  PROVE  StakingInv'
<1> DEFINE settled == Settled(stakes[u])
           amount == settled.pending_rewards
           t == [settled EXCEPT !.pending_rewards = 0]
           d == Dust(u) + RewardScale * amount
<1>1. /\ settled \in StakePosition
      /\ settled.amount = stakes[u].amount
      /\ settled.reward_debt_scaled = stakes[u].amount * index
      /\ Dust(u) \in Nat
      /\ RewardScale * settled.pending_rewards = owed[u] - Dust(u)
  BY SettlementFacts
<1>2. now \in Nat \ {0} /\ index \in Nat /\ RewardScale \in Nat
      /\ total_staked \in Nat /\ stake_vault \in Nat /\ rewards_vault \in Nat
      /\ owed \in [Stakers -> Int]
  BY StakingAssumption DEF StakingInv, StakingTypeOK
<1>3. /\ stakes' = [stakes EXCEPT ![u] = t]
      /\ owed' = [owed EXCEPT ![u] = @ - Dust(u) - RewardScale * amount]
      /\ amount <= rewards_vault /\ rewards_vault' = rewards_vault - amount
      /\ UNCHANGED <<now, index, total_staked, stake_vault>>
  BY <1>2 DEF ClaimStakingRewards
<1> HIDE DEF settled
<1>4. amount \in Nat /\ RewardScale * amount \in Nat /\ stakes[u].amount \in Nat
  BY <1>1, <1>2, NatProduct DEF StakePosition
<1>5. /\ t \in StakePosition /\ t.amount = stakes[u].amount
      /\ t.reward_debt_scaled = t.amount * index
      /\ t.pending_rewards = 0
  BY <1>1 DEF StakePosition
<1> HIDE DEF t, amount
<1>6. d \in Int /\ RewardScale * amount <= d /\ owed[u] - d = 0
      /\ owed[u] - Dust(u) - RewardScale * amount = owed[u] - d
  BY <1>1, <1>2, <1>4 DEF amount
<1>7. owed' = [owed EXCEPT ![u] = @ - d]
  BY <1>3, <1>6
<1> HIDE DEF d
<1>8. /\ total_staked' = total_staked - stakes[u].amount + t.amount
      /\ stake_vault' = stake_vault - stakes[u].amount + t.amount
      /\ RewardScale * t.pending_rewards = owed[u] - d
  BY <1>2, <1>3, <1>4, <1>5, <1>6
<1> QED
  BY <1>2, <1>3, <1>4, <1>5, <1>6, <1>7, <1>8, UpdateKeeps

\* A fee raises the index by no more than the vault can pay to all the stakes.
LEMMA CreditKeepsClaims ==
  ASSUME StakingInv, NEW fee \in Fees, CreditStakers(fee)
  PROVE  StakingInv'
<1> DEFINE rise == MulDiv(fee, RewardScale, total_staked)
           F == Amounts
           H == owed
           K == owed'
           P == [u \in Stakers |-> stakes[u].amount * rise]
<1>1. /\ IsFiniteSet(Stakers)
      /\ \A w \in Stakers : stakes[w] \in StakePosition /\ F[w] \in Nat /\ H[w] \in Int
      /\ total_staked = SumFunctionOnSet(F, Stakers)
      /\ RewardScale * rewards_vault >= SumFunctionOnSet(H, Stakers)
      /\ SumFunctionOnSet(H, Stakers) \in Int
  BY StakingSums
<1>2. /\ now \in Nat \ {0} /\ index \in Nat /\ RewardScale \in Nat \ {0} /\ fee \in Nat
      /\ stake_vault \in Nat /\ rewards_vault \in Nat
      /\ total_staked \in Nat \ {0}
      /\ stakes \in [Stakers -> StakePosition] /\ owed \in [Stakers -> Int]
  BY StakingAssumption DEF StakingInv, StakingTypeOK, CreditStakers
<1>3. /\ rewards_vault' = rewards_vault + fee
      /\ index' = index + rise
      /\ owed' = [u \in Stakers |-> owed[u] + stakes[u].amount * rise]
      /\ UNCHANGED <<now, total_staked, stake_vault, stakes>>
  BY DEF CreditStakers
<1>4. rise \in Nat /\ total_staked * rise <= fee * RewardScale
  BY <1>2, QuotientFits DEF MulDiv
<1> HIDE DEF rise
<1>5. ASSUME NEW w \in Stakers
      PROVE  /\ F[w] = stakes[w].amount /\ stakes[w].amount \in Nat
             /\ P[w] = stakes[w].amount * rise /\ P[w] \in Nat
             /\ K[w] = H[w] + P[w] /\ K[w] \in Int
  <2>1. stakes[w].amount \in Nat /\ F[w] = stakes[w].amount
    BY <1>1 DEF StakePosition, Amounts
  <2>2. stakes[w].amount * rise \in Nat
    BY <1>4, <2>1, NatProduct
  <2> QED
    BY <1>1, <1>3, <2>1, <2>2
<1>6. DOMAIN K = Stakers
  BY <1>3
<1>7. SumFunction(K) = SumFunctionOnSet(K, Stakers)
  BY <1>6 DEF SumFunction
<1>8. \A w \in Stakers : H[w] \in Int /\ P[w] \in Int /\ K[w] = H[w] + P[w]
  BY <1>1, <1>5
<1>9. \A w \in Stakers : P[w] \in Int /\ F[w] \in Int /\ 1 * P[w] <= rise * F[w]
  <2> SUFFICES ASSUME NEW w \in Stakers
               PROVE  P[w] \in Int /\ F[w] \in Int /\ 1 * P[w] <= rise * F[w]
    OBVIOUS
  <2>1. P[w] = F[w] * rise /\ F[w] \in Nat /\ P[w] \in Nat
    BY <1>5
  <2> HIDE DEF F, P
  <2> QED
    BY <1>4, <2>1
<1>10. StakesBacked'
  BY <1>3 DEF StakingInv, StakesBacked
<1>11. StakingTypeOK'
  <2>1. owed' \in [Stakers -> Int]
    BY <1>3, <1>5
  <2> QED
    BY <1>2, <1>3, <1>4, <2>1 DEF StakingTypeOK
<1>12. ASSUME NEW w \in Stakers
       PROVE  /\ stakes'[w].reward_debt_scaled <= stakes'[w].amount * index'
              /\ RewardScale * stakes'[w].pending_rewards + Accrued(stakes[w])' = owed'[w]
  <2> DEFINE s == stakes[w]
             was == s.amount * index
             more == s.amount * rise
  <2>1. s \in StakePosition /\ s.reward_debt_scaled <= was
        /\ RewardScale * s.pending_rewards + Accrued(s) = owed[w]
    BY <1>1 DEF StakingInv, DebtsFit, EarnedByShare
  <2>2. s.amount \in Nat /\ s.reward_debt_scaled \in Nat /\ s.pending_rewards \in Nat
        /\ was \in Nat /\ more \in Nat
    BY <1>2, <1>4, <2>1, NatProduct DEF StakePosition
  <2>3. s.amount * index' = was + more
    <3>1. s.amount * (index + rise) = s.amount * index + s.amount * rise
      BY <1>2, <1>4, <2>2
    <3> QED
      BY <1>3, <3>1
  <2>4. Accrued(s) = was - s.reward_debt_scaled
    BY <1>2, <2>1, AccruedExact
  <2>5. stakes'[w] = s /\ owed'[w] = owed[w] + more /\ index' \in Nat
    BY <1>2, <1>3, <1>4
  <2>6. Accrued(stakes[w])' = was + more - s.reward_debt_scaled
    <3>1. Accrued(stakes[w])' =
            IF s.amount > 0 /\ s.amount * index' > s.reward_debt_scaled
              THEN s.amount * index' - s.reward_debt_scaled ELSE 0
      BY <2>5 DEF Accrued
    <3>2. CASE s.amount = 0
      <4>1. was = 0 /\ more = 0
        BY <1>2, <1>4, <3>2
      <4> QED
        BY <2>1, <2>2, <3>1, <3>2, <4>1
    <3>3. CASE s.amount # 0
      <4> HIDE DEF s, was, more
      <4> QED
        BY <2>1, <2>2, <2>3, <3>1, <3>3
    <3> QED
      BY <3>2, <3>3
  <2>7. RewardScale * s.pending_rewards \in Int
    BY <1>2, <2>2
  <2> HIDE DEF s, was, more
  <2> QED
    BY <2>1, <2>2, <2>3, <2>4, <2>5, <2>6, <2>7
<1>13. DebtsFit' /\ EarnedByShare'
  BY <1>12 DEF DebtsFit, EarnedByShare
<1>14. OwedBacked'
  <2> HIDE DEF F, H, K, P
  <2> DEFINE a == RewardScale * rewards_vault
             b == RewardScale * fee
             s == SumFunctionOnSet(H, Stakers)
             p == SumFunctionOnSet(P, Stakers)
  <2>1. SumFunctionOnSet(K, Stakers) = s + p
    BY ONLY <1>1, <1>8, SumPlus
  <2>2. 1 * p <= rise * SumFunctionOnSet(F, Stakers)
    <3>1. rise \in Int /\ 1 \in Int
      BY <1>4
    <3> QED
      BY ONLY <1>1, <1>9, <3>1, SumScaled
  <2>3. p \in Int
    <3>1. \A w \in Stakers : P[w] \in Int
      BY <1>8
    <3> QED
      BY ONLY <1>1, <3>1, SumInt
  <2>4. p <= b /\ b \in Int /\ a \in Int
    <3>1. rise * total_staked <= b
      BY <1>2, <1>4
    <3> QED
      BY <1>1, <1>2, <1>4, <2>2, <2>3, <3>1
  <2>5. RewardScale * rewards_vault' = a + b
    BY <1>2, <1>3
  <2>6. a >= s /\ s \in Int
    BY <1>1
  <2> HIDE DEF a, b, s, p
  <2>7. RewardScale * rewards_vault' >= SumFunction(K)
    BY <1>7, <2>1, <2>3, <2>4, <2>5, <2>6
  <2> QED
    BY <2>7 DEF OwedBacked, K
<1> QED
  BY <1>10, <1>11, <1>13, <1>14 DEF StakingInv

-----------------------------------------------------------------------------
LEMMA ClaimsHoldAtFirst == StakingInit => StakingInv
<1> SUFFICES ASSUME StakingInit PROVE StakingInv
  OBVIOUS
<1>1. IsFiniteSet(Stakers) /\ RewardScale \in Nat \ {0}
  BY StakingAssumption
<1>2. StakingTypeOK
  BY DEF StakingInit, StakingTypeOK, NoStake, StakePosition
<1>3. \A u \in Stakers : stakes[u] = NoStake /\ owed[u] = 0 /\ Amounts[u] = 0
  BY DEF StakingInit, NoStake, Amounts
<1>4. DOMAIN owed = Stakers /\ DOMAIN Amounts = Stakers
  BY DEF StakingInit, Amounts
<1>5. SumFunction(owed) = 0 /\ SumFunction(Amounts) = 0
  <2>1. SumFunctionOnSet(owed, Stakers) = 0 /\ SumFunctionOnSet(Amounts, Stakers) = 0
    BY ONLY <1>1, <1>3, SumZero
  <2> QED
    BY <1>4, <2>1 DEF SumFunction
<1>6. StakesBacked
  BY <1>5 DEF StakesBacked, Amounts, StakingInit
<1>7. DebtsFit /\ EarnedByShare
  BY <1>1, <1>3 DEF DebtsFit, EarnedByShare, Accrued, NoStake, StakingInit
<1>8. OwedBacked
  BY <1>1, <1>5 DEF OwedBacked, StakingInit
<1> QED
  BY <1>2, <1>6, <1>7, <1>8 DEF StakingInv

LEMMA ClaimsStand == StakingInv /\ UNCHANGED stakingVars => StakingInv'
<1> SUFFICES ASSUME StakingInv, UNCHANGED stakingVars PROVE StakingInv'
  OBVIOUS
<1>1. UNCHANGED <<now, index, total_staked, stake_vault, rewards_vault, stakes, owed>>
  BY DEF stakingVars, pool
<1> QED
  BY <1>1 DEF StakingInv, StakingTypeOK, DebtsFit, StakesBacked, EarnedByShare, OwedBacked, Accrued

LEMMA ClaimsKept == StakingInv /\ [Next]_vars => StakingInv'
<1> SUFFICES ASSUME StakingInv, [Next]_vars PROVE StakingInv'
  OBVIOUS
<1>1. CASE StakingNext
  <2>1. CASE Tick
    <3>1. now' \in Nat \ {0}
          /\ UNCHANGED <<index, total_staked, stake_vault, rewards_vault, stakes, owed>>
      BY <2>1 DEF Tick, pool, StakingInv, StakingTypeOK
    <3> QED
      BY <3>1 DEF StakingInv, StakingTypeOK, DebtsFit, StakesBacked, EarnedByShare, OwedBacked,
                  Accrued
  <2> QED
    BY <1>1, <2>1, StakeKeepsClaims, UnstakeKeepsClaims, ClaimKeepsClaims, CreditKeepsClaims
    DEF StakingNext
<1>2. CASE UNCHANGED stakingVars
  BY <1>2, ClaimsStand
<1>3. CASE DaoNext
  BY <1>2, <1>3 DEF DaoNext, CreateDaoProposal, CastDaoVote, FinalizeDaoProposal
<1> QED
  BY <1>1, <1>2, <1>3 DEF Next, vars

LEMMA ClaimsCovered == StakingInv => VaultsCoverClaims
<1> SUFFICES ASSUME StakingInv PROVE RewardsSolvent
  BY DEF StakingInv, VaultsCoverClaims
<1> DEFINE take == [u \in Stakers |-> stakes[u].pending_rewards + Accrued(stakes[u]) \div RewardScale]
           H == owed
<1>1. /\ IsFiniteSet(Stakers)
      /\ RewardScale * rewards_vault >= SumFunctionOnSet(H, Stakers)
      /\ SumFunctionOnSet(H, Stakers) \in Int
      /\ RewardScale \in Nat \ {0} /\ rewards_vault \in Nat
  BY StakingSums, StakingAssumption DEF StakingInv, StakingTypeOK
<1>2. \A u \in Stakers : take[u] \in Int /\ H[u] \in Int /\ RewardScale * take[u] <= 1 * H[u]
  <2> SUFFICES ASSUME NEW u \in Stakers
               PROVE  take[u] \in Int /\ H[u] \in Int /\ RewardScale * take[u] <= 1 * H[u]
    OBVIOUS
  <2> DEFINE acc == Accrued(stakes[u])
             whole == acc \div RewardScale
             pending == stakes[u].pending_rewards
  <2>1. pending \in Nat /\ acc \in Nat /\ owed[u] \in Int
    BY AccruedExact DEF StakingInv, StakingTypeOK, DebtsFit, StakePosition
  <2>2. owed[u] = RewardScale * pending + acc
    BY DEF StakingInv, EarnedByShare
  <2>3. take[u] = pending + whole
    OBVIOUS
  <2> HIDE DEF acc, pending, take
  <2>4. whole \in Nat /\ RewardScale * whole <= acc
    BY <1>1, <2>1
  <2> HIDE DEF whole
  <2>5. RewardScale * (pending + whole) = RewardScale * pending + RewardScale * whole
        /\ RewardScale * pending \in Int /\ RewardScale * whole \in Int
    BY <1>1, <2>1, <2>4
  <2> QED
    BY <2>1, <2>2, <2>3, <2>4, <2>5
<1>3. SumFunction(take) = SumFunctionOnSet(take, Stakers)
  BY DEF SumFunction
<1> HIDE DEF take, H
<1>4. RewardScale * SumFunctionOnSet(take, Stakers) <= 1 * SumFunctionOnSet(H, Stakers)
  <2>1. RewardScale \in Int /\ 1 \in Int
    BY <1>1
  <2> QED
    BY ONLY <1>1, <1>2, <2>1, SumScaled
<1>5. SumFunctionOnSet(take, Stakers) \in Int
  BY ONLY <1>1, <1>2, SumInt
<1>6. rewards_vault >= SumFunctionOnSet(take, Stakers)
  <2> DEFINE T == SumFunctionOnSet(take, Stakers)
  <2> HIDE DEF T
  <2>1. T \in Int /\ RewardScale * T <= RewardScale * rewards_vault
    BY <1>1, <1>4, <1>5 DEF T
  <2>2. rewards_vault >= T
    BY <1>1, <2>1
  <2> QED
    BY <2>2 DEF T
<1> QED
  BY <1>3, <1>6 DEF RewardsSolvent, take

\* At any time the shared vault holds exactly the stakes and the rewards vault at
\* least what all stakers could claim: no order of stakes, top-ups, withdrawals,
\* fees and claims lets one staker take what another one is owed.
THEOREM VaultsAlwaysCover == Spec => []VaultsCoverClaims
<1>1. Init => StakingInv
  BY ClaimsHoldAtFirst DEF Init
<1> QED
  BY <1>1, ClaimsKept, ClaimsCovered, PTL DEF Spec

\* Each staker is owed its part of exactly the fees that came in while it staked,
\* whatever it, and others, staked and withdrew in between.
THEOREM FeesAreEarnedByShare == Spec => []EarnedByShare
<1>1. Init => StakingInv
  BY ClaimsHoldAtFirst DEF Init
<1>2. StakingInv => EarnedByShare
  BY DEF StakingInv
<1> QED
  BY <1>1, <1>2, ClaimsKept, PTL DEF Spec
-----------------------------------------------------------------------------
\* The votes of one side of a proposal.
Side(p, yes) == {v \in dao_votes : v.proposal = p /\ v.vote_yes = yes}

\* The two counters of a proposal are the sums over its vote accounts, and one
\* that is closed passed exactly if its counters say so.
Counted(p) ==
  /\ dao_proposals[p].votes_yes = Weight(p, TRUE)
  /\ dao_proposals[p].votes_no = Weight(p, FALSE)
  /\ dao_proposals[p].status # "Active" =>
       (dao_proposals[p].status = "Passed" <=>
          dao_proposals[p].votes_yes > dao_proposals[p].votes_no)

VotesCounted == IsFiniteSet(dao_votes) /\ \A p \in DOMAIN dao_proposals : Counted(p)

LEMMA SideFinite ==
  ASSUME IsFiniteSet(dao_votes), NEW p, NEW yes
  PROVE  IsFiniteSet(Side(p, yes))
BY FS_Subset DEF Side

LEMMA WeightIsOnSide ==
  \A p, yes : Weight(p, yes) = SumFunctionOnSet([v \in Side(p, yes) |-> v.weight], Side(p, yes))
BY DEF Weight, SumFunction, Side

LEMMA WeightIsOnSideNext ==
  (\A p, yes : Weight(p, yes) = SumFunctionOnSet([v \in Side(p, yes) |-> v.weight], Side(p, yes)))'
BY WeightIsOnSide, PTL

\* Where no vote is added to a side, its weight stays.
LEMMA SideStands ==
  ASSUME NEW p, NEW yes, Side(p, yes)' = Side(p, yes)
  PROVE  Weight(p, yes)' = Weight(p, yes)
BY WeightIsOnSide, WeightIsOnSideNext

\* A vote added to a side adds its weight.
LEMMA SideGrows ==
  ASSUME IsFiniteSet(dao_votes), NEW p, NEW yes, NEW vote, vote \notin dao_votes,
         vote.weight \in Nat, \A v \in dao_votes : v.weight \in Nat,
         Side(p, yes)' = Side(p, yes) \cup {vote}
  PROVE  Weight(p, yes)' = Weight(p, yes) + vote.weight
<1> DEFINE S == Side(p, yes)
           T == S \cup {vote}
           F == [v \in S |-> v.weight]
           G == [v \in T |-> v.weight]
<1>1. IsFiniteSet(S)
  BY SideFinite
<1>2. Weight(p, yes) = SumFunctionOnSet(F, S)
  BY WeightIsOnSide
<1>3. Weight(p, yes)' = SumFunctionOnSet(G, T)
  BY WeightIsOnSideNext
<1>4. /\ vote \notin S
      /\ \A v \in T : G[v] \in Int
      /\ G[vote] = vote.weight
      /\ \A v \in S : G[v] = F[v]
  BY DEF Side
<1> HIDE DEF S, F, G
<1>5. SumFunctionOnSet(G, T) = SumFunctionOnSet(G, S) + G[vote]
  BY ONLY <1>1, <1>4, SumInsert
<1>6. SumFunctionOnSet(G, S) = SumFunctionOnSet(F, S)
  BY ONLY <1>1, <1>4, SumSame
<1> QED
  BY <1>2, <1>3, <1>4, <1>5, <1>6

\* What the votes and the counters are made of.
LEMMA VoteFacts ==
  ASSUME IInv
  PROVE  /\ dao_proposals \in Seq(DaoProposal)
         /\ \A v \in dao_votes : v.weight \in Nat /\ v.proposal \in DOMAIN dao_proposals
BY DEF IInv, ProposalsTyped, DaoVote

\* A step that leaves the votes alone, and of the proposals p at most its status,
\* which it sets by the counters.
LEMMA CountStands ==
  ASSUME VotesCounted, dao_votes' = dao_votes, NEW p \in DOMAIN dao_proposals,
         dao_proposals'[p].votes_yes = dao_proposals[p].votes_yes,
         dao_proposals'[p].votes_no = dao_proposals[p].votes_no,
         \/ dao_proposals'[p].status = dao_proposals[p].status
         \/ dao_proposals'[p].status = Outcome(p)
  PROVE  Counted(p)'
<1>1. Weight(p, TRUE)' = Weight(p, TRUE) /\ Weight(p, FALSE)' = Weight(p, FALSE)
  BY SideStands DEF Side
<1>2. Counted(p)
  BY DEF VotesCounted
<1> QED
  BY <1>1, <1>2 DEF Counted, Outcome

LEMMA CreateCounts ==
  ASSUME IInv, VotesCounted, NEW d \in Durations, NEW isAdmin, NEW paused,
         CreateDaoProposal(isAdmin, paused, d)
  PROVE  VotesCounted'
<1> DEFINE proposal == [created_ts |-> now, end_ts |-> now + d,
                        votes_yes |-> 0, votes_no |-> 0, status |-> "Active"]
           n == Len(dao_proposals)
<1>1. dao_proposals' = Append(dao_proposals, proposal) /\ dao_votes' = dao_votes
  BY DEF CreateDaoProposal
<1>2. /\ proposal \in DaoProposal /\ proposal.status = "Active"
      /\ proposal.votes_yes = 0 /\ proposal.votes_no = 0
  BY DaoAssumption DEF IInv, StakesTyped, DaoProposal
<1>3. dao_proposals \in Seq(DaoProposal) /\ n \in Nat /\ DOMAIN dao_proposals = 1..n
  BY VoteFacts
<1> HIDE DEF proposal
<1>4. /\ DOMAIN dao_proposals' = 1..(n + 1)
      /\ \A p \in 1..n : dao_proposals'[p] = dao_proposals[p]
      /\ dao_proposals'[n + 1] = proposal
  BY <1>1, <1>2, <1>3, AppendProperties
<1>5. IsFiniteSet(dao_votes')
  BY <1>1 DEF VotesCounted
<1> SUFFICES ASSUME NEW p \in 1..(n + 1) PROVE Counted(p)'
  BY <1>4, <1>5 DEF VotesCounted
<1>6. CASE p \in 1..n
  BY <1>1, <1>3, <1>4, <1>6, CountStands
<1>7. CASE p = n + 1
  <2>1. \A yes : Side(p, yes)' = {}
    <3>1. \A v \in dao_votes : v.proposal # p
      BY <1>3, <1>7, VoteFacts
    <3> QED
      BY <1>1, <3>1 DEF Side
  <2>2. \A yes : Weight(p, yes)' = 0
    BY <2>1, WeightIsOnSideNext, SumEmpty
  <2> QED
    BY <1>2, <1>4, <1>7, <2>2 DEF Counted
<1> QED
  BY <1>3, <1>6, <1>7

LEMMA CastCounts ==
  ASSUME IInv, VotesCounted, NEW p \in DOMAIN dao_proposals, NEW u \in Stakers, NEW yes \in BOOLEAN,
         CastDaoVote(p, u, yes)
  PROVE  VotesCounted'
<1> DEFINE weight == stakes[u].amount
           vote == [proposal |-> p, voter |-> u, vote_yes |-> yes, weight |-> weight]
           for == IF yes THEN weight ELSE 0
           against == IF yes THEN 0 ELSE weight
<1>1. dao_proposals \in Seq(DaoProposal) /\ weight \in Nat
      /\ \A v \in dao_votes : v.weight \in Nat
  BY VoteFacts DEF IInv, StakesTyped, StakePosition
<1>2. /\ dao_proposals[p].status = "Active"
      /\ ~HasVoted(p, u)
      /\ dao_votes' = dao_votes \cup {vote}
      /\ dao_proposals' = [dao_proposals EXCEPT ![p].votes_yes = @ + for, ![p].votes_no = @ + against]
  BY DEF CastDaoVote
<1>3. vote \notin dao_votes
  BY <1>2 DEF HasVoted
<1>4. vote.weight = weight /\ vote.proposal = p /\ vote.vote_yes = yes
  OBVIOUS
<1>5. IsFiniteSet(dao_votes) /\ IsFiniteSet(dao_votes')
  BY <1>2, FS_AddElement DEF VotesCounted
<1> HIDE DEF vote, for, against, weight
<1>6. /\ Side(p, yes)' = Side(p, yes) \cup {vote}
      /\ \A q, w : q # p \/ w # yes => Side(q, w)' = Side(q, w)
  BY <1>2, <1>4 DEF Side
<1>7. Weight(p, yes)' = Weight(p, yes) + weight
  BY <1>1, <1>3, <1>4, <1>5, <1>6, SideGrows
<1>8. \A q, w : q # p \/ w # yes => Weight(q, w)' = Weight(q, w)
  BY <1>6, SideStands
<1>9. /\ DOMAIN dao_proposals' = DOMAIN dao_proposals
      /\ \A q \in DOMAIN dao_proposals \ {p} : dao_proposals'[q] = dao_proposals[q]
      /\ dao_proposals'[p].status = "Active"
      /\ dao_proposals'[p].votes_yes = dao_proposals[p].votes_yes + for
      /\ dao_proposals'[p].votes_no = dao_proposals[p].votes_no + against
  <2>1. dao_proposals[p] \in DaoProposal
    BY <1>1
  <2> QED
    BY <1>1, <1>2, <2>1 DEF DaoProposal
<1> SUFFICES ASSUME NEW q \in DOMAIN dao_proposals PROVE Counted(q)'
  BY <1>5, <1>9 DEF VotesCounted
<1>10. Counted(q)
  BY DEF VotesCounted
<1>11. CASE q # p
  BY <1>8, <1>9, <1>10, <1>11 DEF Counted
<1>12. CASE q = p
  <2>1. dao_proposals[p].votes_yes \in Nat /\ dao_proposals[p].votes_no \in Nat
    <3>1. dao_proposals[p] \in DaoProposal
      BY <1>1
    <3> QED
      BY <3>1 DEF DaoProposal
  <2>2. CASE yes = TRUE
    <3>1. for = weight /\ against = 0
      BY <2>2 DEF for, against
    <3>2. Weight(p, TRUE)' = Weight(p, TRUE) + weight /\ Weight(p, FALSE)' = Weight(p, FALSE)
      BY <1>7, <1>8, <2>2
    <3> QED
      <4>1. /\ dao_proposals'[q].votes_yes = dao_proposals[q].votes_yes + weight
            /\ dao_proposals'[q].votes_no = dao_proposals[q].votes_no + 0
            /\ dao_proposals'[q].status = "Active"
        BY <1>9, <1>12, <3>1
      <4>2. dao_proposals[q].votes_yes + 0 = dao_proposals[q].votes_yes
            /\ dao_proposals[q].votes_no + 0 = dao_proposals[q].votes_no
        BY <1>12, <2>1
      <4> QED
        BY <1>10, <1>12, <3>2, <4>1, <4>2 DEF Counted
  <2>3. CASE yes = FALSE
    <3>1. for = 0 /\ against = weight
      BY <2>3 DEF for, against
    <3>2. Weight(p, FALSE)' = Weight(p, FALSE) + weight /\ Weight(p, TRUE)' = Weight(p, TRUE)
      BY <1>7, <1>8, <2>3
    <3> QED
      <4>1. /\ dao_proposals'[q].votes_yes = dao_proposals[q].votes_yes + 0
            /\ dao_proposals'[q].votes_no = dao_proposals[q].votes_no + weight
            /\ dao_proposals'[q].status = "Active"
        BY <1>9, <1>12, <3>1
      <4>2. dao_proposals[q].votes_yes + 0 = dao_proposals[q].votes_yes
            /\ dao_proposals[q].votes_no + 0 = dao_proposals[q].votes_no
        BY <1>12, <2>1
      <4> QED
        BY <1>10, <1>12, <3>2, <4>1, <4>2 DEF Counted
  <2> QED
    BY <2>2, <2>3
<1> QED
  BY <1>11, <1>12

LEMMA FinalizeCounts ==
  ASSUME IInv, VotesCounted, NEW p \in DOMAIN dao_proposals, FinalizeDaoProposal(p)
  PROVE  VotesCounted'
<1>1. dao_proposals \in Seq(DaoProposal)
  BY VoteFacts
<1>2. dao_proposals' = [dao_proposals EXCEPT ![p].status = Outcome(p)] /\ dao_votes' = dao_votes
  BY DEF FinalizeDaoProposal
<1>3. DOMAIN dao_proposals' = DOMAIN dao_proposals
  BY <1>1, <1>2
<1>4. ASSUME NEW q \in DOMAIN dao_proposals
      PROVE  /\ dao_proposals'[q].votes_yes = dao_proposals[q].votes_yes
             /\ dao_proposals'[q].votes_no = dao_proposals[q].votes_no
             /\ \/ dao_proposals'[q].status = dao_proposals[q].status
                \/ dao_proposals'[q].status = Outcome(q)
  <2>1. dao_proposals[q] \in DaoProposal /\ dao_proposals[p] \in DaoProposal
    BY <1>1
  <2> QED
    BY <1>1, <1>2, <2>1 DEF DaoProposal
<1> QED
  BY <1>2, <1>3, <1>4, CountStands DEF VotesCounted

LEMMA CountKept == IInv /\ VotesCounted /\ [Next]_vars => VotesCounted'
<1> SUFFICES ASSUME IInv, VotesCounted, [Next]_vars PROVE VotesCounted'
  OBVIOUS
<1>1. CASE UNCHANGED <<dao_proposals, dao_votes>>
  BY <1>1, CountStands DEF VotesCounted
<1>2. CASE DaoNext
  <2>1. CASE \E z, paused \in BOOLEAN, d \in Durations :
               now + d <= MaxTime /\ CreateDaoProposal(z, paused, d)
    BY <2>1, CreateCounts
  <2>2. CASE \E p \in DOMAIN dao_proposals, u \in Stakers, yes \in BOOLEAN : CastDaoVote(p, u, yes)
    BY <2>2, CastCounts
  <2>3. CASE \E p \in DOMAIN dao_proposals : FinalizeDaoProposal(p)
    BY <2>3, FinalizeCounts
  <2> QED
    BY <1>2, <2>1, <2>2, <2>3 DEF DaoNext
<1> QED
  BY <1>1, <1>2 DEF Next, vars, daoVars

\* A closed proposal passed exactly if the vote accounts for it outweigh those
\* against: no vote is lost, counted twice or added after the close.
THEOREM MajorityAlwaysDecides == Spec => []MajorityDecides
<1>1. Init => VotesCounted
  <2> SUFFICES ASSUME Init PROVE VotesCounted
    OBVIOUS
  <2>1. dao_votes = {} /\ dao_proposals = <<>>
    BY DEF Init
  <2> QED
    BY <2>1, FS_EmptySet DEF VotesCounted
<1>2. VotesCounted => MajorityDecides
  BY DEF VotesCounted, Counted, MajorityDecides
<1> QED
  BY <1>1, <1>2, InitHolds, StepKeeps, CountKept, PTL DEF Spec
=============================================================================
