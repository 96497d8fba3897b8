-------------------------------- MODULE Dao --------------------------------
(***************************************************************************)
(* The on-chain DAO over the staking module: the admin opens a proposal,   *)
(* each staker may vote once with its stake, if that stake is older than   *)
(* the proposal, and anybody closes it when its time is over               *)
(* (create_dao_proposal, cast_dao_vote, finalize_dao_proposal).            *)
(***************************************************************************)
EXTENDS Staking, Sequences

CONSTANTS
  Durations,        \* bound: the durations the admin picks
  MinDuration,      \* DAO_MIN_PROPOSAL_DURATION_SECONDS
  MaxDuration,      \* DAO_MAX_PROPOSAL_DURATION_SECONDS
  MaxDaoProposals   \* bound: proposals ever created

ASSUME DaoAssumption ==
  /\ Durations \subseteq Nat
  /\ MinDuration \in Nat
  /\ MaxDuration \in Nat
  /\ MaxDaoProposals \in Nat

VARIABLES
  dao_proposals,  \* the DaoProposal accounts
  dao_votes,      \* the DaoVote accounts: one address for a proposal and a voter
  roll            \* history: the stakes when each proposal was created

daoVars == <<dao_proposals, dao_votes, roll>>
vars == <<stakingVars, daoVars>>

Init ==
  /\ StakingInit
  /\ dao_proposals = <<>>
  /\ dao_votes = {}
  /\ roll = <<>>

CreateDaoProposal(isAdmin, paused, duration) ==
  /\ isAdmin
  /\ ~paused
  /\ duration \in MinDuration..MaxDuration
  /\ Len(dao_proposals) < MaxDaoProposals
  /\ dao_proposals' = Append(dao_proposals,
       [created_ts |-> now, end_ts |-> now + duration,
        votes_yes |-> 0, votes_no |-> 0, status |-> "Active"])
  /\ roll' = Append(roll, [u \in Stakers |-> stakes[u].amount])
  /\ UNCHANGED <<stakingVars, dao_votes>>

HasVoted(p, u) == \E v \in dao_votes : v.proposal = p /\ v.voter = u

StakeOldEnough(p, u) ==
  stakes[u].staked_at > 0 /\ stakes[u].staked_at < dao_proposals[p].created_ts

CastDaoVote(p, u, voteYes) ==
  LET weight == stakes[u].amount
  IN  /\ dao_proposals[p].status = "Active"
      /\ now < dao_proposals[p].end_ts
      /\ weight > 0
      /\ StakeOldEnough(p, u)
      /\ ~HasVoted(p, u)
      /\ dao_votes' = dao_votes \cup
           {[proposal |-> p, voter |-> u, vote_yes |-> voteYes, weight |-> weight]}
      /\ dao_proposals' = [dao_proposals EXCEPT
           ![p].votes_yes = @ + (IF voteYes THEN weight ELSE 0),
           ![p].votes_no = @ + (IF voteYes THEN 0 ELSE weight)]
      /\ UNCHANGED <<stakingVars, roll>>

Outcome_TiePasses(p) ==
  IF dao_proposals[p].votes_yes >= dao_proposals[p].votes_no THEN "Passed" ELSE "Rejected"
Outcome(p) ==
  IF dao_proposals[p].votes_yes > dao_proposals[p].votes_no THEN "Passed" ELSE "Rejected"

MayFinalize_IfVoted(p) ==
  /\ dao_proposals[p].status = "Active"
  /\ now >= dao_proposals[p].end_ts
  /\ dao_proposals[p].votes_yes + dao_proposals[p].votes_no > 0
MayFinalize(p) ==
  dao_proposals[p].status = "Active" /\ now >= dao_proposals[p].end_ts

FinalizeDaoProposal(p) ==
  /\ MayFinalize(p)
  /\ dao_proposals' = [dao_proposals EXCEPT ![p].status = Outcome(p)]
  /\ UNCHANGED <<stakingVars, dao_votes, roll>>

DaoNext ==
  \/ \E z, paused \in BOOLEAN, d \in Durations :
       /\ now + d <= MaxTime  \* bound: the clock outlives the vote
       /\ CreateDaoProposal(z, paused, d)
  \/ \E p \in DOMAIN dao_proposals, u \in Stakers, yes \in BOOLEAN : CastDaoVote(p, u, yes)
  \/ \E p \in DOMAIN dao_proposals : FinalizeDaoProposal(p)

Next == DaoNext \/ (StakingNext /\ UNCHANGED daoVars)

\* Time passes, and the keeper closes what is over on every cycle (chain.ts,
\* finalizeReadyDaoProposals).
Fairness ==
  /\ WF_vars(Tick /\ UNCHANGED daoVars)
  /\ \A p \in 1..MaxDaoProposals : WF_vars(p \in DOMAIN dao_proposals /\ FinalizeDaoProposal(p))

Spec == Init /\ [][Next]_vars /\ Fairness
-----------------------------------------------------------------------------
DaoProposal ==
  [created_ts : Nat, end_ts : Nat, votes_yes : Nat, votes_no : Nat,
   status : {"Active", "Passed", "Rejected"}]
DaoVote ==
  [proposal : DOMAIN dao_proposals, voter : Stakers, vote_yes : BOOLEAN, weight : Nat]

\* cast_dao_vote's BUG-2: nobody votes with more than it had staked when the
\* proposal was created, though the weight is read when it votes and tokens may
\* be unstaked, sent to another wallet, and staked again meanwhile.
VotesWithinRoll ==
  \A v \in dao_votes : v.weight <= roll[v.proposal][v.voter]

Weight(p, yes) ==
  SumFunction([v \in {w \in dao_votes : w.proposal = p /\ w.vote_yes = yes} |-> v.weight])

\* A closed proposal passed exactly if the votes cast for it, counted from the
\* vote accounts, outweigh those against: no vote is lost, counted twice or
\* added after it closed.
MajorityDecides ==
  \A p \in DOMAIN dao_proposals : dao_proposals[p].status # "Active" =>
    (dao_proposals[p].status = "Passed" <=> Weight(p, TRUE) > Weight(p, FALSE))

\* Every proposal is closed in the end, voted on or not.
ProposalsClose ==
  \A p \in 1..MaxDaoProposals :
    p \in DOMAIN dao_proposals ~> (p \in DOMAIN dao_proposals /\ dao_proposals[p].status # "Active")
=============================================================================
