------------------------------ MODULE OnChain -------------------------------
(***************************************************************************)
(* The accounts of the Lynx program as its clients and the backend's       *)
(* indexer see them: orders and markets (module Orders) with the duels,    *)
(* stakes and DAO proposals next to them.  Modules Market, Duels, Staking  *)
(* and Dao have the money of these instructions; here is what decides      *)
(* whether an instruction is accepted and what an indexer reads of it.     *)
(***************************************************************************)
EXTENDS Orders

CONSTANTS
  DuelKeys,       \* the addresses of Duel accounts
  ProposalKeys,   \* the addresses of DaoProposal accounts
  Treasury,       \* config.treasury
  Durations       \* the durations create_dao_proposal accepts

VARIABLES
  duels,      \* the Duel account at each address
  proposals,  \* the DaoProposal account at each address
  votes,      \* the DaoVote accounts
  stakes      \* the StakePosition of each wallet

chainVars == <<ordersVars, duels, proposals, votes, stakes>>

NoDuel ==
  [status |-> "None", parent |-> Nobody, creator |-> Nobody, rival |-> Nobody, amount |-> 0,
   creator_outcome |-> "Unresolved", rival_outcome |-> "Unresolved",
   duel_type |-> "OneVOne", expires_ts |-> 0]

NoProposal ==
  [status |-> "None", created_ts |-> 0, end_ts |-> 0, votes_yes |-> 0, votes_no |-> 0]

NoStake == [amount |-> 0, staked_at |-> 0, pending_rewards |-> 0]

ChainInit ==
  /\ OrdersInit
  /\ duels = [d \in DuelKeys |-> NoDuel]
  /\ proposals = [p \in ProposalKeys |-> NoProposal]
  /\ votes = {}
  /\ stakes = [u \in Users |-> NoStake]

CanCreateDuel(ix) ==
  /\ ix.key \in DuelKeys
  /\ duels[ix.key].status = "None"
  /\ ix.amount > 0
  /\ ~paused
  /\ IsTradeable(ix.other, ix.outcome)
  /\ markets[ix.other].currency = "SOL"
  /\ IsOpen(ix.other)
  /\ clock < markets[ix.other].cutoff_ts
  /\ clock < ix.expires
  /\ ix.expires <= markets[ix.other].cutoff_ts
  /\ (ix.duel_type = "OneVOneVProtocol") = markets[ix.other].is_ternary

CreateDuel(ix) ==
  duels' = [duels EXCEPT ![ix.key] =
    [NoDuel EXCEPT !.status = "Open", !.parent = ix.other, !.creator = ix.signer,
                   !.amount = ix.amount, !.creator_outcome = ix.outcome,
                   !.duel_type = ix.duel_type, !.expires_ts = ix.expires]]

CanAcceptDuel(ix) ==
  /\ ix.key \in DuelKeys
  /\ ~paused
  /\ duels[ix.key].status = "Open"
  /\ LET duel == duels[ix.key]
     IN  /\ ix.other = duel.parent
         /\ IsOpen(duel.parent)
         /\ clock < markets[duel.parent].cutoff_ts
         /\ clock < duel.expires_ts
         /\ IsTradeable(duel.parent, ix.outcome)
         /\ ix.signer # duel.creator
         /\ ix.outcome # duel.creator_outcome

AcceptDuel(ix) ==
  duels' = [duels EXCEPT ![ix.key] =
    [@ EXCEPT !.rival = ix.signer, !.rival_outcome = ix.outcome, !.status = "Active"]]

CanCancelDuel(ix) ==
  /\ ix.key \in DuelKeys
  /\ duels[ix.key].status = "Open"
  /\ duels[ix.key].creator = ix.signer

\* Who takes the pot of a 1v1: the treasury when both or neither side won.
WinnerOf(duel, result) ==
  CASE result = duel.creator_outcome /\ result # duel.rival_outcome -> duel.creator
    [] result = duel.rival_outcome /\ result # duel.creator_outcome -> duel.rival
    [] OTHER -> Treasury

\* The account constraint wants the creator's LYNX account, the handler the
\* winner's, so a 1v1vP that the rival won is never accepted (module Duels).
CanResolveDuel(ix, duelType) ==
  /\ ix.key \in DuelKeys
  /\ duels[ix.key].status = "Active"
  /\ duels[ix.key].duel_type = duelType
  /\ LET duel == duels[ix.key]
         market == markets[duel.parent]
     IN  /\ market.status = "Resolved"
         /\ ix.recipient = IF duelType = "OneVOne" THEN WinnerOf(duel, market.result)
                                                   ELSE duel.creator
         /\ duelType = "OneVOneVProtocol" => market.result # duel.rival_outcome

EndDuel(ix, status) == duels' = [duels EXCEPT ![ix.key] = [@ EXCEPT !.status = status]]
-----------------------------------------------------------------------------
\* amount is the duration.
CanCreateDaoProposal(ix) ==
  /\ ix.key \in ProposalKeys
  /\ proposals[ix.key].status = "None"
  /\ ix.signer = Admin
  /\ ~paused
  /\ ix.amount \in Durations

CreateDaoProposal(ix) ==
  proposals' = [proposals EXCEPT ![ix.key] =
    [NoProposal EXCEPT !.status = "Active", !.created_ts = clock, !.end_ts = clock + ix.amount]]

CanCastDaoVote(ix) ==
  /\ ix.key \in ProposalKeys
  /\ proposals[ix.key].status = "Active"
  /\ clock < proposals[ix.key].end_ts
  /\ stakes[ix.signer].amount > 0
  /\ stakes[ix.signer].staked_at \in 1..(proposals[ix.key].created_ts - 1)
  /\ <<ix.key, ix.signer>> \notin votes

CastDaoVote(ix) ==
  /\ votes' = votes \cup {<<ix.key, ix.signer>>}
  /\ proposals' = [proposals EXCEPT ![ix.key] =
       [@ EXCEPT !.votes_yes = @ + (IF ix.yes THEN stakes[ix.signer].amount ELSE 0),
                 !.votes_no = @ + (IF ix.yes THEN 0 ELSE stakes[ix.signer].amount)]]

CanFinalizeDaoProposal(ix) ==
  /\ ix.key \in ProposalKeys
  /\ proposals[ix.key].status = "Active"
  /\ clock >= proposals[ix.key].end_ts

Verdict(proposal) == IF proposal.votes_yes > proposal.votes_no THEN "Passed" ELSE "Rejected"

FinalizeDaoProposal(ix) ==
  proposals' = [proposals EXCEPT ![ix.key] = [@ EXCEPT !.status = Verdict(proposals[ix.key])]]

CanStakeLynx(ix) == ix.amount > 0 /\ ix.signer \in LynxHolders
CanUnstakeLynx(ix) == ix.amount > 0 /\ stakes[ix.signer].amount >= ix.amount
CanClaimRewards(ix) == stakes[ix.signer].pending_rewards > 0

Restake(ix) ==
  stakes' = [stakes EXCEPT ![ix.signer] =
    CASE ix.op = "stake_lynx" -> [@ EXCEPT !.amount = @ + ix.amount, !.staked_at = clock]
      [] ix.op = "unstake_lynx" -> [@ EXCEPT !.amount = @ - ix.amount]
      [] ix.op = "claim_staking_rewards" -> [@ EXCEPT !.pending_rewards = 0]]
-----------------------------------------------------------------------------
AcceptsOther(ix) ==
  \/ ix.op = "create_duel" /\ CanCreateDuel(ix)
  \/ ix.op = "accept_duel" /\ CanAcceptDuel(ix)
  \/ ix.op = "cancel_duel" /\ CanCancelDuel(ix)
  \/ ix.op = "resolve_duel_sol" /\ CanResolveDuel(ix, "OneVOne")
  \/ ix.op = "resolve_protocol_duel" /\ CanResolveDuel(ix, "OneVOneVProtocol")
  \/ ix.op = "create_dao_proposal" /\ CanCreateDaoProposal(ix)
  \/ ix.op = "cast_dao_vote" /\ CanCastDaoVote(ix)
  \/ ix.op = "finalize_dao_proposal" /\ CanFinalizeDaoProposal(ix)
  \/ ix.op = "stake_lynx" /\ CanStakeLynx(ix)
  \/ ix.op = "unstake_lynx" /\ CanUnstakeLynx(ix)
  \/ ix.op = "claim_staking_rewards" /\ CanClaimRewards(ix)

Accepts(ix) == IsInstruction(ix) /\ (AcceptsOrder(ix) \/ AcceptsOther(ix))

AppliesDuel(ix) ==
  /\ \/ ix.op = "create_duel" /\ CreateDuel(ix)
     \/ ix.op = "accept_duel" /\ AcceptDuel(ix)
     \/ ix.op = "cancel_duel" /\ EndDuel(ix, "Cancelled")
     \/ ix.op \in {"resolve_duel_sol", "resolve_protocol_duel"} /\ EndDuel(ix, "Resolved")
  /\ UNCHANGED <<ordersVars, proposals, votes, stakes>>

AppliesDao(ix) ==
  /\ \/ ix.op = "create_dao_proposal" /\ CreateDaoProposal(ix) /\ UNCHANGED votes
     \/ ix.op = "cast_dao_vote" /\ CastDaoVote(ix)
     \/ ix.op = "finalize_dao_proposal" /\ FinalizeDaoProposal(ix) /\ UNCHANGED votes
  /\ UNCHANGED <<ordersVars, duels, stakes>>

AppliesStake(ix) ==
  /\ ix.op \in {"stake_lynx", "unstake_lynx", "claim_staking_rewards"}
  /\ Restake(ix)
  /\ UNCHANGED <<ordersVars, duels, proposals, votes>>

Applies(ix) ==
  \/ AppliesOrder(ix) /\ UNCHANGED <<duels, proposals, votes, stakes>>
  \/ AppliesDuel(ix)
  \/ AppliesDao(ix)
  \/ AppliesStake(ix)

ChainTick == OrdersTick /\ UNCHANGED <<duels, proposals, votes, stakes>>
=============================================================================
