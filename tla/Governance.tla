----------------------------- MODULE Governance -----------------------------
(***************************************************************************)
(* The M-of-N governance of the Lynx program: the multisig that replaces   *)
(* the single admin key, its proposals, their approvals, the timelock and  *)
(* the execution of an action (lib.rs, init_multisig .. transfer_admin).   *)
(*                                                                         *)
(* A transaction is atomic, so each instruction is one action.  Any key    *)
(* may sign any instruction at any moment and every instruction checks its *)
(* signer itself; execute_action needs no signer at all.  A proposal that  *)
(* resolves a market is executed by an instruction of its own, whose       *)
(* market half is in module Market; here it only spends the proposal.      *)
(***************************************************************************)
EXTENDS Integers, Sequences, FiniteSets

CONSTANTS
  Keys,          \* the public keys that can sign a transaction
  NoKey,         \* Pubkey::default(), the empty slot: nobody can sign as it
  FirstAdmin,    \* the admin initialize_protocol stored
  Markets,       \* the markets a proposal may name
  Results,       \* the results a proposal may name
  MaxSigners,    \* MAX_MULTISIG_SIGNERS
  Delay,         \* GOVERNANCE_EXECUTION_DELAY_SECONDS
  Ttl,           \* PROPOSAL_TTL_SECONDS
  SignerLists,   \* bound: the signer lists the admin tries
  Proposable,    \* bound: the actions somebody proposes
  MaxProposals,  \* bound: proposals ever created
  MaxTime        \* bound: the last value of the clock

Pubkeys == Keys \cup {NoKey}

GovernanceAction ==
       [type : {"TransferAdmin", "AddSigner", "RemoveSigner"}, key : Pubkeys]
  \cup [type : {"SetPaused"}, paused : BOOLEAN]
  \cup [type : {"SetThreshold"}, threshold : Nat]
  \cup [type : {"ResolveMarketAdmin"}, market : Markets, result : Results]

ASSUME KeysAssumption == NoKey \notin Keys /\ FirstAdmin \in Keys

ASSUME NumbersAssumption ==
  /\ MaxSigners \in Nat \ {0}
  /\ Delay \in Nat
  /\ Ttl \in Nat
  /\ MaxProposals \in Nat
  /\ MaxTime \in Nat

ASSUME ProposableAssumption == Proposable \subseteq GovernanceAction

ASSUME SignerListsAssumption == SignerLists \subseteq Seq(Pubkeys)

VARIABLES
  now,          \* Clock::unix_timestamp; never 0, which means "not yet"
  admin,        \* config.admin
  paused,       \* config.paused
  initialized,  \* config.multisig_initialized
  signers,      \* multisig.signers[..signer_count]
  threshold,    \* multisig.threshold
  proposals,    \* the GovernanceProposal accounts, by proposal_id
  lowest        \* history: the lowest threshold in force since a proposal was created

config == <<admin, paused, initialized>>
multisig == <<signers, threshold>>
vars == <<now, config, multisig, proposals, lowest>>

Proposal ==
  [proposer : Keys, action : Proposable, approvals : Seq(Keys),
   threshold_reached_ts : Nat, executed : BOOLEAN, cancelled : BOOLEAN,
   expires_ts : Nat]

\* The arrays for signers and approvals have MAX_MULTISIG_SIGNERS slots.
HasFreeSlot(s) == Len(s) < MaxSigners

Distinct(s) == \A i, j \in 1..Len(s) : s[i] = s[j] => i = j

Contains(s, x) == \E i \in 1..Len(s) : s[i] = x

IsMultisigSigner(key) == key # NoKey /\ Contains(signers, key)

\* The history variable after a step that leaves the threshold at t.
Lowered(t) ==
  [p \in DOMAIN lowest |-> IF t < lowest[p] THEN t ELSE lowest[p]]
-----------------------------------------------------------------------------
Init ==
  /\ now = 1
  /\ admin = FirstAdmin
  /\ paused = FALSE
  /\ initialized = FALSE
  /\ signers = <<>>
  /\ threshold = 0
  /\ proposals = <<>>
  /\ lowest = <<>>

Tick ==
  /\ now < MaxTime
  /\ now' = now + 1
  /\ UNCHANGED <<config, multisig, proposals, lowest>>

\* transfer_admin: the single key may rotate itself until the multisig exists.
TransferAdmin(caller, newAdmin) ==
  /\ ~initialized
  /\ caller = admin
  /\ admin' = newAdmin
  /\ UNCHANGED <<now, paused, initialized, multisig, proposals, lowest>>

InitMultisig(caller, keys, m) ==
  /\ caller = admin
  /\ ~initialized
  /\ Len(keys) \in 1..MaxSigners
  /\ m \in 1..Len(keys)
  /\ ~Contains(keys, NoKey)
  /\ Distinct(keys)
  /\ signers' = keys
  /\ threshold' = m
  /\ initialized' = TRUE
  /\ UNCHANGED <<now, admin, paused, proposals, lowest>>

ProposeAction(proposer, action) ==
  /\ initialized
  /\ IsMultisigSigner(proposer)
  /\ Len(proposals) < MaxProposals
  /\ proposals' = Append(proposals,
       [proposer |-> proposer, action |-> action, approvals |-> <<proposer>>,
        threshold_reached_ts |-> IF 1 >= threshold THEN now ELSE 0,
        executed |-> FALSE, cancelled |-> FALSE, expires_ts |-> now + Ttl])
  /\ lowest' = Append(lowest, threshold)
  /\ UNCHANGED <<now, config, multisig>>

HasApproved_Never(p, key) == FALSE
HasApproved(p, key) == Contains(proposals[p].approvals, key)

IsLive_Cancelled(p) == ~proposals[p].executed /\ now < proposals[p].expires_ts

\* What approve_action, execute_action and execute_resolve_market_admin share.
IsLive(p) ==
  /\ ~proposals[p].executed
  /\ ~proposals[p].cancelled
  /\ now < proposals[p].expires_ts

ApproveAction(p, signer) ==
  /\ IsMultisigSigner(signer)
  /\ IsLive(p)
  /\ ~HasApproved(p, signer)
  /\ HasFreeSlot(proposals[p].approvals)
  /\ LET approvals == Append(proposals[p].approvals, signer)
         reached == proposals[p].threshold_reached_ts
     IN  proposals' = [proposals EXCEPT
           ![p].approvals = approvals,
           ![p].threshold_reached_ts =
              IF reached = 0 /\ Len(approvals) >= threshold THEN now ELSE reached]
  /\ UNCHANGED <<now, config, multisig, lowest>>

CancelProposal(p, signer) ==
  /\ ~proposals[p].executed
  /\ ~proposals[p].cancelled
  /\ \/ signer = proposals[p].proposer
     \/ now >= proposals[p].expires_ts /\ IsMultisigSigner(signer)
  /\ proposals' = [proposals EXCEPT ![p].cancelled = TRUE]
  /\ UNCHANGED <<now, config, multisig, lowest>>

IsExecutable_NoTimelock(p) == IsLive(p) /\ proposals[p].threshold_reached_ts # 0

\* Threshold reached and timelock elapsed.
IsExecutable(p) ==
  /\ IsLive(p)
  /\ proposals[p].threshold_reached_ts # 0
  /\ now >= proposals[p].threshold_reached_ts + Delay

Spend(p) == proposals' = [proposals EXCEPT ![p].executed = TRUE]

ExecuteTransferAdmin(p) ==
  /\ IsExecutable(p)
  /\ proposals[p].action.type = "TransferAdmin"
  /\ admin' = proposals[p].action.key
  /\ Spend(p)
  /\ UNCHANGED <<now, paused, initialized, multisig, lowest>>

ExecuteSetPaused(p) ==
  /\ IsExecutable(p)
  /\ proposals[p].action.type = "SetPaused"
  /\ paused' = proposals[p].action.paused
  /\ Spend(p)
  /\ UNCHANGED <<now, admin, initialized, multisig, lowest>>

\* The key is not compared with the empty slot, as init_multisig does.
ExecuteAddSigner(p) ==
  /\ IsExecutable(p)
  /\ proposals[p].action.type = "AddSigner"
  /\ ~IsMultisigSigner(proposals[p].action.key)
  /\ HasFreeSlot(signers)
  /\ signers' = Append(signers, proposals[p].action.key)
  /\ Spend(p)
  /\ UNCHANGED <<now, config, threshold, lowest>>

\* The slots after i shifted down by one.
WithoutSlot(s, i) == [j \in 1..(Len(s) - 1) |-> IF j < i THEN s[j] ELSE s[j + 1]]

MayRemove_OffByOne == threshold <= Len(signers)
MayRemove == threshold < Len(signers)

ExecuteRemoveSigner(p) ==
  /\ IsExecutable(p)
  /\ proposals[p].action.type = "RemoveSigner"
  /\ MayRemove
  /\ \E i \in 1..Len(signers) :
       /\ signers[i] = proposals[p].action.key
       /\ \A j \in 1..(i - 1) : signers[j] # proposals[p].action.key
       /\ signers' = WithoutSlot(signers, i)
  /\ Spend(p)
  /\ UNCHANGED <<now, config, threshold, lowest>>

ExecuteSetThreshold(p) ==
  /\ IsExecutable(p)
  /\ proposals[p].action.type = "SetThreshold"
  /\ proposals[p].action.threshold \in 1..Len(signers)
  /\ threshold' = proposals[p].action.threshold
  /\ lowest' = Lowered(threshold')
  /\ Spend(p)
  /\ UNCHANGED <<now, config, signers>>

\* The governance half of execute_resolve_market_admin.
ExecuteResolveMarketAdmin(p, market, result) ==
  /\ IsExecutable(p)
  /\ proposals[p].action.type = "ResolveMarketAdmin"
  /\ proposals[p].action.market = market
  /\ proposals[p].action.result = result
  /\ Spend(p)
  /\ UNCHANGED <<now, config, multisig, lowest>>

ExecuteAction(p) ==
  \/ ExecuteTransferAdmin(p)
  \/ ExecuteSetPaused(p)
  \/ ExecuteAddSigner(p)
  \/ ExecuteRemoveSigner(p)
  \/ ExecuteSetThreshold(p)

Next ==
  \/ Tick
  \/ \E k \in Keys, new \in Pubkeys : TransferAdmin(k, new)
  \/ \E k \in Keys, keys \in SignerLists, m \in 0..(MaxSigners + 1) :
       InitMultisig(k, keys, m)
  \/ \E k \in Keys, a \in Proposable : ProposeAction(k, a)
  \/ \E p \in DOMAIN proposals, k \in Keys : ApproveAction(p, k)
  \/ \E p \in DOMAIN proposals, k \in Keys : CancelProposal(p, k)
  \/ \E p \in DOMAIN proposals : ExecuteAction(p)
  \/ \E p \in DOMAIN proposals, m \in Markets, r \in Results :
       ExecuteResolveMarketAdmin(p, m, r)

Spec == Init /\ [][Next]_vars
-----------------------------------------------------------------------------
\* Every variable holds a value of the account field it models.
TypeOK ==
  /\ now \in Nat \ {0}
  /\ admin \in Pubkeys
  /\ paused \in BOOLEAN
  /\ initialized \in BOOLEAN
  /\ signers \in Seq(Pubkeys) /\ Len(signers) <= MaxSigners
  /\ threshold \in Nat
  /\ proposals \in Seq(Proposal)
  /\ \A p \in DOMAIN proposals : Len(proposals[p].approvals) \in 1..MaxSigners
  /\ lowest \in Seq(Nat)
  /\ Len(lowest) = Len(proposals)

\* The multisig stays one that init_multisig would have accepted, up to empty
\* slots, whatever sequence of add, remove and threshold proposals is executed:
\* no key is counted twice and the threshold is between one and the slots.
SignersWellFormed ==
  initialized =>
    /\ threshold \in 1..Len(signers)
    /\ \A i, j \in 1..Len(signers) :
         signers[i] = signers[j] /\ signers[i] # NoKey => i = j

\* A proposal whose timelock runs, or that was executed, was approved by at
\* least as many different keys as the lowest threshold in force in its life:
\* no key counts twice, though signers come and go while it collects approvals.
ApprovedByQuorum ==
  \A p \in DOMAIN proposals :
    /\ Distinct(proposals[p].approvals)
    /\ proposals[p].threshold_reached_ts # 0 \/ proposals[p].executed =>
         Len(proposals[p].approvals) >= lowest[p]

\* A proposal ends once: what was executed is not cancelled, executed again or
\* given another approval, and what was cancelled is never executed.
Ended(p) == proposals[p].executed \/ proposals[p].cancelled
EndsOnce ==
  [][\A p \in DOMAIN proposals : Ended(p) => proposals'[p] = proposals[p]]_vars

\* Once the multisig exists, the admin, the pause flag, the signers and the
\* threshold change only in a step that spends a proposal whose approvals met
\* the quorum and whose timelock elapsed in full.
GovernedChange ==
  [][(initialized /\ <<config, multisig>>' # <<config, multisig>>) =>
       \E p \in DOMAIN proposals :
         /\ ~Ended(p) /\ proposals'[p].executed
         /\ Len(proposals[p].approvals) >= lowest[p]
         /\ proposals[p].threshold_reached_ts \in 1..(now - Delay)]_vars
=============================================================================
