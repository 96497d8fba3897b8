---------------------------- MODULE AccessProofs ----------------------------
(***************************************************************************)
(* Proofs about module Governance, for any set of keys, any number of      *)
(* slots, any delay, time to live, threshold and number of proposals, and  *)
(* about modules Accounts and AdminPanel as MCAccess composes them, for any*)
(* calls, accounts, browsers, faults and clicks: what the governance       *)
(* changed was approved, who signed out stays out, and what proves who     *)
(* somebody is is good for one time.                                       *)
(*                                                                         *)
(* The governance: a proposal's timelock starts when its approvals reach   *)
(* the threshold in force, and a later step can only lower what `lowest`   *)
(* remembers, so the inductive invariant keeps lowest below the threshold, *)
(* and ties both an executed proposal and a running timelock to the        *)
(* approvals that started it.                                              *)
(*                                                                         *)
(* Signing out: before a logout is answered only the logout is on its way  *)
(* (OutFits, OutIsQuiet), so no answer that comes later can sign the       *)
(* browser in.                                                             *)
(*                                                                         *)
(* Mailed tokens: a reset token is the name of the request it was made for,*)
(* and stays with the account that request found (TokenFits), so nothing   *)
(* gives an account back a token it lost (GoneStays). SpendInv follows a   *)
(* spent token from the store into the row that is on its way and into the *)
(* table, and with it over a restart. A reset holds the token it found as  *)
(* long as it waits for a hash (HashFits). Two cases are left to the       *)
(* property's exceptions: two resets that found the token together, and an *)
(* account two rows of which were on their way together (OneSave), which   *)
(* may be written in either order.                                         *)
(*                                                                         *)
(* Signatures and refresh tokens: what a login was let in with is marked in*)
(* Redis until its message is too old, and no check of it was on its way   *)
(* when the marker lapsed (Kept, SignInv); a signature Redis failed for or *)
(* whose marker lapsed earlier is left to the property's exceptions. A     *)
(* refresh token revoked in Redis stays there.                             *)
(***************************************************************************)
EXTENDS MCAccess, SequenceTheorems, TLAPS

-----------------------------------------------------------------------------
(* The governance                                                            *)

\* What ApprovedByQuorum needs to be inductive.
Quorum ==
  /\ ~initialized => proposals = <<>>
  /\ \A p \in DOMAIN proposals :
       /\ lowest[p] <= threshold
       /\ proposals[p].executed => proposals[p].threshold_reached_ts # 0
  /\ ApprovedByQuorum

IInv == TypeOK /\ SignersWellFormed /\ Quorum

-----------------------------------------------------------------------------
\* The payload an execution reads has the type of the account field it goes to.
LEMMA ActionPayload ==
  ASSUME NEW a \in Proposable
  PROVE  /\ a.type \in {"TransferAdmin", "AddSigner", "RemoveSigner"} => a.key \in Pubkeys
         /\ a.type = "SetPaused" => a.paused \in BOOLEAN
         /\ a.type = "SetThreshold" => a.threshold \in Nat
<1>1. a \in GovernanceAction
  BY ProposableAssumption
<1> HIDE DEF Pubkeys
<1> QED
  BY <1>1 DEF GovernanceAction

\* Appending to a sequence without repetitions a key it lacks repeats nothing.
LEMMA AppendDistinct ==
  ASSUME NEW S, NEW s \in Seq(S), Distinct(s), NEW x \in S, ~Contains(s, x)
  PROVE  Distinct(Append(s, x))
BY DEF Distinct, Contains

\* RemoveSigner's shift keeps every other slot, in order.
LEMMA WithoutSlotProperties ==
  ASSUME NEW S, NEW s \in Seq(S), NEW i \in 1..Len(s)
  PROVE  /\ WithoutSlot(s, i) \in Seq(S)
         /\ Len(WithoutSlot(s, i)) = Len(s) - 1
         /\ \A j \in 1..(Len(s) - 1) :
              WithoutSlot(s, i)[j] = IF j < i THEN s[j] ELSE s[j + 1]
<1>1. Len(s) - 1 \in Nat
  OBVIOUS
<1>2. \A j \in 1..(Len(s) - 1) : (IF j < i THEN s[j] ELSE s[j + 1]) \in S
  OBVIOUS
<1> QED
  BY <1>1, <1>2 DEF WithoutSlot

\* Writing one proposal account leaves the others as they are.
LEMMA WriteProposal ==
  ASSUME TypeOK, NEW p \in DOMAIN proposals, NEW r \in Proposal,
         proposals' = [proposals EXCEPT ![p] = r]
  PROVE  /\ proposals' \in Seq(Proposal)
         /\ DOMAIN proposals' = DOMAIN proposals
         /\ Len(proposals') = Len(proposals)
         /\ \A q \in DOMAIN proposals :
              proposals'[q] = IF q = p THEN r ELSE proposals[q]
<1>1. proposals \in Seq(Proposal) /\ DOMAIN proposals = 1..Len(proposals)
  BY DEF TypeOK
<1>2. p \in 1..Len(proposals)
  BY <1>1
<1> HIDE DEF TypeOK
<1>3. /\ [proposals EXCEPT ![p] = r] \in Seq(Proposal)
      /\ Len([proposals EXCEPT ![p] = r]) = Len(proposals)
      /\ \A q \in 1..Len(proposals) :
           [proposals EXCEPT ![p] = r][q] = IF q = p THEN r ELSE proposals[q]
  BY <1>1, <1>2, ExceptSeq
<1>4. DOMAIN proposals' = DOMAIN proposals
  BY <1>1
<1> QED
  BY <1>1, <1>3, <1>4

\* Spending a proposal marks it executed and touches nothing else.
LEMMA SpendProperties ==
  ASSUME TypeOK, NEW p \in DOMAIN proposals, Spend(p)
  PROVE  /\ proposals' \in Seq(Proposal)
         /\ DOMAIN proposals' = DOMAIN proposals
         /\ Len(proposals') = Len(proposals)
         /\ \A q \in DOMAIN proposals :
              proposals'[q] = IF q = p THEN [proposals[p] EXCEPT !.executed = TRUE]
                                       ELSE proposals[q]
<1>1. proposals[p] \in Proposal
  BY DEF TypeOK
<1>2. [proposals[p] EXCEPT !.executed = TRUE] \in Proposal
  BY <1>1 DEF Proposal
<1>3. proposals' = [proposals EXCEPT ![p] = [proposals[p] EXCEPT !.executed = TRUE]]
  BY DEF Spend
<1> QED
  BY <1>2, <1>3, WriteProposal

\* An execution keeps the invariant's facts about proposals, as long as no
\* proposal's lowest threshold grows and the new threshold is not below it.
LEMMA SpendKeepsProposals ==
  ASSUME IInv, NEW p \in DOMAIN proposals, IsExecutable(p), Spend(p),
         initialized' = initialized,
         lowest' \in Seq(Nat), Len(lowest') = Len(lowest),
         \A q \in DOMAIN lowest : lowest'[q] <= lowest[q] /\ lowest'[q] <= threshold'
  PROVE  /\ proposals' \in Seq(Proposal)
         /\ \A q \in DOMAIN proposals' : Len(proposals'[q].approvals) \in 1..MaxSigners
         /\ Len(lowest') = Len(proposals')
         /\ Quorum'
<1>1. TypeOK /\ Quorum
  BY DEF IInv
<1>2. /\ proposals' \in Seq(Proposal)
      /\ DOMAIN proposals' = DOMAIN proposals
      /\ Len(proposals') = Len(proposals)
      /\ \A q \in DOMAIN proposals :
           proposals'[q] = IF q = p THEN [proposals[p] EXCEPT !.executed = TRUE]
                                    ELSE proposals[q]
  BY <1>1, SpendProperties
<1>3. /\ DOMAIN proposals = 1..Len(proposals)
      /\ DOMAIN lowest = DOMAIN proposals
      /\ \A q \in DOMAIN proposals : proposals[q] \in Proposal /\ lowest[q] \in Nat
  BY <1>1 DEF TypeOK
<1>4. \A q \in DOMAIN lowest : lowest'[q] \in Nat
  BY <1>3 DEF IInv
<1>5. \A q \in DOMAIN proposals :
        /\ proposals'[q].approvals = proposals[q].approvals
        /\ proposals'[q].threshold_reached_ts = proposals[q].threshold_reached_ts
        /\ proposals'[q].executed => proposals[q].executed \/ q = p
        /\ Len(proposals[q].approvals) \in Nat
  <2> TAKE q \in DOMAIN proposals
  <2>1. proposals[q] \in Proposal /\ proposals[p] \in Proposal
    BY <1>3
  <2>2. proposals[q].approvals \in Seq(Keys)
    BY <2>1 DEF Proposal
  <2>3. Len(proposals[q].approvals) \in Nat
    BY <2>2
  <2>4. CASE q = p
    BY <1>2, <2>1, <2>3, <2>4 DEF Proposal
  <2>5. CASE q # p
    BY <1>2, <2>3, <2>5
  <2> QED
    BY <2>4, <2>5
<1>6. ~initialized' => proposals' = <<>>
  BY <1>1, <1>3 DEF Quorum, TypeOK
<1>7. proposals[p].threshold_reached_ts # 0
  BY DEF IsExecutable
<1>8. ApprovedByQuorum'
  <2> SUFFICES ASSUME NEW q \in DOMAIN proposals
               PROVE  /\ Distinct(proposals'[q].approvals)
                      /\ proposals'[q].threshold_reached_ts # 0 \/ proposals'[q].executed =>
                           Len(proposals'[q].approvals) >= lowest'[q]
    BY <1>2 DEF ApprovedByQuorum
  <2>1. /\ Distinct(proposals[q].approvals)
        /\ proposals[q].threshold_reached_ts # 0 =>
             Len(proposals[q].approvals) >= lowest[q]
    BY <1>1 DEF Quorum, ApprovedByQuorum
  <2>2. proposals'[q].executed => proposals[q].threshold_reached_ts # 0
    BY <1>1, <1>5, <1>7 DEF Quorum
  <2>3. lowest'[q] <= lowest[q] /\ lowest[q] \in Nat /\ lowest'[q] \in Nat
    BY <1>3, <1>4
  <2> QED
    BY <1>5, <2>1, <2>2, <2>3
<1>9. \A q \in DOMAIN proposals' :
        /\ lowest'[q] <= threshold'
        /\ proposals'[q].executed => proposals'[q].threshold_reached_ts # 0
  BY <1>1, <1>2, <1>3, <1>5, <1>7 DEF Quorum
<1>10. \A q \in DOMAIN proposals' : Len(proposals'[q].approvals) \in 1..MaxSigners
  BY <1>1, <1>2, <1>5 DEF TypeOK
<1>11. Len(lowest') = Len(proposals')
  BY <1>1, <1>2 DEF TypeOK
<1> QED
  BY <1>2, <1>6, <1>8, <1>9, <1>10, <1>11 DEF Quorum

\* Nothing in the invariant depends on the clock but the clock's own type.
LEMMA UnchangedKeeps ==
  ASSUME IInv, now' \in Nat \ {0},
         admin' \in Pubkeys, paused' \in BOOLEAN,
         UNCHANGED <<initialized, multisig, proposals, lowest>>
  PROVE  IInv'
BY DEF IInv, TypeOK, SignersWellFormed, Quorum, ApprovedByQuorum, multisig, Proposal

-----------------------------------------------------------------------------
LEMMA InitHolds == Init => IInv
<1> SUFFICES ASSUME Init PROVE IInv
  OBVIOUS
<1>1. Len(<<>>) = 0 /\ DOMAIN <<>> = {}
  OBVIOUS
<1>2. TypeOK
  <2>1. <<>> \in Seq(Pubkeys) /\ <<>> \in Seq(Proposal) /\ <<>> \in Seq(Nat)
    OBVIOUS
  <2>2. FirstAdmin \in Pubkeys
    BY KeysAssumption DEF Pubkeys
  <2>3. 1 \in Nat \ {0} /\ 0 \in Nat /\ 0 <= MaxSigners
    BY NumbersAssumption
  <2>4. \A p \in DOMAIN proposals : Len(proposals[p].approvals) \in 1..MaxSigners
    BY <1>1 DEF Init
  <2> QED
    BY <1>1, <2>1, <2>2, <2>3, <2>4 DEF Init, TypeOK
<1>3. SignersWellFormed
  BY DEF Init, SignersWellFormed
<1>4. Quorum
  BY <1>1 DEF Init, Quorum, ApprovedByQuorum
<1> QED
  BY <1>2, <1>3, <1>4 DEF IInv

LEMMA InitMultisigKeeps ==
  ASSUME IInv, NEW k \in Keys, NEW keys \in SignerLists, NEW m \in 0..(MaxSigners + 1),
         InitMultisig(k, keys, m)
  PROVE  IInv'
<1> USE NumbersAssumption
<1>1. keys \in Seq(Pubkeys) /\ Len(keys) \in Nat
  BY SignerListsAssumption
<1>2. proposals = <<>>
  BY DEF IInv, Quorum, InitMultisig
<1>3. TypeOK'
  BY <1>1, <1>2 DEF IInv, TypeOK, InitMultisig, Proposal
<1>4. SignersWellFormed'
  BY <1>1 DEF InitMultisig, SignersWellFormed, Distinct
<1>5. Quorum'
  BY <1>2 DEF InitMultisig, Quorum, ApprovedByQuorum
<1> QED
  BY <1>3, <1>4, <1>5 DEF IInv

LEMMA ProposeActionKeeps ==
  ASSUME IInv, NEW k \in Keys, NEW a \in Proposable, ProposeAction(k, a)
  PROVE  IInv'
<1> USE NumbersAssumption
<1> DEFINE new == [proposer |-> k, action |-> a, approvals |-> <<k>>,
                   threshold_reached_ts |-> IF 1 >= threshold THEN now ELSE 0,
                   executed |-> FALSE, cancelled |-> FALSE, expires_ts |-> now + Ttl]
<1>1. TypeOK /\ SignersWellFormed /\ Quorum
  BY DEF IInv
<1>2. <<k>> \in Seq(Keys) /\ Len(<<k>>) = 1 /\ <<k>>[1] = k
  OBVIOUS
<1>3. new \in Proposal
  BY <1>1, <1>2 DEF TypeOK, Proposal
<1>4. /\ Len(new.approvals) = 1 /\ Distinct(new.approvals)
      /\ ~new.executed
      /\ new.threshold_reached_ts # 0 => threshold <= 1
  BY <1>1, <1>2 DEF TypeOK, Distinct
<1>5. proposals' = Append(proposals, new) /\ lowest' = Append(lowest, threshold)
  BY DEF ProposeAction
<1> HIDE DEF new
<1>6. /\ proposals \in Seq(Proposal) /\ lowest \in Seq(Nat) /\ threshold \in Nat
      /\ Len(lowest) = Len(proposals) /\ Len(proposals) \in Nat
  BY <1>1 DEF TypeOK
<1>7. /\ proposals' \in Seq(Proposal) /\ lowest' \in Seq(Nat)
      /\ Len(proposals') = Len(proposals) + 1
      /\ Len(lowest') = Len(proposals')
      /\ DOMAIN proposals' = 1..(Len(proposals) + 1)
      /\ \A q \in 1..Len(proposals) :
           proposals'[q] = proposals[q] /\ lowest'[q] = lowest[q]
      /\ proposals'[Len(proposals) + 1] = new
      /\ lowest'[Len(proposals) + 1] = threshold
  BY <1>3, <1>5, <1>6
<1>8. TypeOK'
  <2>1. \A q \in DOMAIN proposals' : Len(proposals'[q].approvals) \in 1..MaxSigners
    <3> SUFFICES ASSUME NEW q \in 1..(Len(proposals) + 1)
                 PROVE  Len(proposals'[q].approvals) \in 1..MaxSigners
      BY <1>7
    <3>1. CASE q = Len(proposals) + 1
      <4>1. proposals'[q] = new
        BY <1>7, <3>1
      <4>2. Len(proposals'[q].approvals) = 1
        BY <1>4, <4>1, Zenon
      <4> QED
        BY <4>2
    <3>2. CASE q \in 1..Len(proposals)
      <4>1. proposals'[q] = proposals[q]
        BY <1>7, <3>2
      <4>2. Len(proposals[q].approvals) \in 1..MaxSigners
        BY <1>1, <3>2 DEF TypeOK
      <4> QED
        BY <4>1, <4>2
    <3> QED
      BY <1>6, <3>1, <3>2
  <2> QED
    BY <1>1, <1>7, <2>1 DEF TypeOK, ProposeAction, config, multisig, Proposal
<1>9. SignersWellFormed'
  BY <1>1 DEF ProposeAction, config, multisig, SignersWellFormed
<1>10. Quorum'
  <2>1. initialized' /\ threshold' = threshold
    BY DEF ProposeAction, config, multisig
  <2>2. ASSUME NEW q \in 1..(Len(proposals) + 1)
        PROVE  /\ lowest'[q] <= threshold
               /\ proposals'[q].executed => proposals'[q].threshold_reached_ts # 0
               /\ Distinct(proposals'[q].approvals)
               /\ (proposals'[q].threshold_reached_ts # 0 \/ proposals'[q].executed) =>
                    Len(proposals'[q].approvals) >= lowest'[q]
    <3>1. CASE q = Len(proposals) + 1
      <4>1. proposals'[q] = new /\ lowest'[q] = threshold
        BY <1>7, <3>1
      <4>2. /\ Len(proposals'[q].approvals) = 1 /\ Distinct(proposals'[q].approvals)
            /\ ~proposals'[q].executed
            /\ proposals'[q].threshold_reached_ts # 0 => threshold <= 1
        BY <1>4, <4>1, Zenon
      <4> QED
        BY <1>6, <4>1, <4>2
    <3>2. CASE q \in 1..Len(proposals)
      <4>1. proposals'[q] = proposals[q] /\ lowest'[q] = lowest[q]
        BY <1>7, <3>2
      <4>2. q \in DOMAIN proposals
        BY <1>6, <3>2
      <4> QED
        BY <1>1, <4>1, <4>2 DEF Quorum, ApprovedByQuorum
    <3> QED
      BY <1>6, <3>1, <3>2
  <2> QED
    BY <1>7, <2>1, <2>2 DEF Quorum, ApprovedByQuorum
<1> QED
  BY <1>8, <1>9, <1>10 DEF IInv

LEMMA ApproveActionKeeps ==
  ASSUME IInv, NEW p \in DOMAIN proposals, NEW k \in Keys, ApproveAction(p, k)
  PROVE  IInv'
<1> USE NumbersAssumption
<1> DEFINE old == proposals[p]
           approvals == Append(old.approvals, k)
           reached == IF old.threshold_reached_ts = 0 /\ Len(approvals) >= threshold
                        THEN now ELSE old.threshold_reached_ts
           new == [old EXCEPT !.approvals = approvals, !.threshold_reached_ts = reached]
<1>1. TypeOK /\ SignersWellFormed /\ Quorum
  BY DEF IInv
<1>2. old \in Proposal /\ old.approvals \in Seq(Keys) /\ old.threshold_reached_ts \in Nat
  <2>1. old \in Proposal
    BY <1>1 DEF TypeOK
  <2> QED
    BY <2>1 DEF Proposal
<1>3. /\ approvals \in Seq(Keys)
      /\ Len(approvals) = Len(old.approvals) + 1
      /\ Len(approvals) \in 1..MaxSigners
  BY <1>2 DEF ApproveAction, HasFreeSlot
<1>4. Distinct(approvals)
  <2>1. Distinct(old.approvals) /\ ~Contains(old.approvals, k)
    BY <1>1 DEF Quorum, ApprovedByQuorum, ApproveAction, HasApproved
  <2> QED
    BY <1>2, <2>1, AppendDistinct
<1>5. reached \in Nat
  BY <1>1, <1>2 DEF TypeOK
<1>6. new \in Proposal
  BY <1>2, <1>3, <1>5 DEF Proposal
<1>7. /\ new.approvals = approvals
      /\ new.threshold_reached_ts = reached
      /\ new.executed = old.executed
  BY <1>2 DEF Proposal
<1>8. proposals' = [proposals EXCEPT ![p] = new]
  BY DEF ApproveAction
<1>9. UNCHANGED <<now, config, multisig, lowest>> /\ ~old.executed
  BY DEF ApproveAction, IsLive
<1> HIDE DEF new
<1>10. /\ proposals' \in Seq(Proposal)
       /\ DOMAIN proposals' = DOMAIN proposals
       /\ Len(proposals') = Len(proposals)
       /\ \A q \in DOMAIN proposals :
            proposals'[q] = IF q = p THEN new ELSE proposals[q]
  BY <1>1, <1>6, <1>8, WriteProposal
<1>11. reached # 0 => Len(approvals) >= lowest[p]
  <2>1. /\ lowest[p] <= threshold /\ lowest[p] \in Nat /\ threshold \in Nat
        /\ old.threshold_reached_ts # 0 => Len(old.approvals) >= lowest[p]
    BY <1>1 DEF Quorum, ApprovedByQuorum, TypeOK
  <2>2. Len(old.approvals) \in Nat
    BY <1>2
  <2> QED
    BY <1>3, <2>1, <2>2
<1>12. ASSUME NEW q \in DOMAIN proposals
       PROVE  /\ Len(proposals'[q].approvals) \in 1..MaxSigners
              /\ proposals'[q].executed => proposals'[q].threshold_reached_ts # 0
              /\ Distinct(proposals'[q].approvals)
              /\ (proposals'[q].threshold_reached_ts # 0 \/ proposals'[q].executed) =>
                   Len(proposals'[q].approvals) >= lowest[q]
  <2>1. CASE q = p
    <3>1. proposals'[q] = new
      BY <1>10, <2>1
    <3>2. ~new.executed
      BY <1>7, <1>9
    <3> HIDE DEF approvals, reached
    <3>3. /\ proposals'[q].approvals = approvals
          /\ proposals'[q].threshold_reached_ts = reached
          /\ ~proposals'[q].executed
      BY <1>7, <3>1, <3>2, Zenon
    <3> QED
      BY <1>3, <1>4, <1>11, <2>1, <3>3
  <2>2. CASE q # p
    <3>1. proposals'[q] = proposals[q]
      BY <1>10, <2>2
    <3> QED
      BY <1>1, <3>1 DEF TypeOK, Quorum, ApprovedByQuorum
  <2> QED
    BY <2>1, <2>2
<1>13. TypeOK'
  BY <1>1, <1>9, <1>10, <1>12 DEF TypeOK, config, multisig
<1>14. SignersWellFormed'
  BY <1>1, <1>9 DEF config, multisig, SignersWellFormed
<1>15. Quorum'
  <2>1. ~initialized' => proposals' = <<>>
    BY <1>1, <1>9 DEF Quorum, config
  <2>2. \A q \in DOMAIN proposals' : lowest'[q] <= threshold'
    BY <1>1, <1>9, <1>10 DEF Quorum, multisig
  <2> QED
    BY <1>9, <1>10, <1>12, <2>1, <2>2 DEF Quorum, ApprovedByQuorum
<1> QED
  BY <1>13, <1>14, <1>15 DEF IInv

LEMMA CancelProposalKeeps ==
  ASSUME IInv, NEW p \in DOMAIN proposals, NEW k \in Keys, CancelProposal(p, k)
  PROVE  IInv'
<1> DEFINE new == [proposals[p] EXCEPT !.cancelled = TRUE]
<1>1. TypeOK /\ SignersWellFormed /\ Quorum
  BY DEF IInv
<1>2. proposals[p] \in Proposal
  BY <1>1 DEF TypeOK
<1>3. /\ new \in Proposal
      /\ new.approvals = proposals[p].approvals
      /\ new.threshold_reached_ts = proposals[p].threshold_reached_ts
      /\ new.executed = proposals[p].executed
  BY <1>2 DEF Proposal
<1>4. proposals' = [proposals EXCEPT ![p] = new]
  BY DEF CancelProposal
<1>5. UNCHANGED <<now, config, multisig, lowest>>
  BY DEF CancelProposal
<1> HIDE DEF new
<1>6. /\ proposals' \in Seq(Proposal)
      /\ DOMAIN proposals' = DOMAIN proposals
      /\ Len(proposals') = Len(proposals)
      /\ \A q \in DOMAIN proposals :
           proposals'[q] = IF q = p THEN new ELSE proposals[q]
  BY <1>1, <1>3, <1>4, WriteProposal
<1>7. ASSUME NEW q \in DOMAIN proposals
      PROVE  /\ proposals'[q].approvals = proposals[q].approvals
             /\ proposals'[q].threshold_reached_ts = proposals[q].threshold_reached_ts
             /\ proposals'[q].executed = proposals[q].executed
  <2>1. CASE q = p
    BY <1>3, <1>6, <2>1, Zenon
  <2>2. CASE q # p
    BY <1>6, <2>2, Zenon
  <2> QED
    BY <2>1, <2>2
<1>8. TypeOK'
  BY <1>1, <1>5, <1>6, <1>7 DEF TypeOK, config, multisig
<1>9. SignersWellFormed'
  BY <1>1, <1>5 DEF config, multisig, SignersWellFormed
<1>10. Quorum'
  BY <1>1, <1>5, <1>6, <1>7 DEF Quorum, ApprovedByQuorum, config, multisig
<1> QED
  BY <1>8, <1>9, <1>10 DEF IInv

\* Every execution but that of a threshold or signer change.
LEMMA SpendKeeps ==
  ASSUME IInv, NEW p \in DOMAIN proposals, IsExecutable(p), Spend(p),
         UNCHANGED <<now, initialized, multisig, lowest>>,
         admin' \in Pubkeys, paused' \in BOOLEAN
  PROVE  IInv'
<1>1. TypeOK /\ SignersWellFormed /\ Quorum
  BY DEF IInv
<1>2. /\ lowest' \in Seq(Nat) /\ Len(lowest') = Len(lowest)
      /\ \A q \in DOMAIN lowest : lowest'[q] <= lowest[q] /\ lowest'[q] <= threshold'
  BY <1>1 DEF TypeOK, Quorum, multisig
<1>3. /\ proposals' \in Seq(Proposal)
      /\ \A q \in DOMAIN proposals' : Len(proposals'[q].approvals) \in 1..MaxSigners
      /\ Len(lowest') = Len(proposals')
      /\ Quorum'
  BY <1>2, SpendKeepsProposals
<1>4. TypeOK'
  BY <1>1, <1>2, <1>3 DEF TypeOK, multisig
<1>5. SignersWellFormed'
  BY <1>1 DEF SignersWellFormed, multisig
<1> QED
  BY <1>3, <1>4, <1>5 DEF IInv

\* A change of the signers that keeps the threshold.
LEMMA SignersChangeKeeps ==
  ASSUME IInv, NEW p \in DOMAIN proposals, IsExecutable(p), Spend(p),
         UNCHANGED <<now, config, threshold, lowest>>,
         signers' \in Seq(Pubkeys), Len(signers') <= MaxSigners,
         SignersWellFormed'
  PROVE  IInv'
<1>1. TypeOK /\ Quorum
  BY DEF IInv
<1>2. /\ lowest' \in Seq(Nat) /\ Len(lowest') = Len(lowest)
      /\ \A q \in DOMAIN lowest : lowest'[q] <= lowest[q] /\ lowest'[q] <= threshold'
      /\ initialized' = initialized
  <2>1. initialized' = initialized /\ lowest' = lowest /\ threshold' = threshold
    BY DEF config
  <2>2. lowest \in Seq(Nat) /\ \A q \in DOMAIN lowest : lowest[q] \in Nat
    BY <1>1 DEF TypeOK
  <2>3. DOMAIN lowest = DOMAIN proposals
    BY <1>1 DEF TypeOK
  <2>4. \A q \in DOMAIN lowest : lowest[q] <= threshold
    BY <1>1, <2>3 DEF Quorum
  <2> QED
    BY <2>1, <2>2, <2>4
<1>3. /\ proposals' \in Seq(Proposal)
      /\ \A q \in DOMAIN proposals' : Len(proposals'[q].approvals) \in 1..MaxSigners
      /\ Len(lowest') = Len(proposals')
      /\ Quorum'
  BY <1>2, SpendKeepsProposals
<1>4. TypeOK'
  BY <1>1, <1>2, <1>3 DEF TypeOK, config
<1> QED
  BY <1>3, <1>4 DEF IInv

LEMMA ExecuteAddSignerKeeps ==
  ASSUME IInv, NEW p \in DOMAIN proposals, ExecuteAddSigner(p)
  PROVE  IInv'
<1> DEFINE key == proposals[p].action.key
<1> USE NumbersAssumption
<1>1. TypeOK /\ SignersWellFormed
  BY DEF IInv
<1>2. key \in Pubkeys
  <2>1. proposals[p] \in Proposal
    BY <1>1 DEF TypeOK
  <2>2. proposals[p].action \in Proposable
    BY <2>1 DEF Proposal
  <2> QED
    BY <2>2, ActionPayload DEF ExecuteAddSigner
<1>3. /\ IsExecutable(p) /\ Spend(p) /\ ~IsMultisigSigner(key) /\ Len(signers) < MaxSigners
      /\ signers' = Append(signers, key)
      /\ UNCHANGED <<now, config, threshold, lowest>>
  BY DEF ExecuteAddSigner, HasFreeSlot
<1> HIDE DEF key
<1>4. /\ signers \in Seq(Pubkeys) /\ Len(signers) \in Nat /\ threshold \in Nat
      /\ signers' \in Seq(Pubkeys)
      /\ Len(signers') = Len(signers) + 1
      /\ \A i \in 1..Len(signers) : signers'[i] = signers[i]
      /\ signers'[Len(signers) + 1] = key
  BY <1>1, <1>2, <1>3 DEF TypeOK
<1>5. SignersWellFormed'
  <2> SUFFICES ASSUME initialized PROVE SignersWellFormed'
    BY <1>3 DEF SignersWellFormed, config
  <2>1. threshold' \in 1..Len(signers')
    BY <1>1, <1>3, <1>4 DEF SignersWellFormed
  <2>2. ASSUME NEW i \in 1..Len(signers'), NEW j \in 1..Len(signers'),
               signers'[i] = signers'[j], signers'[i] # NoKey
        PROVE  i = j
    <3>1. i \in 1..Len(signers) \/ i = Len(signers) + 1
      BY <1>4
    <3>2. j \in 1..Len(signers) \/ j = Len(signers) + 1
      BY <1>4
    <3>3. ~(key # NoKey /\ \E n \in 1..Len(signers) : signers[n] = key)
      BY <1>3 DEF IsMultisigSigner, Contains
    <3> QED
      BY <1>1, <1>4, <2>2, <3>1, <3>2, <3>3 DEF SignersWellFormed
  <2> QED
    BY <2>1, <2>2 DEF SignersWellFormed
<1>6. Len(signers') <= MaxSigners
  BY <1>3, <1>4
<1> QED
  BY <1>3, <1>4, <1>5, <1>6, SignersChangeKeeps

LEMMA ExecuteRemoveSignerKeeps ==
  ASSUME IInv, NEW p \in DOMAIN proposals, ExecuteRemoveSigner(p)
  PROVE  IInv'
<1> USE NumbersAssumption
<1>1. TypeOK /\ SignersWellFormed
  BY DEF IInv
<1>2. PICK s \in 1..Len(signers) : signers' = WithoutSlot(signers, s)
  BY DEF ExecuteRemoveSigner
<1>3. /\ IsExecutable(p) /\ Spend(p) /\ threshold < Len(signers)
      /\ UNCHANGED <<now, config, threshold, lowest>>
  BY DEF ExecuteRemoveSigner, MayRemove
<1>4. /\ signers \in Seq(Pubkeys) /\ Len(signers) \in Nat /\ threshold \in Nat
      /\ Len(signers) <= MaxSigners
  BY <1>1 DEF TypeOK
<1>5. /\ signers' \in Seq(Pubkeys)
      /\ Len(signers') = Len(signers) - 1
      /\ \A j \in 1..(Len(signers) - 1) :
           signers'[j] = IF j < s THEN signers[j] ELSE signers[j + 1]
  BY <1>2, <1>4, WithoutSlotProperties
<1>6. SignersWellFormed'
  <2> SUFFICES ASSUME initialized PROVE SignersWellFormed'
    BY <1>3 DEF SignersWellFormed, config
  <2>1. threshold' \in 1..Len(signers')
    BY <1>1, <1>3, <1>4, <1>5 DEF SignersWellFormed
  <2>2. ASSUME NEW i \in 1..Len(signers'), NEW j \in 1..Len(signers'),
               signers'[i] = signers'[j], signers'[i] # NoKey
        PROVE  i = j
    <3> DEFINE from(n) == IF n < s THEN n ELSE n + 1
    <3>1. /\ from(i) \in 1..Len(signers) /\ from(j) \in 1..Len(signers)
          /\ signers[from(i)] = signers'[i] /\ signers[from(j)] = signers'[j]
      BY <1>4, <1>5
    <3>2. from(i) = from(j)
      BY <1>1, <2>2, <3>1 DEF SignersWellFormed
    <3> QED
      BY <1>4, <1>5, <3>2
  <2> QED
    BY <2>1, <2>2 DEF SignersWellFormed
<1>7. Len(signers') <= MaxSigners
  BY <1>4, <1>5
<1> QED
  BY <1>3, <1>5, <1>6, <1>7, SignersChangeKeeps

LEMMA ExecuteSetThresholdKeeps ==
  ASSUME IInv, NEW p \in DOMAIN proposals, ExecuteSetThreshold(p)
  PROVE  IInv'
<1>1. TypeOK /\ SignersWellFormed
  BY DEF IInv
<1>2. /\ IsExecutable(p) /\ Spend(p)
      /\ threshold' \in 1..Len(signers)
      /\ lowest' = Lowered(threshold')
      /\ UNCHANGED <<now, config, signers>>
  BY DEF ExecuteSetThreshold
<1>3. /\ lowest \in Seq(Nat) /\ DOMAIN lowest = 1..Len(lowest) /\ Len(lowest) \in Nat
      /\ Len(signers) \in Nat
  BY <1>1 DEF TypeOK
<1>4. threshold' \in Nat
  BY <1>2, <1>3
<1>5. /\ lowest' \in Seq(Nat) /\ Len(lowest') = Len(lowest)
      /\ \A q \in DOMAIN lowest : lowest'[q] <= lowest[q] /\ lowest'[q] <= threshold'
  <2>1. \A q \in 1..Len(lowest) : lowest[q] \in Nat
    BY <1>3
  <2>2. lowest' = [q \in 1..Len(lowest) |->
                     IF threshold' < lowest[q] THEN threshold' ELSE lowest[q]]
    BY <1>2, <1>3 DEF Lowered
  <2> QED
    BY <1>3, <1>4, <2>1, <2>2
<1>6. initialized' = initialized
  BY <1>2 DEF config
<1>7. /\ proposals' \in Seq(Proposal)
      /\ \A q \in DOMAIN proposals' : Len(proposals'[q].approvals) \in 1..MaxSigners
      /\ Len(lowest') = Len(proposals')
      /\ Quorum'
  BY <1>2, <1>5, <1>6, SpendKeepsProposals
<1>8. TypeOK'
  BY <1>1, <1>2, <1>4, <1>5, <1>7 DEF TypeOK, config
<1>9. SignersWellFormed'
  BY <1>1, <1>2, <1>6 DEF SignersWellFormed
<1> QED
  BY <1>7, <1>8, <1>9 DEF IInv

LEMMA ExecuteActionKeeps ==
  ASSUME IInv, NEW p \in DOMAIN proposals, ExecuteAction(p)
  PROVE  IInv'
<1>1. TypeOK
  BY DEF IInv
<1>2. proposals[p].action \in Proposable
  <2>1. proposals[p] \in Proposal
    BY <1>1 DEF TypeOK
  <2> QED
    BY <2>1 DEF Proposal
<1>3. CASE ExecuteTransferAdmin(p)
  <2>1. admin' \in Pubkeys
    BY <1>2, <1>3, ActionPayload DEF ExecuteTransferAdmin
  <2> QED
    BY <1>1, <1>3, <2>1, SpendKeeps DEF ExecuteTransferAdmin, TypeOK, multisig
<1>4. CASE ExecuteSetPaused(p)
  <2>1. paused' \in BOOLEAN
    BY <1>2, <1>4, ActionPayload DEF ExecuteSetPaused
  <2> QED
    BY <1>1, <1>4, <2>1, SpendKeeps DEF ExecuteSetPaused, TypeOK, multisig
<1> QED
  BY <1>3, <1>4, ExecuteAddSignerKeeps, ExecuteRemoveSignerKeeps, ExecuteSetThresholdKeeps
     DEF ExecuteAction

\* One step of anybody, or of the clock, keeps the inductive invariant.
LEMMA StepKeeps == IInv /\ [Next]_vars => IInv'
<1> SUFFICES ASSUME IInv, [Next]_vars PROVE IInv'
  OBVIOUS
<1>1. TypeOK
  BY DEF IInv
<1>2. CASE Tick
  <2>1. now' \in Nat \ {0} /\ UNCHANGED <<config, multisig, proposals, lowest>>
    BY <1>1, <1>2, NumbersAssumption DEF Tick, TypeOK
  <2> QED
    BY <1>1, <2>1, UnchangedKeeps DEF config, TypeOK
<1>3. ASSUME NEW k \in Keys, NEW new \in Pubkeys, TransferAdmin(k, new)
      PROVE  IInv'
  BY <1>1, <1>3, UnchangedKeeps DEF TransferAdmin, TypeOK
<1>4. ASSUME NEW p \in DOMAIN proposals, NEW m \in Markets, NEW r \in Results,
             ExecuteResolveMarketAdmin(p, m, r)
      PROVE  IInv'
  <2>1. /\ IsExecutable(p) /\ Spend(p)
        /\ UNCHANGED <<now, initialized, multisig, lowest>>
        /\ admin' = admin /\ paused' = paused
    BY <1>4 DEF ExecuteResolveMarketAdmin, config
  <2> QED
    BY <1>1, <2>1, SpendKeeps DEF TypeOK
<1>5. CASE UNCHANGED vars
  BY <1>1, <1>5, UnchangedKeeps DEF vars, config, TypeOK
<1> QED
  BY <1>2, <1>3, <1>4, <1>5, InitMultisigKeeps, ProposeActionKeeps, ApproveActionKeeps,
     CancelProposalKeeps, ExecuteActionKeeps DEF Next

\* The inductive invariant holds in every reachable state.
THEOREM Invariance == Spec => []IInv
BY InitHolds, StepKeeps, PTL DEF Spec

\* The accounts hold values of their types: no instruction overruns the slots
\* for signers or approvals.
THEOREM TypeCorrect == Spec => []TypeOK
<1>1. IInv => TypeOK
  BY DEF IInv
<1> QED
  BY <1>1, Invariance, PTL

\* No sequence of executed proposals leaves a multisig with a key counted
\* twice or a threshold above its slots.
THEOREM SignersStayWellFormed == Spec => []SignersWellFormed
<1>1. IInv => SignersWellFormed
  BY DEF IInv
<1> QED
  BY <1>1, Invariance, PTL

\* What governance executes was approved by as many different keys as the
\* lowest threshold the proposal lived under.
THEOREM ExecutedWithQuorum == Spec => []ApprovedByQuorum
<1>1. IInv => ApprovedByQuorum
  BY DEF IInv, Quorum
<1> QED
  BY <1>1, Invariance, PTL
-----------------------------------------------------------------------------
\* An execution leaves an ended proposal as it is: it spends one that is live.
LEMMA SpendSparesEnded ==
  ASSUME IInv, NEW p \in DOMAIN proposals, IsExecutable(p), Spend(p),
         NEW q \in DOMAIN proposals, Ended(q)
  PROVE  proposals'[q] = proposals[q]
<1>1. q # p
  BY DEF IsExecutable, IsLive, Ended
<1>2. TypeOK
  BY DEF IInv
<1> QED
  BY <1>1, <1>2, SpendProperties

\* What is executed or cancelled never changes again.
LEMMA StepSparesEnded ==
  ASSUME IInv, Next, NEW q \in DOMAIN proposals, Ended(q)
  PROVE  proposals'[q] = proposals[q]
<1>1. proposals \in Seq(Proposal) /\ TypeOK
  BY DEF IInv, TypeOK
<1>2. CASE Tick
  BY <1>2 DEF Tick
<1>3. CASE \E k \in Keys, new \in Pubkeys : TransferAdmin(k, new)
  BY <1>3 DEF TransferAdmin
<1>4. CASE \E k \in Keys, keys \in SignerLists, m \in 0..(MaxSigners + 1) :
             InitMultisig(k, keys, m)
  BY <1>4 DEF InitMultisig
<1>5. ASSUME NEW k \in Keys, NEW a \in Proposable, ProposeAction(k, a)
      PROVE  proposals'[q] = proposals[q]
  <2>1. PICK new : proposals' = Append(proposals, new)
    BY <1>5 DEF ProposeAction
  <2> QED
    BY <1>1, <2>1
<1>6. ASSUME NEW p \in DOMAIN proposals, NEW k \in Keys, ApproveAction(p, k)
      PROVE  proposals'[q] = proposals[q]
  <2>1. q # p
    BY <1>6 DEF ApproveAction, IsLive, Ended
  <2> QED
    BY <1>1, <1>6, <2>1 DEF ApproveAction
<1>7. ASSUME NEW p \in DOMAIN proposals, NEW k \in Keys, CancelProposal(p, k)
      PROVE  proposals'[q] = proposals[q]
  <2>1. q # p
    BY <1>7 DEF CancelProposal, Ended
  <2> QED
    BY <1>1, <1>7, <2>1 DEF CancelProposal
<1>8. ASSUME NEW p \in DOMAIN proposals, ExecuteAction(p)
      PROVE  proposals'[q] = proposals[q]
  <2>1. IsExecutable(p) /\ Spend(p)
    BY <1>8 DEF ExecuteAction, ExecuteTransferAdmin, ExecuteSetPaused, ExecuteAddSigner,
                ExecuteRemoveSigner, ExecuteSetThreshold
  <2> QED
    BY <2>1, SpendSparesEnded
<1>9. ASSUME NEW p \in DOMAIN proposals, NEW m \in Markets, NEW r \in Results,
             ExecuteResolveMarketAdmin(p, m, r)
      PROVE  proposals'[q] = proposals[q]
  <2>1. IsExecutable(p) /\ Spend(p)
    BY <1>9 DEF ExecuteResolveMarketAdmin
  <2> QED
    BY <2>1, SpendSparesEnded
<1> QED
  BY <1>2, <1>3, <1>4, <1>5, <1>6, <1>7, <1>8, <1>9 DEF Next

\* A proposal is executed at most once, and never after it was cancelled.
THEOREM ProposalsEndOnce == Spec => EndsOnce
<1>1. IInv /\ [Next]_vars =>
        [\A p \in DOMAIN proposals : Ended(p) => proposals'[p] = proposals[p]]_vars
  BY StepSparesEnded
<1> QED
  BY <1>1, Invariance, PTL DEF Spec, EndsOnce

\* The spent proposal of an execution is the witness of GovernedChange.
LEMMA SpendIsGoverned ==
  ASSUME IInv, NEW p \in DOMAIN proposals, IsExecutable(p), Spend(p)
  PROVE  /\ ~Ended(p) /\ proposals'[p].executed
         /\ Len(proposals[p].approvals) >= lowest[p]
         /\ proposals[p].threshold_reached_ts \in 1..(now - Delay)
<1> USE NumbersAssumption
<1>1. TypeOK /\ Quorum
  BY DEF IInv
<1>2. proposals[p] \in Proposal
  BY <1>1 DEF TypeOK
<1>3. ~Ended(p)
  BY DEF IsExecutable, IsLive, Ended
<1>4. proposals'[p].executed
  <2>1. proposals'[p] = [proposals[p] EXCEPT !.executed = TRUE]
    BY <1>1, SpendProperties
  <2>2. [proposals[p] EXCEPT !.executed = TRUE].executed
    BY <1>2 DEF Proposal
  <2> QED
    BY <2>1, <2>2, Zenon
<1>5. proposals[p].threshold_reached_ts \in Nat
  BY <1>2 DEF Proposal
<1>6. proposals[p].threshold_reached_ts \in 1..(now - Delay)
  <2>1. now \in Nat
    BY <1>1 DEF TypeOK
  <2> QED
    BY <1>5, <2>1 DEF IsExecutable
<1>7. Len(proposals[p].approvals) >= lowest[p]
  BY <1>1 DEF IsExecutable, Quorum, ApprovedByQuorum
<1> QED
  BY <1>3, <1>4, <1>6, <1>7

LEMMA StepIsGoverned ==
  ASSUME IInv, Next, initialized, <<config, multisig>>' # <<config, multisig>>
  PROVE  \E p \in DOMAIN proposals :
           /\ ~Ended(p) /\ proposals'[p].executed
           /\ Len(proposals[p].approvals) >= lowest[p]
           /\ proposals[p].threshold_reached_ts \in 1..(now - Delay)
<1>1. ~Tick
  BY DEF Tick
<1>2. ~ \E k \in Keys, new \in Pubkeys : TransferAdmin(k, new)
  BY DEF TransferAdmin
<1>3. ~ \E k \in Keys, keys \in SignerLists, m \in 0..(MaxSigners + 1) :
            InitMultisig(k, keys, m)
  BY DEF InitMultisig
<1>4. ~ \E k \in Keys, a \in Proposable : ProposeAction(k, a)
  BY DEF ProposeAction
<1>5. ~ \E p \in DOMAIN proposals, k \in Keys : ApproveAction(p, k) \/ CancelProposal(p, k)
  BY DEF ApproveAction, CancelProposal
<1>6. ~ \E p \in DOMAIN proposals, m \in Markets, r \in Results :
            ExecuteResolveMarketAdmin(p, m, r)
  BY DEF ExecuteResolveMarketAdmin
<1>7. PICK p \in DOMAIN proposals : ExecuteAction(p)
  BY <1>1, <1>2, <1>3, <1>4, <1>5, <1>6 DEF Next
<1>8. IsExecutable(p) /\ Spend(p)
  BY <1>7 DEF ExecuteAction, ExecuteTransferAdmin, ExecuteSetPaused, ExecuteAddSigner,
              ExecuteRemoveSigner, ExecuteSetThreshold
<1> QED
  BY <1>8, SpendIsGoverned

\* Once the multisig exists, nothing but a proposal that met its quorum and
\* waited out the timelock changes the admin, the pause flag or the multisig.
THEOREM ChangesAreGoverned == Spec => GovernedChange
<1>1. IInv /\ [Next]_vars =>
        [(initialized /\ <<config, multisig>>' # <<config, multisig>>) =>
           \E p \in DOMAIN proposals :
             /\ ~Ended(p) /\ proposals'[p].executed
             /\ Len(proposals[p].approvals) >= lowest[p]
             /\ proposals[p].threshold_reached_ts \in 1..(now - Delay)]_vars
  BY StepIsGoverned
<1> QED
  BY <1>1, Invariance, PTL DEF Spec, GovernedChange

-----------------------------------------------------------------------------
(* The panels                                                                *)

IsRequest(q) == q = [what |-> q.what, arg |-> q.arg, held |-> q.held, back |-> q.back]

\* What a browser waits for, and what a code it sent may be.
AskedFits ==
  /\ DOMAIN asked = Keys
  /\ \A k \in Keys : \A what \in DOMAIN asked[k] :
       /\ IsRequest(asked[k][what]) /\ asked[k][what].what = what
       /\ what = "code" => asked[k][what].arg \in Int
       /\ what = "logout" => asked[k][what].back \in {Waiting, Keep, NoCookie}

PanelTyped ==
  /\ AskedFits
  /\ DOMAIN cookie = Keys
  /\ consumedCounters \in [Keys -> Int]
  /\ panelPast = [entered |-> panelPast.entered, twice |-> panelPast.twice,
                  alone |-> panelPast.alone, out |-> panelPast.out]
  /\ panelPast.entered \in [Keys -> SUBSET Int]

\* No code that let somebody in is above the counter of its process.
CodesConsumed ==
  /\ ~panelPast.twice
  /\ \A k \in Keys : \A c \in panelPast.entered[k] : c <= consumedCounters[k]

\* Who signed out has no request on its way, and before it is answered only
\* the logout.
OutIsQuiet ==
  /\ panelPast.out \subseteq Keys
  /\ \A k \in panelPast.out : cookie[k] = NoCookie /\ DOMAIN asked[k] = {}
  /\ \A k \in Keys \cap panelPast.alone : DOMAIN asked[k] \subseteq {"logout"}

PanelInv == PanelTyped /\ CodesConsumed /\ OutIsQuiet

LEMMA PanelStarts == PanelInit => PanelInv
<1> SUFFICES ASSUME PanelInit PROVE PanelInv
  OBVIOUS
<1>1. /\ asked = [k \in Keys |-> << >>] /\ consumedCounters = [k \in Keys |-> 0]
      /\ panelPast = [entered |-> [k \in Keys |-> {}], twice |-> FALSE, alone |-> {}, out |-> {}]
  BY DEF PanelInit
<1>2. DOMAIN << >> = {}
  OBVIOUS
<1>3. DOMAIN cookie = Keys
  BY PanelStoriesAssumption DEF PanelInit
<1> QED
  BY <1>1, <1>2, <1>3 DEF PanelInv, PanelTyped, AskedFits, CodesConsumed, OutIsQuiet

-----------------------------------------------------------------------------
\* What one more request of a browser leaves as it was.
LEMMA AskKeeps ==
  ASSUME PanelInv, NEW k \in Keys, NEW what, NEW arg, Ask(k, what, arg),
         what = "code" => arg \in Int
  PROVE  PanelInv'
<1> DEFINE new == [what |-> what, arg |-> arg, held |-> cookie[k], back |-> Waiting]
           D == DOMAIN asked[k]
<1>1. /\ what \notin D
      /\ asked' = [asked EXCEPT ![k] = [w \in D \cup {what} |-> IF w \in D THEN asked[k][w] ELSE new]]
      /\ cookie' = cookie /\ consumedCounters' = consumedCounters
      /\ panelPast' = [panelPast EXCEPT
           !.out = @ \ {k},
           !.alone = IF what = "logout" /\ D = {} THEN @ \cup {k} ELSE @ \ {k}]
  BY DEF Ask, Chain, processVars
<1>2. /\ DOMAIN asked' = Keys
      /\ DOMAIN asked'[k] = D \cup {what}
      /\ \A w \in D : asked'[k][w] = asked[k][w]
      /\ asked'[k][what] = new
      /\ \A j \in Keys \ {k} : asked'[j] = asked[j]
  BY <1>1 DEF PanelInv, PanelTyped, AskedFits
<1>3. new = [what |-> new.what, arg |-> new.arg, held |-> new.held, back |-> new.back]
      /\ new.what = what /\ new.arg = arg /\ new.back = Waiting
  OBVIOUS
<1>4. AskedFits'
  <2> SUFFICES ASSUME NEW j \in Keys, NEW w \in DOMAIN asked'[j]
               PROVE  /\ IsRequest(asked'[j][w]) /\ asked'[j][w].what = w
                      /\ w = "code" => asked'[j][w].arg \in Int
                      /\ w = "logout" => asked'[j][w].back \in {Waiting, Keep, NoCookie}
    BY <1>2 DEF AskedFits
  <2>1. CASE j = k /\ w = what
    BY <1>2, <1>3, <2>1 DEF IsRequest
  <2>2. CASE ~(j = k /\ w = what)
    <3>1. w \in DOMAIN asked[j] /\ asked'[j][w] = asked[j][w]
      BY <1>2, <2>2
    <3> HIDE DEF new, D
    <3> QED
      BY <3>1 DEF PanelInv, PanelTyped, AskedFits
  <2> QED
    BY <2>1, <2>2
<1>5. /\ panelPast' = [entered |-> panelPast'.entered, twice |-> panelPast'.twice,
                       alone |-> panelPast'.alone, out |-> panelPast'.out]
      /\ panelPast'.entered = panelPast.entered /\ panelPast'.twice = panelPast.twice
      /\ panelPast'.out = panelPast.out \ {k}
      /\ panelPast'.alone = IF what = "logout" /\ D = {} THEN panelPast.alone \cup {k}
                            ELSE panelPast.alone \ {k}
  BY <1>1 DEF PanelInv, PanelTyped
<1>6. PanelTyped' /\ CodesConsumed'
  BY <1>1, <1>4, <1>5 DEF PanelInv, PanelTyped, CodesConsumed
<1>7. OutIsQuiet'
  <2>1. \A j \in panelPast'.out : cookie'[j] = NoCookie /\ DOMAIN asked'[j] = {}
    BY <1>1, <1>2, <1>5 DEF PanelInv, OutIsQuiet
  <2>2. \A j \in Keys \cap panelPast'.alone : DOMAIN asked'[j] \subseteq {"logout"}
    BY <1>2, <1>5 DEF PanelInv, OutIsQuiet
  <2> QED
    BY <1>5, <2>1, <2>2 DEF PanelInv, OutIsQuiet
<1> QED
  BY <1>6, <1>7 DEF PanelInv

-----------------------------------------------------------------------------
\* An answer changes nothing but itself.
LEMMA AnswerKeeps ==
  ASSUME PanelInv, NEW k \in Keys, NEW what \in DOMAIN asked[k], NEW back,
         asked' = [asked EXCEPT ![k][what].back = back],
         what = "logout" => back \in {Keep, NoCookie}
  PROVE  /\ AskedFits'
         /\ \A j \in Keys : DOMAIN asked'[j] = DOMAIN asked[j]
<1>1. /\ DOMAIN asked' = Keys
      /\ \A j \in Keys : DOMAIN asked'[j] = DOMAIN asked[j]
      /\ asked'[k][what] = [asked[k][what] EXCEPT !.back = back]
      /\ \A j \in Keys : \A w \in DOMAIN asked[j] :
           ~(j = k /\ w = what) => asked'[j][w] = asked[j][w]
  BY DEF PanelInv, PanelTyped, AskedFits
<1>2. /\ asked[k][what] = [what |-> asked[k][what].what, arg |-> asked[k][what].arg,
                           held |-> asked[k][what].held, back |-> asked[k][what].back]
      /\ asked[k][what].what = what
      /\ what = "code" => asked[k][what].arg \in Int
  BY DEF PanelInv, PanelTyped, AskedFits, IsRequest
<1>3. asked'[k][what] = [what |-> asked[k][what].what, arg |-> asked[k][what].arg,
                         held |-> asked[k][what].held, back |-> back]
  BY <1>1, <1>2
<1>4. ASSUME NEW j \in Keys, NEW w \in DOMAIN asked'[j]
      PROVE  /\ IsRequest(asked'[j][w]) /\ asked'[j][w].what = w
             /\ w = "code" => asked'[j][w].arg \in Int
             /\ w = "logout" => asked'[j][w].back \in {Waiting, Keep, NoCookie}
  <2>1. CASE j = k /\ w = what
    <3> DEFINE new == asked'[k][what]
               q == asked[k][what]
    <3>0. new = [what |-> q.what, arg |-> q.arg, held |-> q.held, back |-> back]
      BY <1>3
    <3> HIDE DEF new, q
    <3>1. /\ new.what = q.what /\ new.arg = q.arg /\ new.back = back /\ new.held = q.held
      BY ONLY <3>0
    <3>2. /\ asked'[k][what].what = what /\ asked'[k][what].arg = asked[k][what].arg
          /\ asked'[k][what].back = back /\ asked'[k][what].held = asked[k][what].held
      BY <1>2, <3>1 DEF new, q
    <3>3. IsRequest(asked'[k][what])
      BY <1>3, <3>2 DEF IsRequest
    <3> QED
      BY <1>2, <2>1, <3>2, <3>3
  <2>2. CASE ~(j = k /\ w = what)
    <3>1. w \in DOMAIN asked[j] /\ asked'[j][w] = asked[j][w]
      BY <1>1, <1>4, <2>2
    <3> QED
      BY <3>1 DEF PanelInv, PanelTyped, AskedFits
  <2> QED
    BY <2>1, <2>2
<1> QED
  BY <1>1, <1>4 DEF AskedFits

\* A request that is served ends with an answer. Only a code moves the counter.
LEMMA ServeKeeps ==
  ASSUME PanelInv, NEW k \in Keys, Serve(k)
  PROVE  PanelInv'
<1>1. PICK what \in DOMAIN asked[k] :
        LET q == asked[k][what] IN
        /\ q.back = Waiting
        /\ \/ rateLimitRefuses(k, q) \/ Bounced(k, q)
           \/ postRequestOtp(k, q) \/ postVerifyOtp(k, q) \/ postLogout(k, q)
           \/ getLists(k, q)
           \/ proposeResolveMarketAdmin(k, q) \/ approveProposal(k, q)
           \/ executeResolveMarketAdmin(k, q)
           \/ disputeResolution(k, q) \/ finalizeResolution(k, q)
  BY DEF Serve
<1> DEFINE q == asked[k][what]
<1>2. q.what = what /\ (what = "code" => q.arg \in Int)
  BY DEF PanelInv, PanelTyped, AskedFits
<1>3. \E back : /\ asked' = [asked EXCEPT ![k][what].back = back]
                /\ what = "logout" => back \in {Keep, NoCookie}
  <2>1. CASE rateLimitRefuses(k, q)
    BY <1>2, <2>1 DEF rateLimitRefuses, Answered
  <2>2. CASE Bounced(k, q)
    BY <1>2, <2>2 DEF Bounced, Answered, Pages
  <2>3. CASE postRequestOtp(k, q)
    BY <1>2, <2>3 DEF postRequestOtp, Answered
  <2>4. CASE postVerifyOtp(k, q)
    BY <1>2, <2>4 DEF postVerifyOtp, Answered
  <2>5. CASE postLogout(k, q)
    BY <1>2, <2>5 DEF postLogout, Answered
  <2>6. CASE getLists(k, q)
    BY <1>2, <2>6 DEF getLists
  <2>7. ASSUME NEW name, name # "logout", Enters(k, q, name)
        PROVE  \E back : /\ asked' = [asked EXCEPT ![k][what].back = back]
                         /\ what = "logout" => back \in {Keep, NoCookie}
    BY <1>2, <2>7 DEF Enters, Answered
  <2> QED
    BY <1>1, <2>1, <2>2, <2>3, <2>4, <2>5, <2>6, <2>7
    DEF Sends, proposeResolveMarketAdmin, approveProposal, executeResolveMarketAdmin,
        disputeResolution, finalizeResolution
<1>4. AskedFits' /\ \A j \in Keys : DOMAIN asked'[j] = DOMAIN asked[j]
  BY <1>3, AnswerKeeps
<1>5. \/ cookie' = cookie /\ UNCHANGED <<consumedCounters, panelPast>>
      \/ /\ cookie' = cookie /\ what = "code" /\ verifyTotp(k, q.arg)
         /\ consumedCounters' = [consumedCounters EXCEPT ![k] = q.arg]
         /\ panelPast' = [panelPast EXCEPT !.entered[k] = @ \cup {q.arg},
                            !.twice = @ \/ q.arg \in panelPast.entered[k]]
  <2>1. ASSUME NEW name, Enters(k, q, name) PROVE cookie' = cookie
    BY <2>1 DEF Enters, Answered
  <2>2. CASE postVerifyOtp(k, q)
    BY <1>2, <2>2 DEF postVerifyOtp, Answered
  <2> QED
    BY <1>1, <2>1, <2>2
    DEF rateLimitRefuses, Bounced, postRequestOtp, postLogout, getLists, Answered, processVars,
        Sends, proposeResolveMarketAdmin, approveProposal, executeResolveMarketAdmin,
        disputeResolution, finalizeResolution
<1>6. CASE cookie' = cookie /\ UNCHANGED <<consumedCounters, panelPast>>
  BY <1>4, <1>6 DEF PanelInv, PanelTyped, CodesConsumed, OutIsQuiet
<1>7. CASE /\ cookie' = cookie /\ what = "code" /\ verifyTotp(k, q.arg)
           /\ consumedCounters' = [consumedCounters EXCEPT ![k] = q.arg]
           /\ panelPast' = [panelPast EXCEPT !.entered[k] = @ \cup {q.arg},
                              !.twice = @ \/ q.arg \in panelPast.entered[k]]
  <2>1. q.arg \in Int /\ q.arg > consumedCounters[k]
    BY <1>2, <1>7 DEF verifyTotp
  <2> DEFINE c == q.arg
  <2> HIDE DEF q
  <2>2. /\ panelPast' = [entered |-> [panelPast.entered EXCEPT ![k] = @ \cup {c}],
                         twice |-> panelPast.twice \/ c \in panelPast.entered[k],
                         alone |-> panelPast.alone, out |-> panelPast.out]
    BY <1>7 DEF PanelInv, PanelTyped
  <2>3. panelPast.entered \in [Keys -> SUBSET Int] /\ consumedCounters \in [Keys -> Int]
    BY DEF PanelInv, PanelTyped
  <2>4. c \notin panelPast.entered[k]
    BY <2>1, <2>3 DEF PanelInv, CodesConsumed
  <2>5. CodesConsumed'
    <3>1. ~panelPast'.twice
      BY <2>2, <2>4 DEF PanelInv, CodesConsumed
    <3>2. ASSUME NEW j \in Keys, NEW d \in panelPast'.entered[j]
          PROVE  d <= consumedCounters'[j]
      <4>1. CASE j # k
        BY <1>7, <2>2, <2>3, <3>2, <4>1 DEF PanelInv, CodesConsumed
      <4>2. CASE j = k
        <5>1. consumedCounters'[j] = c /\ (d = c \/ d \in panelPast.entered[k])
          BY <1>7, <2>2, <2>3, <3>2, <4>2
        <5>2. d \in panelPast.entered[k] => d \in Int /\ d <= consumedCounters[k]
          BY <2>3 DEF PanelInv, CodesConsumed
        <5> QED
          BY <2>1, <2>3, <5>1, <5>2
      <4> QED
        BY <4>1, <4>2
    <3> QED
      BY <3>1, <3>2 DEF CodesConsumed
  <2>6. PanelTyped'
    <3>1. panelPast'.entered \in [Keys -> SUBSET Int] /\ consumedCounters' \in [Keys -> Int]
      BY <1>7, <2>1, <2>2, <2>3
    <3> QED
      BY <1>4, <1>7, <2>2, <3>1 DEF PanelInv, PanelTyped
  <2>7. OutIsQuiet'
    BY <1>4, <1>7, <2>2 DEF PanelInv, OutIsQuiet
  <2> QED
    BY <2>5, <2>6, <2>7 DEF PanelInv
<1> QED
  BY <1>5, <1>6, <1>7

\* The answer to a logout that was alone leaves nothing on its way.
LEMMA ArrivalKeeps ==
  ASSUME PanelInv, NEW k \in Keys, AnswerArrives(k)
  PROVE  PanelInv'
<1>1. PICK what \in DOMAIN asked[k] : LET q == asked[k][what] IN
        /\ q.back # Waiting
        /\ asked' = [asked EXCEPT ![k] = Restrict(@, DOMAIN @ \ {what})]
        /\ cookie' = IF q.back = Keep THEN cookie ELSE [cookie EXCEPT ![k] = q.back]
        /\ panelPast' = IF q.what = "logout" /\ q.back # Keep /\ k \in panelPast.alone
                        THEN [panelPast EXCEPT !.out = @ \cup {k}] ELSE panelPast
        /\ consumedCounters' = consumedCounters
  BY DEF AnswerArrives, processVars
<1> DEFINE q == asked[k][what]
           over == q.what = "logout" /\ q.back # Keep /\ k \in panelPast.alone
<1>2. /\ DOMAIN asked' = Keys
      /\ DOMAIN asked'[k] = DOMAIN asked[k] \ {what}
      /\ \A w \in DOMAIN asked'[k] : asked'[k][w] = asked[k][w]
      /\ \A j \in Keys \ {k} : asked'[j] = asked[j]
  BY <1>1 DEF PanelInv, PanelTyped, AskedFits, Restrict
<1>3. AskedFits'
  BY <1>2 DEF PanelInv, PanelTyped, AskedFits, IsRequest
<1>4. /\ panelPast' = [entered |-> panelPast'.entered, twice |-> panelPast'.twice,
                       alone |-> panelPast'.alone, out |-> panelPast'.out]
      /\ panelPast'.entered = panelPast.entered /\ panelPast'.twice = panelPast.twice
      /\ panelPast'.alone = panelPast.alone
      /\ panelPast'.out = IF over THEN panelPast.out \cup {k} ELSE panelPast.out
  BY <1>1 DEF PanelInv, PanelTyped
<1>5. DOMAIN cookie' = Keys /\ \A j \in Keys \ {k} : cookie'[j] = cookie[j]
  BY <1>1 DEF PanelInv, PanelTyped
<1>6. PanelTyped' /\ CodesConsumed'
  BY <1>1, <1>3, <1>4, <1>5 DEF PanelInv, PanelTyped, CodesConsumed
<1>7. over => cookie'[k] = NoCookie /\ DOMAIN asked'[k] = {}
  <2> SUFFICES ASSUME over PROVE cookie'[k] = NoCookie /\ DOMAIN asked'[k] = {}
    OBVIOUS
  <2>1. what = "logout" /\ q.back = NoCookie
    BY <1>1 DEF PanelInv, PanelTyped, AskedFits
  <2>2. cookie'[k] = NoCookie
    BY <1>1, <2>1 DEF PanelInv, PanelTyped
  <2>3. DOMAIN asked[k] \subseteq {"logout"}
    BY DEF PanelInv, OutIsQuiet
  <2> QED
    BY <1>2, <2>1, <2>2, <2>3
<1> HIDE DEF over, q
<1>8. OutIsQuiet'
  <2>1. k \notin panelPast.out
    BY DEF PanelInv, OutIsQuiet
  <2>2. \A j \in panelPast'.out : cookie'[j] = NoCookie /\ DOMAIN asked'[j] = {}
    BY <1>2, <1>4, <1>5, <1>7, <2>1 DEF PanelInv, OutIsQuiet
  <2>3. \A j \in Keys \cap panelPast'.alone : DOMAIN asked'[j] \subseteq {"logout"}
    BY <1>2, <1>4 DEF PanelInv, OutIsQuiet
  <2> QED
    BY <1>4, <2>2, <2>3 DEF PanelInv, OutIsQuiet
<1> QED
  BY <1>6, <1>8 DEF PanelInv

LEMMA RestartKeepsPanel ==
  ASSUME PanelInv, NEW k \in Keys, RestartPanel(k)
  PROVE  PanelInv'
<1>1. /\ consumedCounters' = [consumedCounters EXCEPT ![k] = 0]
      /\ asked' = [asked EXCEPT ![k] = << >>]
      /\ panelPast' = [panelPast EXCEPT !.entered[k] = {}]
      /\ cookie' = cookie
  BY DEF RestartPanel
<1>2. DOMAIN << >> = {}
  OBVIOUS
<1>3. /\ DOMAIN asked' = Keys /\ DOMAIN asked'[k] = {}
      /\ \A j \in Keys \ {k} : asked'[j] = asked[j]
  BY <1>1, <1>2 DEF PanelInv, PanelTyped, AskedFits
<1>4. panelPast' = [entered |-> [panelPast.entered EXCEPT ![k] = {}], twice |-> panelPast.twice,
                    alone |-> panelPast.alone, out |-> panelPast.out]
  BY <1>1 DEF PanelInv, PanelTyped
<1>5. AskedFits'
  BY <1>3 DEF PanelInv, PanelTyped, AskedFits, IsRequest
<1>6. PanelTyped' /\ CodesConsumed'
  <2>1. panelPast.entered \in [Keys -> SUBSET Int] /\ consumedCounters \in [Keys -> Int]
    BY DEF PanelInv, PanelTyped
  <2>2. panelPast'.entered \in [Keys -> SUBSET Int] /\ consumedCounters' \in [Keys -> Int]
    BY <1>1, <1>4, <2>1
  <2>3. PanelTyped'
    BY <1>1, <1>4, <1>5, <2>2 DEF PanelInv, PanelTyped
  <2>4. \A j \in Keys : \A c \in panelPast'.entered[j] : c <= consumedCounters'[j]
    BY <1>1, <1>4, <2>1 DEF PanelInv, CodesConsumed
  <2> QED
    BY <1>4, <2>3, <2>4 DEF PanelInv, CodesConsumed
<1>7. OutIsQuiet'
  BY <1>1, <1>3, <1>4 DEF PanelInv, OutIsQuiet
<1> QED
  BY <1>6, <1>7 DEF PanelInv

LEMMA PanelStepKeeps ==
  ASSUME PanelInv, PanelNext
  PROVE  PanelInv'
<1>1. ASSUME NEW k \in Keys, AnswerArrives(k) \/ Serve(k) \/ RestartPanel(k)
      PROVE  PanelInv'
  BY <1>1, ServeKeeps, ArrivalKeeps, RestartKeepsPanel
<1>2. ASSUME NEW k \in Keys,
             \/ requestOtp(k) \/ verifyOtp(k) \/ logOutOfPanel(k) \/ loadData(k)
             \/ proposeResolution(k) \/ approveProposalAction(k) \/ executeProposal(k)
             \/ disputeMarket(k) \/ finalizeMarket(k)
      PROVE  PanelInv'
  <2>1. \E what, arg : Ask(k, what, arg) /\ (what = "code" => arg \in Int)
    <3>1. CASE verifyOtp(k)
      <4>1. PICK c \in (now - 1)..(now + 1) : Ask(k, "code", c)
        BY <3>1 DEF verifyOtp
      <4>2. c \in Int
        OBVIOUS
      <4> QED
        BY <4>1, <4>2
    <3>2. ASSUME NEW what, NEW arg, Ask(k, what, arg), what # "code"
          PROVE  \E w, a : Ask(k, w, a) /\ (w = "code" => a \in Int)
      BY <3>2
    <3> QED
      BY <1>2, <3>1, <3>2 DEF requestOtp, logOutOfPanel, loadData, proposeResolution,
         approveProposalAction, executeProposal, disputeMarket, finalizeMarket
  <2> QED
    BY <2>1, AskKeeps
<1>3. ASSUME UNCHANGED <<cookie, asked, panelPast, consumedCounters>>
      PROVE  PanelInv'
  BY <1>3 DEF PanelInv, PanelTyped, AskedFits, CodesConsumed, OutIsQuiet, IsRequest
<1> QED
  BY <1>1, <1>2, <1>3 DEF PanelNext, initMultisig, OracleProposes, TimePasses, Rest, processVars

-----------------------------------------------------------------------------
(* The accounts: who signed out                                              *)

IsReq(x) == x = [pc |-> x.pc, id |-> x.id, held |-> x.held, row |-> x.row, aborted |-> x.aborted]

IsPast(p) ==
  p = [accepted |-> p.accepted, overlapped |-> p.overlapped, raced |-> p.raced,
       relinked |-> p.relinked, lastHash |-> p.lastHash, lastWallet |-> p.lastWallet,
       ended |-> p.ended, revoked |-> p.revoked, revived |-> p.revived, out |-> p.out,
       alone |-> p.alone, doubtful |-> p.doubtful, shared |-> p.shared]

ReqTyped == DOMAIN req = Requests /\ \A r \in Requests : IsReq(req[r])

AccountsTyped ==
  /\ \A r \in Requests : Call(r).browser \in Browsers
  /\ DOMAIN browser = Browsers
  /\ ReqTyped
  /\ IsPast(past)

\* Whoever signed out has nothing on its way. Before, there is only the logout,
\* and the browser forgot its session when that was sent.
OutFits ==
  /\ \A b \in past.out : browser[b] = NoSession /\ \A q \in Of(b) : ~InFlight(q)
  /\ \A b \in past.alone :
       /\ browser[b] = ClearedSession(browser[b])
       /\ \A q \in Of(b) : InFlight(q) => Call(q).route = "logout"
       /\ \A p, q \in Of(b) : InFlight(p) /\ InFlight(q) => p = q
  /\ \A r \in Requests : req[r].pc = "session" => Call(r).route \in SignsIn

OutInv == AccountsTyped /\ OutFits

LEMMA OutStarts == AccountsInit /\ calls # << >> => OutInv
<1> SUFFICES ASSUME AccountsInit, calls # << >> PROVE OutInv
  OBVIOUS
<1>1. PICK s \in Stories : calls = s.calls /\ browser = [b \in Browsers |-> s.browsers[b]]
  BY DEF AccountsInit
<1>2. \A r \in Requests : Call(r).browser \in Browsers
  BY <1>1, StoriesAssumption DEF Call
<1>3. /\ req = [r \in Requests |-> [pc |-> "idle", id |-> None, held |-> None, row |-> None,
                                    aborted |-> FALSE]]
      /\ past = [accepted |-> [r \in Requests |-> None], overlapped |-> {}, raced |-> {},
             relinked |-> {}, lastHash |-> << >>, lastWallet |-> << >>, ended |-> {},
             revoked |-> {}, revived |-> FALSE, out |-> {}, alone |-> {}, doubtful |-> {},
             shared |-> {}]
  BY DEF AccountsInit
<1>4. ReqTyped /\ \A r \in Requests : req[r].pc = "idle"
  BY <1>3 DEF ReqTyped, IsReq
<1>5. IsPast(past) /\ past.out = {} /\ past.alone = {}
  BY <1>3 DEF IsPast
<1> QED
  BY <1>1, <1>2, <1>4, <1>5 DEF OutInv, AccountsTyped, OutFits

\* What is left of a step when a request goes on.
Onward(r, x) ==
  /\ req' = [req EXCEPT ![r] = x]
  /\ IsReq(x) /\ x.aborted = req[r].aborted
  /\ x.pc \notin {"idle", "sent", "received"}
  /\ x.pc = "session" => Call(r).route \in SignsIn

LEMMA GoesOn ==
  ASSUME ReqTyped, NEW r \in Requests, NEW where, Go(r, where),
         where \notin {"idle", "sent", "received"}, where = "session" => Call(r).route \in SignsIn
  PROVE  \E x : Onward(r, x)
<1>1. req' = [req EXCEPT ![r] = [req[r] EXCEPT !.pc = where]]
  BY DEF Go, ReqTyped
<1>2. IsReq([req[r] EXCEPT !.pc = where])
  BY DEF ReqTyped, IsReq
<1> QED
  BY <1>1, <1>2 DEF Onward, ReqTyped, IsReq

LEMMA HoldsOn ==
  ASSUME ReqTyped, NEW r \in Requests, NEW where, NEW id, NEW held,
         req' = [req EXCEPT ![r].pc = where, ![r].id = id, ![r].held = held],
         where \notin {"idle", "sent", "received"}, where = "session" => Call(r).route \in SignsIn
  PROVE  \E x : Onward(r, x)
<1>1. PICK q : q = req[r]
  OBVIOUS
<1>2. PICK x : x = [q EXCEPT !.pc = where, !.id = id, !.held = held]
  OBVIOUS
<1>3. req' = [req EXCEPT ![r] = x]
  BY <1>1, <1>2 DEF ReqTyped
<1>4. q = [pc |-> q.pc, id |-> q.id, held |-> q.held, row |-> q.row, aborted |-> q.aborted]
  BY <1>1 DEF ReqTyped, IsReq
<1>5. IsReq(x) /\ x.pc = where /\ x.aborted = q.aborted
  BY ONLY <1>2, <1>4 DEF IsReq
<1> QED
  BY <1>1, <1>3, <1>5 DEF Onward

LEMMA SavesOn ==
  ASSUME ReqTyped, NEW r \in Requests, NEW where, NEW id, NEW row,
         req' = [req EXCEPT ![r].pc = where, ![r].id = id, ![r].row = row],
         where \notin {"idle", "sent", "received"}, where = "session" => Call(r).route \in SignsIn
  PROVE  \E x : Onward(r, x)
<1>1. PICK q : q = req[r]
  OBVIOUS
<1>2. PICK x : x = [q EXCEPT !.pc = where, !.id = id, !.row = row]
  OBVIOUS
<1>3. req' = [req EXCEPT ![r] = x]
  BY <1>1, <1>2 DEF ReqTyped
<1>4. q = [pc |-> q.pc, id |-> q.id, held |-> q.held, row |-> q.row, aborted |-> q.aborted]
  BY <1>1 DEF ReqTyped, IsReq
<1>5. IsReq(x) /\ x.pc = where /\ x.aborted = q.aborted
  BY ONLY <1>2, <1>4 DEF IsReq
<1> QED
  BY <1>1, <1>3, <1>5 DEF Onward

LEMMA SavesNewOn ==
  ASSUME ReqTyped, NEW r \in Requests, NEW where, NEW row,
         req' = [req EXCEPT ![r].pc = where, ![r].row = row],
         where \notin {"idle", "sent", "received"}, where = "session" => Call(r).route \in SignsIn
  PROVE  \E x : Onward(r, x)
<1>1. PICK q : q = req[r]
  OBVIOUS
<1>2. PICK x : x = [q EXCEPT !.pc = where, !.row = row]
  OBVIOUS
<1>3. req' = [req EXCEPT ![r] = x]
  BY <1>1, <1>2 DEF ReqTyped
<1>4. q = [pc |-> q.pc, id |-> q.id, held |-> q.held, row |-> q.row, aborted |-> q.aborted]
  BY <1>1 DEF ReqTyped, IsReq
<1>5. IsReq(x) /\ x.pc = where /\ x.aborted = q.aborted
  BY ONLY <1>2, <1>4 DEF IsReq
<1> QED
  BY <1>1, <1>3, <1>5 DEF Onward

LEMMA StoresOn ==
  ASSUME ReqTyped, NEW r \in Requests, NEW where, NEW id,
         req' = [req EXCEPT ![r].pc = where, ![r].id = id],
         where \notin {"idle", "sent", "received"}, where = "session" => Call(r).route \in SignsIn
  PROVE  \E x : Onward(r, x)
<1>1. PICK q : q = req[r]
  OBVIOUS
<1>2. PICK x : x = [q EXCEPT !.pc = where, !.id = id]
  OBVIOUS
<1>3. req' = [req EXCEPT ![r] = x]
  BY <1>1, <1>2 DEF ReqTyped
<1>4. q = [pc |-> q.pc, id |-> q.id, held |-> q.held, row |-> q.row, aborted |-> q.aborted]
  BY <1>1 DEF ReqTyped, IsReq
<1>5. IsReq(x) /\ x.pc = where /\ x.aborted = q.aborted
  BY ONLY <1>2, <1>4 DEF IsReq
<1> QED
  BY <1>1, <1>3, <1>5 DEF Onward
\* The history of who signed out.
SameOut == IsPast(past') /\ past'.out = past.out /\ past'.alone = past.alone

\* The server does not touch a browser, and its step moves one request on.
LEMMA ServerGoesOn ==
  ASSUME AccountsTyped, NEW r \in Requests, ServerStep(r)
  PROVE  /\ calls' = calls /\ browser' = browser /\ SameOut
         /\ req[r].pc \notin {"idle", "received"}
         /\ \E x : Onward(r, x)
<1> DEFINE Goal == /\ calls' = calls /\ browser' = browser /\ SameOut
                   /\ req[r].pc \notin {"idle", "received"}
                   /\ \E x : Onward(r, x)
<1> USE DEF Server, Answer
<1>1. ReqTyped /\ IsPast(past)
  BY DEF AccountsTyped
<1>2. past' = past => SameOut
  BY <1>1 DEF SameOut
<1>3. ASSUME NEW id, StartStore(r, id) PROVE \E x : Onward(r, x)
  <2>1. req' = [req EXCEPT ![r].pc = "storing", ![r].id = id]
    BY <1>3 DEF StartStore
  <2>2. "storing" \notin {"idle", "sent", "received", "session"}
    OBVIOUS
  <2> QED
    BY <1>1, <2>1, <2>2, StoresOn, Zenon
<1>4. ASSUME NEW id, NEW user, StartSave(r, id, user) PROVE SameOut /\ \E x : Onward(r, x)
  <2>1. SameOut
    BY <1>1, <1>4 DEF StartSave, SameOut, IsPast
  <2>2. req' = [req EXCEPT ![r].pc = "saving", ![r].id = id, ![r].row = user]
    BY <1>4 DEF StartSave
  <2>3. "saving" \notin {"idle", "sent", "received", "session"}
    OBVIOUS
  <2> QED
    BY <1>1, <2>1, <2>2, <2>3, SavesOn, Zenon
<1>5. ASSUME NEW user, req' = [req EXCEPT ![r].pc = "saving", ![r].row = user]
       PROVE  \E x : Onward(r, x)
  <2>1. "saving" \notin {"idle", "sent", "received", "session"}
    OBVIOUS
  <2> QED
    BY <1>1, <1>5, <2>1, SavesNewOn, Zenon
<1>6. ASSUME NEW where, NEW id, NEW held, Wait(r, where, id, held),
              where \in {"hashing", "verifying"}
       PROVE  \E x : Onward(r, x)
  <2>1. req' = [req EXCEPT ![r].pc = where, ![r].id = id, ![r].held = held]
    BY <1>6 DEF Wait
  <2>2. where \notin {"idle", "sent", "received", "session"}
    BY <1>6
  <2> QED
    BY <1>1, <2>1, <2>2, HoldsOn, Zenon
<1>7. CASE Admit(r)
  BY <1>1, <1>2, <1>7, GoesOn DEF Admit
<1>8. CASE StoreSaved(r)
  <2>1. SameOut
    BY <1>1, <1>8 DEF StoreSaved, StartSave, SameOut, IsPast
  <2> QED
    BY <1>8, <1>4, <2>1 DEF StoreSaved
<1>9. CASE CommitUser(r)
  <2>1. SameOut
    BY <1>1, <1>9 DEF CommitUser, SameOut, IsPast
  <2>2. /\ Outcome(r) \notin {"idle", "sent", "received"}
        /\ Outcome(r) = "session" => Call(r).route \in SignsIn
    BY DEF Outcome
  <2> QED
    BY <1>1, <1>9, <2>1, <2>2, GoesOn DEF CommitUser
<1>10. CASE FailSave(r)
  BY <1>1, <1>2, <1>10, GoesOn DEF FailSave
<1>11. ASSUME Refuse(r), req[r].pc \notin {"idle", "received"} PROVE Goal
  BY <1>1, <1>2, <1>11, GoesOn DEF Refuse
<1>12. ASSUME NEW where, NEW id, NEW held, Wait(r, where, id, held),
             where \in {"hashing", "verifying"}, req[r].pc \notin {"idle", "received"}
      PROVE  Goal
  BY <1>2, <1>12, <1>6 DEF Wait
<1>13. CASE register(r) \/ login(r) \/ changePassword(r) \/ checkPassword(r)
  BY <1>11, <1>12, <1>13 DEF register, login, changePassword, checkPassword, At
<1>14. CASE createUser(r)
  <2>1. SameOut
    BY <1>1, <1>14 DEF createUser, SameOut, IsPast
  <2> QED
    BY <1>14, <1>5, <2>1 DEF createUser, At
<1>15. CASE signIn(r)
  BY <1>1, <1>2, <1>11, <1>15, GoesOn DEF signIn, At, SignsIn
<1>16. CASE verifyEmail(r)
  BY <1>1, <1>2, <1>11, <1>3, <1>16 DEF verifyEmail, At
<1>17. CASE requestPasswordReset(r)
  BY <1>1, <1>2, <1>4, <1>17, GoesOn DEF requestPasswordReset, At
<1>18. CASE setPassword(r)
  <2>1. SameOut
    BY <1>1, <1>18 DEF setPassword, SameOut, IsPast
  <2> QED
    BY <1>18, <1>5, <2>1 DEF setPassword, At
<1>19. CASE changeHash(r)
  <2>1. SameOut
    BY <1>1, <1>19 DEF changeHash, SameOut, IsPast
  <2> QED
    BY <1>19, <1>5, <2>1 DEF changeHash, At
<1>20. CASE consumeWalletLoginSignature(r)
  <2>1. SameOut
    BY <1>1, <1>20 DEF consumeWalletLoginSignature, SameOut, IsPast
  <2> QED
    BY <1>1, <1>20, <2>1, GoesOn DEF consumeWalletLoginSignature, At
<1>21. CASE walletLogin(r)
  <2>1. IsPast([past EXCEPT !.lastWallet = With(@, r, Call(r).wallet)])
    BY <1>1 DEF IsPast
  <2>2. CASE StartStore(r, r) /\ past' = [past EXCEPT !.lastWallet = With(@, r, Call(r).wallet)]
    <3>1. SameOut
      BY <1>1, <2>1, <2>2 DEF SameOut, IsPast
    <3> QED
      BY <1>3, <1>21, <2>2, <3>1 DEF walletLogin, At
  <2> QED
    BY <1>1, <1>4, <1>21, <2>2 DEF walletLogin, At
<1>22. CASE linkWallet(r)
  <2>1. CASE StartStore(r, req[r].held)
    <3>1. SameOut
      BY <1>1, <1>2, <1>22 DEF linkWallet, SameOut, IsPast, Refuse
    <3> QED
      BY <1>3, <1>22, <2>1, <3>1 DEF linkWallet, At, Refuse
  <2> QED
    BY <1>11, <1>22, <2>1 DEF linkWallet, At
<1>23. CASE refresh(r)
  <2>1. SameOut
    BY <1>1, <1>2, <1>23 DEF refresh, SameOut, IsPast
  <2>2. CASE req' = [req EXCEPT ![r].pc = "session", ![r].id = HolderOf(req[r].held)]
    <3>1. Call(r).route \in SignsIn
      BY <1>23 DEF refresh, At, SignsIn
    <3>2. "session" \notin {"idle", "sent", "received"}
      OBVIOUS
    <3>3. \E x : Onward(r, x)
      BY <1>1, <2>2, <3>1, <3>2, StoresOn, Zenon
    <3> QED
      BY <1>23, <2>1, <3>3 DEF refresh, At
  <2>3. CASE Answer(r, "refused") \/ Answer(r, "expired")
    BY <1>1, <1>23, <2>1, <2>3, GoesOn DEF refresh, At
  <2> QED
    BY <1>23, <2>2, <2>3 DEF refresh
<1>24. CASE logout(r)
  <2>1. SameOut
    BY <1>1, <1>2, <1>24 DEF logout, SameOut, IsPast
  <2> QED
    BY <1>1, <1>24, <2>1, GoesOn DEF logout, At
<1>25. CASE resetPassword(r)
  <2>1. CASE Refuse(r)
    BY <1>11, <1>25, <2>1 DEF resetPassword, At
  <2>2. CASE ~Refuse(r)
    <3>1. SameOut
      BY <1>1, <1>2, <1>25, <2>2 DEF resetPassword, SameOut, IsPast
    <3>2. PICK id : req' = [req EXCEPT ![r].pc = "hashing", ![r].id = id]
      BY <1>25, <2>2 DEF resetPassword
    <3>3. "hashing" \notin {"idle", "sent", "received", "session"}
      OBVIOUS
    <3>4. \E x : Onward(r, x)
      BY <1>1, <3>2, <3>3, StoresOn, Zenon
    <3> QED
      BY <1>25, <2>2, <3>1, <3>4 DEF resetPassword, At
  <2> QED
    BY <2>1, <2>2
<1>26. CASE checkMessage(r)
  BY <1>1, <1>2, <1>11, <1>26, GoesOn DEF checkMessage, At
<1> QED
  BY <1>7, <1>8, <1>9, <1>10, <1>13, <1>14, <1>15, <1>16, <1>17, <1>18, <1>19, <1>20, <1>21,
     <1>22, <1>23, <1>24, <1>25, <1>26 DEF ServerStep

-----------------------------------------------------------------------------
LEMMA ServerKeepsOut ==
  ASSUME OutInv, NEW r \in Requests, ServerStep(r)
  PROVE  OutInv'
<1>1. /\ calls' = calls /\ browser' = browser /\ SameOut
      /\ req[r].pc \notin {"idle", "received"}
  BY ServerGoesOn DEF OutInv
<1>2. PICK x : Onward(r, x)
  BY ServerGoesOn DEF OutInv
<1>3. /\ DOMAIN req' = Requests
      /\ req'[r] = x
      /\ \A q \in Requests \ {r} : req'[q] = req[q]
  BY <1>2 DEF Onward, OutInv, AccountsTyped, ReqTyped
<1>4. AccountsTyped'
  BY <1>1, <1>2, <1>3 DEF Onward, OutInv, AccountsTyped, ReqTyped, SameOut, Call
<1>5. \A q \in Requests : InFlight(q)' <=> InFlight(q)
  <2>1. InFlight(r)' <=> InFlight(r)
    BY <1>1, <1>2, <1>3 DEF InFlight, Onward
  <2> QED
    BY <1>3, <2>1 DEF InFlight
<1>6. \A b : Of(b)' = Of(b)
  BY <1>1 DEF Of, Call
<1>7. \A b : Of(b) \subseteq Requests
  BY DEF Of
<1>8. \A q \in Requests : req'[q].pc = "session" => Call(q)'.route \in SignsIn
  BY <1>1, <1>2, <1>3 DEF Onward, OutInv, OutFits, Call
<1>9. \A b \in past'.out : browser'[b] = NoSession /\ \A q \in Of(b)' : ~InFlight(q)'
  BY <1>1, <1>5, <1>6, <1>7 DEF OutInv, OutFits, SameOut
<1>10. \A b \in past'.alone :
       /\ browser'[b] = ClearedSession(browser'[b])
       /\ \A q \in Of(b)' : InFlight(q)' => Call(q)'.route = "logout"
       /\ \A p, q \in Of(b)' : InFlight(p)' /\ InFlight(q)' => p = q
  BY <1>1, <1>5, <1>6, <1>7 DEF OutInv, OutFits, SameOut, Call
<1> QED
  BY <1>4, <1>8, <1>9, <1>10 DEF OutInv, OutFits

\* What a browser makes of a request it no longer waits for, or of the answer
\* to its only logout.
LEMMA ReceiveKeepsOut ==
  ASSUME OutInv, NEW r \in Requests, Receive(r)
  PROVE  OutInv'
<1> DEFINE b == Call(r).browser
           over == req[r].pc = "cleared" /\ ~req[r].aborted /\ b \in past.alone
<1>1. /\ req[r].pc \in Answers
      /\ req' = [req EXCEPT ![r].pc = "received"]
      /\ browser' = IF req[r].aborted THEN browser ELSE [browser EXCEPT ![b] = Session(r)]
      /\ past' = IF over THEN [past EXCEPT !.out = @ \cup {b}] ELSE past
      /\ calls' = calls
  BY DEF Receive, Go
<1>2. b \in Browsers /\ r \in Of(b)
  BY DEF OutInv, AccountsTyped, Of
<1>3. /\ DOMAIN req' = Requests
      /\ IsReq(req'[r]) /\ req'[r].pc = "received"
      /\ \A q \in Requests \ {r} : req'[q] = req[q]
  BY <1>1 DEF OutInv, AccountsTyped, ReqTyped, IsReq
<1>4. IsPast(past') /\ past'.alone = past.alone
      /\ past'.out = IF over THEN past.out \cup {b} ELSE past.out
  BY <1>1 DEF OutInv, AccountsTyped, IsPast
<1>5. /\ DOMAIN browser' = Browsers
      /\ \A a \in Browsers \ {b} : browser'[a] = browser[a]
      /\ req[r].aborted => browser'[b] = browser[b]
      /\ ~req[r].aborted => browser'[b] = Session(r)
  BY <1>1, <1>2 DEF OutInv, AccountsTyped
<1>6. \A q \in Requests : InFlight(q)' <=> InFlight(q) /\ q # r
  BY <1>3 DEF InFlight
<1>7. req[r].aborted \/ InFlight(r)
  BY <1>1 DEF InFlight, Answers
<1>8. \A a : Of(a)' = Of(a) /\ Of(a) \subseteq Requests
  BY <1>1 DEF Of, Call
<1> HIDE DEF b, over
<1>9. AccountsTyped'
  BY <1>1, <1>3, <1>4, <1>5 DEF OutInv, AccountsTyped, ReqTyped, Call
<1>10. \A a \in past'.alone : browser'[a] = ClearedSession(browser'[a])
  <2> SUFFICES ASSUME NEW a \in past'.alone, a = b, ~req[r].aborted
               PROVE  browser'[a] = ClearedSession(browser'[a])
    BY <1>1, <1>4, <1>5 DEF OutInv, OutFits, AccountsTyped
  <2>1. Call(r).route = "logout" /\ browser[b] = ClearedSession(browser[b])
    BY <1>2, <1>4, <1>7 DEF OutInv, OutFits
  <2>2. req[r].pc # "session"
    BY <2>1 DEF OutInv, OutFits, SignsIn
  <2>3. Session(r) \in {browser[b], NoSession, [browser[b] EXCEPT !.cookie = None]}
    BY <1>1, <2>1, <2>2 DEF Session, Answers, b
  <2>4. ASSUME NEW x, browser[b] = [cookie |-> x, user |-> None, token |-> None]
        PROVE  [browser[b] EXCEPT !.cookie = None] = NoSession
    BY <2>4 DEF NoSession
  <2>5. \A y : ClearedSession(y) = [cookie |-> y.cookie, user |-> None, token |-> None]
    BY DEF ClearedSession, NoSession
  <2>6. [browser[b] EXCEPT !.cookie = None] = NoSession
    BY <2>1, <2>4, <2>5
  <2>7. NoSession = ClearedSession(NoSession)
    BY DEF ClearedSession, NoSession
  <2> QED
    BY <1>5, <2>1, <2>3, <2>6, <2>7
<1>11. over => browser'[b] = NoSession /\ \A q \in Of(b) : ~InFlight(q)'
  <2> SUFFICES ASSUME over PROVE browser'[b] = NoSession /\ \A q \in Of(b) : ~InFlight(q)'
    OBVIOUS
  <2>1. b \in past.alone /\ ~req[r].aborted /\ req[r].pc = "cleared"
    BY DEF over
  <2>2. browser[b] = ClearedSession(browser[b])
    BY <2>1 DEF OutInv, OutFits
  <2>3. Session(r) = [browser[b] EXCEPT !.cookie = None]
    BY <2>1 DEF Session, b
  <2>4. ASSUME NEW x, browser[b] = [cookie |-> x, user |-> None, token |-> None]
        PROVE  [browser[b] EXCEPT !.cookie = None] = NoSession
    BY <2>4 DEF NoSession
  <2>5. ClearedSession(browser[b]) = [cookie |-> browser[b].cookie, user |-> None, token |-> None]
    BY DEF ClearedSession, NoSession
  <2>6. \A q \in Of(b) : InFlight(q) => q = r
    BY <1>2, <1>7, <2>1 DEF OutInv, OutFits
  <2> QED
    BY <1>5, <1>6, <1>8, <2>1, <2>2, <2>3, <2>4, <2>5, <2>6
<1>12. \A a \in past'.out : browser'[a] = NoSession /\ \A q \in Of(a)' : ~InFlight(q)'
  <2>1. ASSUME NEW a \in past.out PROVE browser'[a] = NoSession /\ \A q \in Of(a) : ~InFlight(q)'
    <3>1. browser[a] = NoSession /\ \A q \in Of(a) : ~InFlight(q)
      BY DEF OutInv, OutFits
    <3>2. a = b => req[r].aborted
      BY <1>2, <1>7, <3>1
    <3>3. browser'[a] = browser[a]
      BY <1>1, <1>5, <3>2 DEF OutInv, AccountsTyped
    <3> QED
      BY <1>6, <1>8, <3>1, <3>3
  <2> QED
    BY <1>4, <1>8, <1>11, <2>1
<1>13. \A a \in past'.alone :
       /\ \A q \in Of(a)' : InFlight(q)' => Call(q)'.route = "logout"
       /\ \A p, q \in Of(a)' : InFlight(p)' /\ InFlight(q)' => p = q
  BY <1>1, <1>4, <1>6, <1>8 DEF OutInv, OutFits, Call
<1>14. \A q \in Requests : req'[q].pc = "session" => Call(q)'.route \in SignsIn
  BY <1>1, <1>3 DEF OutInv, OutFits, Call
<1> QED
  BY <1>9, <1>10, <1>12, <1>13, <1>14 DEF OutInv, OutFits
LEMMA SendKeepsOut ==
  ASSUME OutInv, NEW r \in Requests, Send(r)
  PROVE  OutInv'
<1> DEFINE b == Call(r).browser
           lone == Call(r).route = "logout" /\ \A q \in Of(b) : ~InFlight(q)
           held == IF Call(r).route \in NeedsToken THEN browser[b].token ELSE browser[b].cookie
<1>1. /\ calls' = calls
      /\ req' = [req EXCEPT ![r].pc = "sent", ![r].held = held]
      /\ browser' = IF Call(r).route = "logout"
                    THEN [browser EXCEPT ![b] = ClearedSession(browser[b])] ELSE browser
      /\ past' = [past EXCEPT !.out = @ \ {b}, !.alone = IF lone THEN @ \cup {b} ELSE @ \ {b}]
  BY DEF Send
<1>2. b \in Browsers /\ r \in Of(b)
  BY DEF OutInv, AccountsTyped, Of
<1> HIDE DEF b, lone, held
<1>3. /\ DOMAIN req' = Requests
      /\ IsReq(req'[r]) /\ req'[r].pc = "sent"
      /\ \A q \in Requests \ {r} : req'[q] = req[q]
  <2>1. PICK q : q = req[r]
    OBVIOUS
  <2>2. PICK x : x = [q EXCEPT !.pc = "sent", !.held = held]
    OBVIOUS
  <2>3. req' = [req EXCEPT ![r] = x]
    BY <1>1, <2>1, <2>2 DEF OutInv, AccountsTyped, ReqTyped
  <2>4. q = [pc |-> q.pc, id |-> q.id, held |-> q.held, row |-> q.row, aborted |-> q.aborted]
    BY <2>1 DEF OutInv, AccountsTyped, ReqTyped, IsReq
  <2>5. IsReq(x) /\ x.pc = "sent"
    BY ONLY <2>2, <2>4 DEF IsReq
  <2> QED
    BY <2>3, <2>5 DEF OutInv, AccountsTyped, ReqTyped
<1>4. /\ IsPast(past') /\ past'.out = past.out \ {b}
      /\ past'.alone = IF lone THEN past.alone \cup {b} ELSE past.alone \ {b}
  BY <1>1 DEF OutInv, AccountsTyped, IsPast
<1>5. /\ DOMAIN browser' = Browsers
      /\ \A a \in Browsers \ {b} : browser'[a] = browser[a]
      /\ Call(r).route = "logout" => browser'[b] = ClearedSession(browser[b])
  BY <1>1, <1>2 DEF OutInv, AccountsTyped
<1>6. AccountsTyped'
  BY <1>1, <1>3, <1>4, <1>5 DEF OutInv, AccountsTyped, ReqTyped, Call
<1>7. \A a : Of(a)' = Of(a) /\ Of(a) \subseteq Requests
  BY <1>1 DEF Of, Call
<1>8. \A q \in Requests \ {r} : InFlight(q)' <=> InFlight(q)
  BY <1>3 DEF InFlight
<1>9. \A a : a # b => r \notin Of(a)
  BY DEF Of, b
<1>10. \A a \in past'.out : browser'[a] = NoSession /\ \A q \in Of(a)' : ~InFlight(q)'
  <2> SUFFICES ASSUME NEW a \in past'.out
               PROVE  browser'[a] = NoSession /\ \A q \in Of(a) : ~InFlight(q)'
    BY <1>7
  <2>1. a # b /\ a \in past.out
    BY <1>4
  <2>2. browser'[a] = browser[a]
    BY <1>1, <2>1 DEF OutInv, AccountsTyped
  <2> QED
    BY <1>7, <1>8, <1>9, <2>1, <2>2 DEF OutInv, OutFits
<1>11. \A a \in past'.alone :
       /\ browser'[a] = ClearedSession(browser'[a])
       /\ \A q \in Of(a)' : InFlight(q)' => Call(q)'.route = "logout"
       /\ \A p, q \in Of(a)' : InFlight(p)' /\ InFlight(q)' => p = q
  <2> SUFFICES ASSUME NEW a \in past'.alone
               PROVE  /\ browser'[a] = ClearedSession(browser'[a])
                      /\ \A q \in Of(a) : InFlight(q)' => Call(q).route = "logout"
                      /\ \A p, q \in Of(a) : InFlight(p)' /\ InFlight(q)' => p = q
    BY <1>1, <1>7 DEF Call
  <2>1. CASE a # b
    <3>1. browser'[a] = browser[a] /\ a \in past.alone
      BY <1>1, <1>4, <2>1 DEF OutInv, AccountsTyped
    <3> QED
      BY <1>7, <1>8, <1>9, <2>1, <3>1 DEF OutInv, OutFits
  <2>2. CASE a = b
    <3>1. lone
      BY <1>4, <2>2
    <3>2. browser'[b] = ClearedSession(browser[b])
      BY <1>5, <3>1 DEF lone
    <3>3. \A y : ClearedSession(ClearedSession(y)) = ClearedSession(y)
      BY DEF ClearedSession, NoSession
    <3>4. \A q \in Of(b) : InFlight(q)' => q = r
      BY <1>7, <1>8, <3>1 DEF lone
    <3>5. Call(r).route = "logout"
      BY <3>1 DEF lone
    <3> QED
      BY <2>2, <3>2, <3>3, <3>4, <3>5
  <2> QED
    BY <2>1, <2>2
<1>12. \A q \in Requests : req'[q].pc = "session" => Call(q)'.route \in SignsIn
  BY <1>1, <1>3 DEF OutInv, OutFits, Call
<1> QED
  BY <1>6, <1>10, <1>11, <1>12 DEF OutInv, OutFits

\* The browser stops waiting for a request: one less in flight.
LEMMA TimeOutKeepsOut ==
  ASSUME OutInv, NEW r \in Requests, TimeOut(r)
  PROVE  OutInv'
<1> DEFINE b == Call(r).browser
<1>1. /\ calls' = calls /\ past' = past
      /\ InServer(r) /\ ~req[r].aborted
      /\ req' = [req EXCEPT ![r].aborted = TRUE]
      /\ browser' = IF Call(r).route = "refresh"
                    THEN [browser EXCEPT ![b] = ClearedSession(browser[b])] ELSE browser
  BY DEF TimeOut
<1>2. b \in Browsers /\ r \in Of(b)
  BY DEF OutInv, AccountsTyped, Of
<1>3. /\ DOMAIN req' = Requests
      /\ IsReq(req'[r]) /\ req'[r].pc = req[r].pc /\ req'[r].aborted = TRUE
      /\ \A q \in Requests \ {r} : req'[q] = req[q]
  <2>1. PICK q : q = req[r]
    OBVIOUS
  <2>2. PICK x : x = [q EXCEPT !.aborted = TRUE]
    OBVIOUS
  <2>3. req' = [req EXCEPT ![r] = x]
    BY <1>1, <2>1, <2>2 DEF OutInv, AccountsTyped, ReqTyped
  <2>4. q = [pc |-> q.pc, id |-> q.id, held |-> q.held, row |-> q.row, aborted |-> q.aborted]
    BY <2>1 DEF OutInv, AccountsTyped, ReqTyped, IsReq
  <2>5. IsReq(x) /\ x.pc = q.pc /\ x.aborted = TRUE
    BY ONLY <2>2, <2>4 DEF IsReq
  <2> QED
    BY <2>1, <2>3, <2>5 DEF OutInv, AccountsTyped, ReqTyped
<1>4. InFlight(r)
  BY <1>1 DEF InServer, InFlight
<1>5. \A q \in Requests : InFlight(q)' <=> InFlight(q) /\ q # r
  BY <1>3 DEF InFlight
<1>6. \A a : Of(a)' = Of(a) /\ Of(a) \subseteq Requests
  BY <1>1 DEF Of, Call
<1> HIDE DEF b
<1>7. /\ DOMAIN browser' = Browsers
      /\ \A a : a # b => browser'[a] = browser[a]
      /\ browser'[b] # browser[b] => Call(r).route = "refresh"
  BY <1>1, <1>2 DEF OutInv, AccountsTyped
<1>8. AccountsTyped'
  BY <1>1, <1>3, <1>7 DEF OutInv, AccountsTyped, ReqTyped, Call
<1>9. b \notin past.out /\ (b \in past.alone => browser'[b] = browser[b])
  BY <1>2, <1>4, <1>7 DEF OutInv, OutFits
<1>10. \A q \in Requests : req'[q].pc = "session" => Call(q)'.route \in SignsIn
  BY <1>1, <1>3 DEF OutInv, OutFits, Call
<1>11. \A a \in past'.out : browser'[a] = NoSession /\ \A q \in Of(a)' : ~InFlight(q)'
  BY <1>1, <1>5, <1>6, <1>7, <1>9 DEF OutInv, OutFits
<1>12. \A a \in past'.alone :
       /\ browser'[a] = ClearedSession(browser'[a])
       /\ \A q \in Of(a)' : InFlight(q)' => Call(q)'.route = "logout"
       /\ \A p, q \in Of(a)' : InFlight(p)' /\ InFlight(q)' => p = q
  BY <1>1, <1>5, <1>6, <1>7, <1>9 DEF OutInv, OutFits, Call
<1> QED
  BY <1>8, <1>10, <1>11, <1>12 DEF OutInv, OutFits

LEMMA RestartKeepsOut ==
  ASSUME OutInv, Restart
  PROVE  OutInv'
<1>1. /\ calls' = calls /\ browser' = browser
      /\ req' = [r \in Requests |-> IF InServer(r) THEN [req[r] EXCEPT !.pc = "failed"] ELSE req[r]]
      /\ past' = [past EXCEPT !.raced = {}, !.relinked = {}]
  BY DEF Restart
<1>2. IsPast(past') /\ past'.out = past.out /\ past'.alone = past.alone
  BY <1>1 DEF OutInv, AccountsTyped, IsPast
<1>3. \A r \in Requests : /\ IsReq(req'[r])
                          /\ req'[r].aborted = req[r].aborted
                          /\ InServer(r) => req'[r].pc = "failed"
                          /\ ~InServer(r) => req'[r].pc = req[r].pc
  BY <1>1 DEF OutInv, AccountsTyped, ReqTyped, IsReq
<1>4. \A r \in Requests : InFlight(r)' <=> InFlight(r)
  BY <1>3 DEF InServer, InFlight, Answers
<1>5. AccountsTyped'
  BY <1>1, <1>2, <1>3 DEF OutInv, AccountsTyped, ReqTyped, Call
<1>6. \A a : Of(a)' = Of(a) /\ Of(a) \subseteq Requests
  BY <1>1 DEF Of, Call
<1>7. \A q \in Requests : req'[q].pc = "session" => Call(q)'.route \in SignsIn
  BY <1>1, <1>3 DEF OutInv, OutFits, Call
<1> QED
  BY <1>1, <1>2, <1>4, <1>5, <1>6, <1>7 DEF OutInv, OutFits, Call

LEMMA AccountsStepKeepsOut ==
  ASSUME OutInv, AccountsNext
  PROVE  OutInv'
<1>1. ASSUME NEW id, Expire(id) PROVE OutInv'
  BY <1>1 DEF Expire, OutInv, AccountsTyped, ReqTyped, OutFits, Call, Of, InFlight
<1>2. ASSUME MinutePasses PROVE OutInv'
  <2>1. calls' = calls /\ req' = req /\ browser' = browser
    BY <1>2 DEF MinutePasses
  <2>2. IsPast(past') /\ past'.out = past.out /\ past'.alone = past.alone
    BY <1>2 DEF MinutePasses, OutInv, AccountsTyped, IsPast
  <2> QED
    BY <2>1, <2>2 DEF OutInv, AccountsTyped, ReqTyped, OutFits, Call, Of, InFlight
<1> QED
  BY <1>1, <1>2, ServerKeepsOut, ReceiveKeepsOut, SendKeepsOut, TimeOutKeepsOut, RestartKeepsOut
  DEF AccountsNext

-----------------------------------------------------------------------------
(* The accounts: what was spent                                              *)

\* Where a request has given nothing its name yet, and where it saves.
Unborn == {"idle", "sent", "admitted", "checked", "consumed", "verifying", "hashing"}
InSave == {"storing", "saving"}

\* A reset token is the name of the request it was made for, and of the account
\* that request found.
TokenFits(id, user) ==
  user.resetToken = None \/
    /\ user.resetToken \in Requests
    /\ Call(user.resetToken).route = "requestReset"
    /\ req[user.resetToken].pc \notin Unborn
    /\ req[user.resetToken].id = id

UserFits(id, user) == IsUser(user) /\ TokenFits(id, user)

UsersFit ==
  /\ \A id \in DOMAIN users : UserFits(id, users[id])
  /\ \A id \in DOMAIN rows : UserFits(id, rows[id])
  /\ \A r \in Requests : req[r].pc = "saving" => UserFits(req[r].id, req[r].row)
  /\ \A id \in Requests : id \in DOMAIN users \/ id \in DOMAIN rows => req[id].pc \notin Unborn

\* The account a request has found is there until the process ends.
IdFits(r, x) ==
  /\ x.pc \in InSave => x.id \in DOMAIN users
  /\ x.pc \in {"hashing", "verifying"} /\ Call(r).route \in {"resetPassword", "changePassword"}
       => x.id \in DOMAIN users
  /\ x.pc = "hashing" /\ Call(r).route = "register" => x.id = r
  /\ x.pc = "storing" => Call(r).route # "resetPassword"

AcceptedFits ==
  /\ DOMAIN past.accepted = Requests
  /\ \A r \in Requests :
       /\ past.accepted[r] \in {None, Call(r).proof}
       /\ past.accepted[r] # None => req[r].pc \notin Unborn \cup InSave

OneSave ==
  \A r, q \in Requests :
    /\ req[r].pc = "saving" /\ req[q].pc = "saving" /\ req[r].id = req[q].id
    /\ req[r].id \notin past.overlapped
    => r = q

\* The proof of such a request is a token of the account. It is in the account
\* no more.
Spends(r) ==
  /\ Call(r).route \in {"verifyEmail", "resetPassword"}
  /\ Call(r).proof \notin past.shared \cup {None}
Gone(r, user) ==
  IF Call(r).route = "verifyEmail" THEN user.verifyToken # TRUE
  ELSE user.resetToken # Call(r).proof

\* Which account that is.
TokenOf(r, id) ==
  IF Call(r).route = "verifyEmail" THEN id = Call(r).proof
  ELSE /\ Call(r).proof \in Requests /\ req[Call(r).proof].pc \notin Unborn
       /\ req[Call(r).proof].id = id

SpendingFits(r) ==
  req[r].pc \in InSave /\ Spends(r) =>
    /\ TokenOf(r, req[r].id)
    /\ Gone(r, users[req[r].id])
    /\ req[r].pc = "saving" => Gone(r, req[r].row)

SpentOf(r, id) ==
  /\ TokenOf(r, id)
  /\ id \in DOMAIN users \cap DOMAIN rows
  /\ id \notin past.overlapped =>
       /\ Gone(r, users[id]) /\ Gone(r, rows[id])
       /\ \A q \in Requests : req[q].pc = "saving" /\ req[q].id = id => Gone(r, req[q].row)
SpentFits(r) == past.accepted[r] # None /\ Spends(r) => SpentOf(r, req[r].id)

\* A token is spent by one request.
Spender(r) == Spends(r) /\ (req[r].pc \in InSave \/ past.accepted[r] # None)
OneSpender ==
  \A r, q \in Requests :
    /\ Spender(r) /\ Spender(q) /\ Call(r).route = Call(q).route
    /\ Call(r).proof = Call(q).proof /\ req[r].id \notin past.overlapped
    => r = q

\* A reset finds its token before it waits for the hash. Unless another one finds
\* it meanwhile, the token is its own when it goes on.
FindsReset(r) == At(r, "resetPassword", "hashing")
AloneWith(r, id) ==
  \A q \in Requests \ {r} :
    Call(q).route = Call(r).route /\ Call(q).proof = Call(r).proof
    => ~FindsReset(q) /\ (Spender(q) => id \in past.overlapped)
HashFits(r) == FindsReset(r) /\ Spends(r) => TokenOf(r, req[r].id) /\ AloneWith(r, req[r].id)

SpendInv ==
  /\ ReqTyped /\ IsPast(past)
  /\ UsersFit /\ (\A r \in Requests : IdFits(r, req[r])) /\ AcceptedFits /\ OneSave
  /\ (\A r \in Requests : SpendingFits(r) /\ SpentFits(r))
  /\ OneSpender /\ (\A r \in Requests : HashFits(r))

\* Whoever finds a token in the account is the first to spend it.
LEMMA FirstToSpend ==
  ASSUME SpendInv, NEW r \in Requests, NEW id \in DOMAIN users, Spends(r), TokenOf(r, id),
         ~Gone(r, users[id]), NEW q \in Requests, Spender(q),
         Call(q).route = Call(r).route, Call(q).proof = Call(r).proof
  PROVE  id \in past.overlapped
<1>1. TokenOf(q, req[q].id)
  BY DEF Spender, SpendInv, SpendingFits, SpentFits, SpentOf
<1>2. req[q].id = id
  BY <1>1 DEF TokenOf
<1>3. ~Gone(q, users[id])
  BY DEF Gone
<1> QED
  BY <1>2, <1>3 DEF Spender, SpendInv, SpendingFits, SpentFits, SpentOf

\* No step changes which account a request found once it saved something.
LEMMA TokenStays ==
  ASSUME SpendInv, calls' = calls,
         \A r \in Requests : req[r].pc \notin Unborn =>
                               req'[r].pc \notin Unborn /\ req'[r].id = req[r].id
  PROVE  /\ \A id, user : TokenFits(id, user) => TokenFits(id, user)'
         /\ \A id, user : UserFits(id, user) => UserFits(id, user)'
         /\ \A r, id : TokenOf(r, id) => TokenOf(r, id)'
BY DEF TokenFits, UserFits, TokenOf, Call

\* Steps that save nothing: a request moves on, fails or is answered.
Moves(r, x) ==
  /\ calls' = calls /\ users' = users /\ rows' = rows
  /\ IsPast(past') /\ past'.accepted = past.accepted
  /\ past'.overlapped = past.overlapped /\ past.shared \subseteq past'.shared
  /\ req' = [req EXCEPT ![r] = x] /\ IsReq(x) /\ IdFits(r, x)
  /\ x.pc \in Unborn => req[r].pc \in Unborn
  /\ req[r].pc \notin Unborn => x.id = req[r].id
  /\ x.pc \in InSave => x.pc = req[r].pc /\ x.row = req[r].row
  /\ x.pc = "hashing" /\ Call(r).route = "resetPassword" =>
       \/ FindsReset(r) /\ x.id = req[r].id
       \/ Spends(r)' => TokenOf(r, x.id) /\ AloneWith(r, x.id)

LEMMA MovesKeep ==
  ASSUME SpendInv, NEW r \in Requests, NEW x, Moves(r, x)
  PROVE  SpendInv'
<1>1. /\ calls' = calls /\ users' = users /\ rows' = rows
      /\ IsPast(past') /\ past'.accepted = past.accepted
      /\ past'.overlapped = past.overlapped /\ past.shared \subseteq past'.shared
  BY DEF Moves
<1>2. /\ DOMAIN req' = Requests /\ req'[r] = x
      /\ \A q \in Requests \ {r} : req'[q] = req[q]
  BY DEF Moves, SpendInv, ReqTyped
<1>3. /\ \A q \in Requests : IsReq(req'[q])
      /\ \A q \in Requests : req'[q].pc \in Unborn => req[q].pc \in Unborn
      /\ \A q \in Requests : req[q].pc \notin Unborn => req'[q].id = req[q].id
      /\ \A q \in Requests : req'[q].pc \in InSave =>
           req'[q].pc = req[q].pc /\ req'[q].row = req[q].row /\ req'[q].id = req[q].id
  BY <1>2 DEF Moves, SpendInv, ReqTyped, Unborn, InSave
<1>4. /\ \A id, user : UserFits(id, user) => UserFits(id, user)'
      /\ \A q, id : TokenOf(q, id) => TokenOf(q, id)'
  BY <1>1, <1>3, TokenStays
<1>5. UsersFit'
  BY <1>1, <1>3, <1>4 DEF SpendInv, UsersFit, InSave
<1>6. \A q \in Requests : IdFits(q, req[q])'
  BY <1>1, <1>2 DEF Moves, SpendInv, IdFits, Call
<1>7. AcceptedFits'
  BY <1>1, <1>3 DEF SpendInv, AcceptedFits, Call
<1>8. OneSave'
  BY <1>1, <1>3 DEF SpendInv, OneSave, InSave
<1>9. /\ \A q : Spends(q)' => Spends(q)
      /\ \A q, user : Gone(q, user)' <=> Gone(q, user)
  BY <1>1 DEF Spends, Gone, Call
<1>10. \A q \in Requests : SpendingFits(q)'
  BY <1>1, <1>3, <1>4, <1>9 DEF SpendInv, SpendingFits
<1>11. \A q \in Requests : SpentFits(q)'
  <2> SUFFICES ASSUME NEW q \in Requests, past.accepted[q] # None, Spends(q)
               PROVE  SpentOf(q, req[q].id)'
    BY <1>1, <1>9 DEF SpentFits
  <2>1. PICK id : id = req[q].id
    OBVIOUS
  <2>2. req'[q].id = id
    BY <1>3, <2>1 DEF SpendInv, AcceptedFits
  <2>3. SpentOf(q, id)
    BY <2>1 DEF SpendInv, SpentFits
  <2>4. SpentOf(q, id)'
    BY <1>1, <1>3, <1>4, <1>9, <2>3 DEF SpentOf, InSave
  <2> QED
    BY <2>2, <2>4
<1>12. \A q \in Requests : Spender(q)' => Spender(q) /\ req'[q].id = req[q].id
  BY <1>1, <1>3, <1>9 DEF SpendInv, AcceptedFits, Spender
<1>13. OneSpender'
  BY <1>1, <1>12 DEF SpendInv, OneSpender, Call
<1>14. ASSUME NEW q \in Requests PROVE HashFits(q)'
  <2> SUFFICES ASSUME FindsReset(q)', Spends(q)'
               PROVE  TokenOf(q, req[q].id)' /\ AloneWith(q, req[q].id)'
    BY DEF HashFits
  <2>1. Spends(q) /\ Call(q).route = "resetPassword" /\ req'[q].pc = "hashing"
    BY <1>1, <1>9 DEF FindsReset, At, Call
  <2>2. PICK id : id = req'[q].id
    OBVIOUS
  <2>3. TokenOf(q, id) /\ AloneWith(q, id) /\ (q # r => FindsReset(q))
    <3>1. CASE FindsReset(q) /\ req[q].id = id
      BY <2>1, <3>1 DEF SpendInv, HashFits
    <3>2. CASE q = r /\ ~(FindsReset(r) /\ x.id = req[r].id)
      BY <1>2, <2>1, <2>2, <3>2 DEF Moves
    <3>3. q # r => FindsReset(q) /\ req[q].id = id
      BY <1>2, <2>1, <2>2 DEF FindsReset, At
    <3> QED
      BY <1>2, <2>2, <3>1, <3>2, <3>3
  <2>4. ASSUME NEW p \in Requests \ {q}, Call(p).route = Call(q).route,
               Call(p).proof = Call(q).proof
        PROVE  ~FindsReset(p)' /\ (Spender(p)' => id \in past'.overlapped)
    <3>1. ~FindsReset(p) /\ (Spender(p) => id \in past.overlapped)
      BY <2>3, <2>4 DEF AloneWith
    <3>2. ~FindsReset(p)'
      <4> SUFFICES ASSUME FindsReset(p)' PROVE FALSE
        OBVIOUS
      <4>1. p = r /\ x.pc = "hashing" /\ FindsReset(q)
        BY <1>1, <1>2, <2>3, <2>4, <3>1 DEF FindsReset, At, Call
      <4>2. Spends(r)'
        BY <1>1, <2>4, <4>1 DEF Spends, Call
      <4>3. AloneWith(r, x.id)
        BY <2>1, <2>4, <3>1, <4>1, <4>2 DEF Moves
      <4> QED
        BY <2>4, <4>1, <4>3 DEF AloneWith
    <3> QED
      BY <1>1, <1>12, <3>1, <3>2
  <2>5. AloneWith(q, id)' /\ TokenOf(q, id)'
    BY <1>1, <1>4, <2>3, <2>4 DEF AloneWith, Call
  <2> QED
    BY <2>2, <2>5
<1> QED
  BY <1>1, <1>2, <1>3, <1>5, <1>6, <1>7, <1>8, <1>10, <1>11, <1>13, <1>14 DEF SpendInv, ReqTyped

-----------------------------------------------------------------------------
\* Steps that put an account in the store and have it saved.
Puts(id, user) ==
  /\ DOMAIN users' = DOMAIN users \cup {id} /\ users'[id] = user
  /\ \A i \in DOMAIN users \ {id} : users'[i] = users[i]

Edits(r, x, user) ==
  /\ calls' = calls /\ rows' = rows
  /\ IsPast(past') /\ past'.accepted = past.accepted
  /\ past.overlapped \subseteq past'.overlapped /\ past.shared \subseteq past'.shared
  /\ req' = [req EXCEPT ![r] = x] /\ IsReq(x) /\ x.pc \in InSave
  /\ Puts(x.id, user) /\ IsUser(user)
  /\ req[r].pc \in Unborn \/ (req[r].pc = "storing" /\ req[r].id = x.id)
  /\ x.id \in DOMAIN users \/ (x.id = r /\ req[r].pc \in Unborn)
  /\ x.pc = "storing" => Call(r).route # "resetPassword"
  /\ x.pc = "saving" => x.row = user /\ (SavingOf(x.id) # {} => x.id \in past'.overlapped)
  /\ \/ user.resetToken = None
     \/ x.id \in DOMAIN users /\ user.resetToken = users[x.id].resetToken
     \/ user.resetToken = r /\ Call(r).route = "requestReset" /\ req[r].pc \in Unborn
  /\ x.id \in DOMAIN users /\ users[x.id].verifyToken # TRUE => user.verifyToken # TRUE
  /\ Spends(r)' => /\ TokenOf(r, x.id) /\ Gone(r, user)
                   /\ req[r].pc \in Unborn => AloneWith(r, x.id)

\* What an account has lost it does not get back.
LEMMA GoneStays ==
  ASSUME SpendInv, NEW r \in Requests, NEW x, NEW user, Edits(r, x, user),
         NEW q \in Requests, Spends(q), TokenOf(q, x.id), x.id \in DOMAIN users,
         Gone(q, users[x.id])
  PROVE  Gone(q, user)
<1>1. CASE Call(q).route = "verifyEmail"
  BY <1>1 DEF Gone, Edits
<1>2. CASE Call(q).route # "verifyEmail"
  <2>1. Call(q).proof # None /\ Call(q).proof \in Requests /\ req[Call(q).proof].pc \notin Unborn
    BY <1>2 DEF Spends, TokenOf
  <2>2. users[x.id].resetToken # Call(q).proof
    BY <1>2 DEF Gone
  <2>3. user.resetToken # Call(q).proof
    BY <2>1, <2>2 DEF Edits
  <2> QED
    BY <1>2, <2>3 DEF Gone
<1> QED
  BY <1>1, <1>2

LEMMA EditsKeep ==
  ASSUME SpendInv, NEW r \in Requests, NEW x, NEW user, Edits(r, x, user)
  PROVE  SpendInv'
<1> DEFINE id == x.id
<1>1. /\ calls' = calls /\ rows' = rows
      /\ IsPast(past') /\ past'.accepted = past.accepted
      /\ past.overlapped \subseteq past'.overlapped /\ past.shared \subseteq past'.shared
      /\ IsUser(user)
  BY DEF Edits
<1>2. /\ DOMAIN req' = Requests /\ req'[r] = x
      /\ \A q \in Requests \ {r} : req'[q] = req[q]
  BY DEF Edits, SpendInv, ReqTyped
<1>3. /\ x.pc \in InSave /\ x.pc \notin Unborn
      /\ \A q \in Requests : IsReq(req'[q])
      /\ \A q \in Requests : req'[q].pc \in Unborn => req[q].pc \in Unborn
      /\ \A q \in Requests : req[q].pc \notin Unborn => req'[q].id = req[q].id
  BY <1>2 DEF Edits, SpendInv, ReqTyped, Unborn, InSave
<1>4. /\ \A i, u : UserFits(i, u) => UserFits(i, u)'
      /\ \A q, i : TokenOf(q, i) => TokenOf(q, i)'
  BY <1>1, <1>3, TokenStays
<1>5. /\ DOMAIN users' = DOMAIN users \cup {id} /\ users'[id] = user
      /\ \A i \in DOMAIN users \ {id} : users'[i] = users[i]
  BY DEF Edits, Puts
<1>6. id \notin DOMAIN users => id = r /\ req[r].pc \in Unborn /\ r \notin DOMAIN rows
  BY DEF Edits, SpendInv, UsersFit
<1>7. UserFits(id, user)'
  <2>1. CASE user.resetToken = None
    BY <1>1, <2>1 DEF UserFits, TokenFits
  <2>2. CASE id \in DOMAIN users /\ user.resetToken = users[id].resetToken
    <3>1. UserFits(id, users[id])
      BY <2>2 DEF SpendInv, UsersFit
    <3>2. TokenFits(id, user)
      BY <2>2, <3>1 DEF UserFits, TokenFits
    <3> QED
      BY <1>1, <1>4, <3>2 DEF UserFits
  <2>3. CASE user.resetToken = r /\ Call(r).route = "requestReset" /\ req[r].pc \in Unborn
    BY <1>1, <1>2, <1>3, <2>3 DEF UserFits, TokenFits, Call
  <2> QED
    BY <2>1, <2>2, <2>3 DEF Edits
<1>8. UsersFit'
  <2>1. \A i \in DOMAIN users' : UserFits(i, users[i])'
    BY <1>4, <1>5, <1>7 DEF SpendInv, UsersFit
  <2>2. \A i \in DOMAIN rows' : UserFits(i, rows[i])'
    BY <1>1, <1>4 DEF SpendInv, UsersFit
  <2>3. \A q \in Requests : req'[q].pc = "saving" => UserFits(req[q].id, req[q].row)'
    <3>1. x.pc = "saving" => UserFits(req[r].id, req[r].row)'
      BY <1>2, <1>7 DEF Edits
    <3> QED
      BY <1>2, <1>4, <3>1 DEF SpendInv, UsersFit
  <2>4. \A i \in Requests : i \in DOMAIN users' \/ i \in DOMAIN rows' => req'[i].pc \notin Unborn
    BY <1>1, <1>2, <1>3, <1>5, <1>6 DEF SpendInv, UsersFit
  <2> QED
    BY <2>1, <2>2, <2>3, <2>4 DEF UsersFit
<1>9. \A q \in Requests : IdFits(q, req[q])'
  BY <1>1, <1>2, <1>3, <1>5 DEF Edits, SpendInv, IdFits, Call, InSave
<1>10. AcceptedFits'
  BY <1>1, <1>2, <1>3 DEF Edits, SpendInv, AcceptedFits, Call, Unborn, InSave
<1>11. OneSave'
  <2> SUFFICES ASSUME NEW q \in Requests, NEW p \in Requests,
                      req'[q].pc = "saving", req'[p].pc = "saving", req'[q].id = req'[p].id,
                      req'[q].id \notin past'.overlapped, q # p
               PROVE  FALSE
    BY DEF OneSave
  <2>1. q = r \/ p = r
    BY <1>1, <1>2 DEF SpendInv, OneSave
  <2>2. PICK o \in {p, q} : o # r /\ req[o].pc = "saving" /\ req[o].id = id
    BY <1>2, <2>1
  <2>3. SavingOf(id) # {}
    BY <2>2 DEF SavingOf
  <2> QED
    BY <1>2, <2>1, <2>3 DEF Edits
<1>12. /\ \A q : Spends(q)' => Spends(q)
       /\ \A q, u : Gone(q, u)' <=> Gone(q, u)
  BY <1>1 DEF Spends, Gone, Call
<1>13. \A q \in Requests, i \in DOMAIN users :
         Spends(q)' /\ TokenOf(q, i) /\ Gone(q, users[i]) => Gone(q, users'[i])
  BY <1>5, <1>12, GoneStays
<1>14. \A q \in Requests : SpendingFits(q)'
  <2> SUFFICES ASSUME NEW q \in Requests, req'[q].pc \in InSave, Spends(q)'
               PROVE  /\ TokenOf(q, req[q].id)'
                      /\ Gone(q, users'[req'[q].id])
                      /\ req'[q].pc = "saving" => Gone(q, req'[q].row)
    BY <1>12 DEF SpendingFits
  <2>1. CASE q = r
    BY <1>2, <1>4, <1>5, <2>1 DEF Edits
  <2>2. CASE q # r
    <3>1. PICK i : i = req[q].id
      OBVIOUS
    <3>2. req'[q] = req[q] /\ i \in DOMAIN users
      BY <1>2, <2>2, <3>1 DEF SpendInv, IdFits
    <3>3. TokenOf(q, i) /\ Gone(q, users[i]) /\ (req[q].pc = "saving" => Gone(q, req[q].row))
      BY <1>12, <3>1, <3>2 DEF SpendInv, SpendingFits
    <3>4. TokenOf(q, i)' /\ Gone(q, users'[i])
      BY <1>4, <1>13, <3>2, <3>3
    <3> QED
      BY <3>1, <3>2, <3>3, <3>4
  <2> QED
    BY <2>1, <2>2
<1>15. \A q \in Requests : SpentFits(q)'
  <2> SUFFICES ASSUME NEW q \in Requests, past.accepted[q] # None, Spends(q)'
               PROVE  SpentOf(q, req[q].id)'
    BY <1>1 DEF SpentFits
  <2>1. PICK i : i = req[q].id
    OBVIOUS
  <2>2. req'[q].id = i
    BY <1>3, <2>1 DEF SpendInv, AcceptedFits
  <2>3. SpentOf(q, i)
    BY <1>12, <2>1 DEF SpendInv, SpentFits
  <2>4. TokenOf(q, i)' /\ i \in DOMAIN users' \cap DOMAIN rows'
    BY <1>1, <1>4, <1>5, <2>3 DEF SpentOf
  <2>5. ASSUME i \notin past'.overlapped
        PROVE  /\ Gone(q, users'[i]) /\ Gone(q, rows'[i])
               /\ \A p \in Requests : req'[p].pc = "saving" /\ req'[p].id = i => Gone(q, req'[p].row)
    <3>1. /\ Gone(q, users[i]) /\ Gone(q, rows[i])
          /\ \A p \in Requests : req[p].pc = "saving" /\ req[p].id = i => Gone(q, req[p].row)
      BY <1>1, <2>3, <2>5 DEF SpentOf
    <3>2. Gone(q, users'[i])
      BY <1>13, <2>3, <3>1 DEF SpentOf
    <3>3. x.pc = "saving" /\ x.id = i => Gone(q, x.row)
      BY <1>5, <3>2 DEF Edits
    <3> QED
      BY <1>1, <1>2, <3>1, <3>2, <3>3
  <2>6. SpentOf(q, i)'
    BY <1>12, <2>4, <2>5 DEF SpentOf
  <2> QED
    BY <2>2, <2>6
<1>16. OneSpender'
  <2> SUFFICES ASSUME NEW q \in Requests, NEW p \in Requests,
                      Spender(q)', Spender(p)', Call(q).route = Call(p).route,
                      Call(q).proof = Call(p).proof, req'[q].id \notin past'.overlapped, q # p
               PROVE  FALSE
    BY <1>1 DEF OneSpender, Call
  <2> DEFINE Found(o) == TokenOf(o, req[o].id)
  <2>0. req'[q].id = req'[p].id
    <3>1. \A o \in Requests : Spender(o)' => Found(o)'
      BY <1>14, <1>15 DEF Spender, SpendingFits, SpentFits, SpentOf
    <3>2. Found(q)' /\ Found(p)'
      BY <3>1
    <3> QED
      BY <1>1, <3>2 DEF TokenOf, Call
  <2>1. \A o \in Requests : Spender(o)' /\ ~Spender(o) => o = r
    BY <1>1, <1>2, <1>12 DEF Spender
  <2>2. \A o \in Requests : Spender(o) => /\ req[o].pc \notin Unborn /\ req'[o].id = req[o].id
                                          /\ req[o].id \in DOMAIN users
    <3>1. \A o \in Requests : Spender(o) => req[o].pc \notin Unborn
      BY DEF Spender, SpendInv, AcceptedFits, Unborn, InSave
    <3>2. \A o \in Requests : Spender(o) => req[o].id \in DOMAIN users
      BY DEF Spender, SpendInv, IdFits, SpentFits, SpentOf
    <3> QED
      BY <1>3, <3>1, <3>2
  <2>3. ~(Spender(q) /\ Spender(p))
    BY <1>1, <2>2 DEF SpendInv, OneSpender
  <2>4. PICK o \in {p, q} : o # r /\ Spender(o) /\ ~Spender(r) /\ Spender(r)' /\ Spender(o)'
                            /\ Call(o).route = Call(r).route /\ Call(o).proof = Call(r).proof
    BY <2>1, <2>3
  <2>5. req[r].pc \in Unborn
    <3>1. Spends(r)
      BY <1>12, <2>4 DEF Spender
    <3> QED
      BY <2>4, <3>1 DEF Edits, Spender, InSave
  <2>6. TokenOf(r, id) /\ AloneWith(r, id)
    BY <2>4, <2>5 DEF Edits, Spender
  <2>7. TokenOf(o, req[o].id)
    BY <1>12, <2>4 DEF Spender, SpendInv, SpendingFits, SpentFits, SpentOf
  <2>8. req[o].id = id
    BY <2>4, <2>6, <2>7 DEF TokenOf
  <2>9. id \notin past'.overlapped
    <3>1. req'[o].id = id
      BY <2>2, <2>4, <2>8
    <3> QED
      BY <2>0, <2>4, <3>1
  <2> QED
    BY <1>1, <2>4, <2>6, <2>9 DEF AloneWith
<1>17. ASSUME NEW q \in Requests PROVE HashFits(q)'
  <2> SUFFICES ASSUME FindsReset(q)', Spends(q)'
               PROVE  TokenOf(q, req[q].id)' /\ AloneWith(q, req[q].id)'
    BY DEF HashFits
  <2>1. q # r /\ FindsReset(q) /\ Spends(q) /\ req'[q] = req[q]
    BY <1>1, <1>2, <1>3, <1>12 DEF FindsReset, At, Call, Unborn
  <2>2. PICK i : i = req[q].id
    OBVIOUS
  <2>3. TokenOf(q, i) /\ AloneWith(q, i)
    BY <2>1, <2>2 DEF SpendInv, HashFits
  <2>4. ASSUME NEW p \in Requests \ {q}, Call(p).route = Call(q).route,
               Call(p).proof = Call(q).proof
        PROVE  ~FindsReset(p)' /\ (Spender(p)' => i \in past'.overlapped)
    <3>1. ~FindsReset(p) /\ (Spender(p) => i \in past.overlapped)
      BY <2>3, <2>4 DEF AloneWith
    <3>2. ~FindsReset(p)'
      BY <1>1, <1>2, <1>3, <3>1 DEF FindsReset, At, Call, Unborn
    <3>3. Spender(p)' => Spender(p)
      <4> SUFFICES ASSUME Spender(p)', ~Spender(p) PROVE FALSE
        OBVIOUS
      <4>1. p = r /\ Spends(r)' /\ Spends(r)
        BY <1>1, <1>2, <1>12 DEF Spender
      <4>2. req[r].pc \in Unborn
        BY <4>1 DEF Edits, Spender, InSave
      <4>3. AloneWith(r, x.id)
        BY <4>1, <4>2 DEF Edits
      <4> QED
        BY <2>1, <2>4, <4>1, <4>3 DEF AloneWith
    <3> QED
      BY <1>1, <3>1, <3>2, <3>3
  <2>5. AloneWith(q, i)' /\ TokenOf(q, i)'
    BY <1>1, <1>4, <2>3, <2>4 DEF AloneWith, Call
  <2> QED
    BY <2>1, <2>2, <2>5
<1> QED
  BY <1>1, <1>2, <1>3, <1>8, <1>9, <1>10, <1>11, <1>14, <1>15, <1>16, <1>17
  DEF SpendInv, ReqTyped

-----------------------------------------------------------------------------
LEMMA SpendStarts == AccountsInit => SpendInv
<1> SUFFICES ASSUME AccountsInit PROVE SpendInv
  OBVIOUS
<1>1. PICK s \in Stories : users = s.users
  BY DEF AccountsInit
<1>2. /\ DOMAIN users \cap Requests = {}
      /\ \A id \in DOMAIN users : IsUser(users[id]) /\ users[id].resetToken = None
  BY <1>1, StoriesAssumption
<1>3. /\ req = [r \in Requests |-> [pc |-> "idle", id |-> None, held |-> None, row |-> None,
                                    aborted |-> FALSE]]
      /\ past = [accepted |-> [r \in Requests |-> None], overlapped |-> {}, raced |-> {},
             relinked |-> {}, lastHash |-> << >>, lastWallet |-> << >>, ended |-> {},
             revoked |-> {}, revived |-> FALSE, out |-> {}, alone |-> {}, doubtful |-> {},
             shared |-> {}]
      /\ rows = users
  BY DEF AccountsInit
<1>4. ReqTyped /\ \A r \in Requests : req[r].pc = "idle"
  BY <1>3 DEF ReqTyped, IsReq
<1>5. IsPast(past) /\ past.accepted = [r \in Requests |-> None]
  BY <1>3 DEF IsPast
<1>6. UsersFit
  BY <1>2, <1>3, <1>4 DEF UsersFit, UserFits, TokenFits
<1>7. \A r \in Requests : IdFits(r, req[r])
  BY <1>4 DEF IdFits, InSave
<1>8. AcceptedFits /\ OneSave /\ OneSpender /\ \A r \in Requests : SpendingFits(r) /\ SpentFits(r)
  BY <1>4, <1>5 DEF AcceptedFits, OneSave, OneSpender, Spender, SpendingFits, SpentFits, InSave
<1>9. \A r \in Requests : HashFits(r)
  BY <1>4 DEF HashFits, FindsReset, At
<1> QED
  BY <1>4, <1>5, <1>6, <1>7, <1>8, <1>9 DEF SpendInv

\* A row is written with the account the request saves: it is answered for.
Written(r) ==
  /\ calls' = calls /\ users' = users
  /\ req[r].pc = "saving" /\ Go(r, Outcome(r))
  /\ rows' = With(rows, req[r].id, Row(req[r].row))
  /\ past' = [past EXCEPT !.accepted[r] = Call(r).proof, !.ended = @ \cup {r}]

LEMMA RowKeeps ==
  ASSUME NEW user, IsUser(user)
  PROVE  /\ IsUser(Row(user))
         /\ Row(user).resetToken = user.resetToken /\ Row(user).verifyToken = user.verifyToken
<1>1. PICK row : row = [user EXCEPT !.verifyFresh = TRUE]
  OBVIOUS
<1>2. user = [email |-> user.email, hash |-> user.hash, method |-> user.method,
          verified |-> user.verified, verifyToken |-> user.verifyToken,
          verifyFresh |-> user.verifyFresh, resetToken |-> user.resetToken,
          resetFresh |-> user.resetFresh, wallet |-> user.wallet,
          managed |-> user.managed, admin |-> user.admin]
  BY DEF IsUser
<1>3. IsUser(row) /\ row.resetToken = user.resetToken /\ row.verifyToken = user.verifyToken
  BY ONLY <1>1, <1>2 DEF IsUser
<1> QED
  BY <1>1, <1>3 DEF Row

LEMMA WrittenKeeps ==
  ASSUME SpendInv, NEW r \in Requests, Written(r)
  PROVE  SpendInv'
<1> DEFINE id == req[r].id
           row == Row(req[r].row)
<1>1. /\ calls' = calls /\ users' = users /\ req[r].pc = "saving"
      /\ rows' = With(rows, id, row)
  BY DEF Written
<1>2. /\ IsPast(past') /\ past'.overlapped = past.overlapped /\ past'.shared = past.shared
      /\ past'.accepted = [past.accepted EXCEPT ![r] = Call(r).proof]
  BY DEF Written, SpendInv, IsPast
<1>3. /\ DOMAIN req' = Requests
      /\ \A q \in Requests : IsReq(req'[q]) /\ req'[q].id = req[q].id /\ req'[q].row = req[q].row
      /\ req'[r].pc \in {"session", "ok"}
      /\ \A q \in Requests \ {r} : req'[q] = req[q]
  BY DEF Written, Go, Outcome, SpendInv, ReqTyped, IsReq
<1>4. /\ DOMAIN rows' = DOMAIN rows \cup {id} /\ rows'[id] = row
      /\ \A i \in DOMAIN rows \ {id} : rows'[i] = rows[i]
  BY <1>1 DEF With
<1>5. id \in DOMAIN users /\ UserFits(id, req[r].row)
  BY <1>1 DEF SpendInv, IdFits, UsersFit, InSave
<1>6. /\ IsUser(row) /\ row.resetToken = req[r].row.resetToken
      /\ row.verifyToken = req[r].row.verifyToken
  BY <1>5, RowKeeps DEF UserFits
<1>7. UserFits(id, row)
  BY <1>5, <1>6 DEF UserFits, TokenFits
<1>8. \A q : Gone(q, req[r].row) => Gone(q, row)
  BY <1>6 DEF Gone
<1> HIDE DEF row, id
<1>9. /\ \A q \in Requests : req'[q].pc \in Unborn => req[q].pc \in Unborn
      /\ \A q \in Requests : req'[q].pc \in InSave => req[q].pc \in InSave /\ q # r
      /\ req'[r].pc \notin Unborn \cup InSave \cup {"hashing", "verifying"}
  BY <1>3 DEF Unborn, InSave
<1>10. /\ \A i, user : UserFits(i, user) => UserFits(i, user)'
       /\ \A q, i : TokenOf(q, i) => TokenOf(q, i)'
  BY <1>1, <1>3, <1>9, TokenStays
<1>11. UsersFit'
  <2>1. \A i \in DOMAIN rows' : UserFits(i, rows[i])'
    BY <1>4, <1>7, <1>10 DEF SpendInv, UsersFit
  <2>2. \A q \in Requests : req'[q].pc = "saving" => UserFits(req[q].id, req[q].row)'
    BY <1>3, <1>9, <1>10 DEF SpendInv, UsersFit, InSave
  <2> QED
    BY <1>1, <1>3, <1>4, <1>5, <1>9, <1>10, <2>1, <2>2 DEF SpendInv, UsersFit
<1>12. \A q \in Requests : IdFits(q, req[q])'
  BY <1>1, <1>3, <1>9 DEF SpendInv, IdFits, Call
<1>13. AcceptedFits'
  BY <1>1, <1>2, <1>3, <1>9 DEF SpendInv, AcceptedFits, Call
<1>14. OneSave'
  BY <1>2, <1>3, <1>9 DEF SpendInv, OneSave, InSave
<1>15. /\ \A q : Spends(q)' <=> Spends(q)
       /\ \A q, u : Gone(q, u)' <=> Gone(q, u)
  BY <1>1, <1>2 DEF Spends, Gone, Call
<1>16. \A q \in Requests : SpendingFits(q)'
  BY <1>1, <1>3, <1>9, <1>10, <1>15 DEF SpendInv, SpendingFits, InSave
<1>17. \A q \in Requests : SpentFits(q)'
  <2> SUFFICES ASSUME NEW q \in Requests, past'.accepted[q] # None, Spends(q)
               PROVE  SpentOf(q, req[q].id)'
    BY <1>15 DEF SpentFits
  <2>1. PICK i : i = req[q].id
    OBVIOUS
  <2>2. CASE q = r
    <3>1. TokenOf(r, id) /\ Gone(r, users[id]) /\ Gone(r, row)
      BY <1>1, <1>8, <2>2 DEF SpendInv, SpendingFits, InSave, id
    <3>2. id \notin past.overlapped => \A p \in Requests : ~(req'[p].pc = "saving" /\ req'[p].id = id)
      BY <1>1, <1>3, <1>9 DEF SpendInv, OneSave, InSave, id
    <3>3. SpentOf(r, i)'
      BY <1>1, <1>2, <1>4, <1>5, <1>10, <1>15, <2>1, <2>2, <3>1, <3>2 DEF SpentOf, id
    <3> QED
      BY <1>3, <2>1, <2>2, <3>3
  <2>3. CASE q # r
    <3>1. past.accepted[q] # None
      BY <1>2, <2>3 DEF SpendInv, AcceptedFits
    <3>2. SpentOf(q, i)
      BY <2>1, <3>1 DEF SpendInv, SpentFits
    <3>3. i \notin past.overlapped => Gone(q, rows'[i])
      BY <1>1, <1>4, <1>8, <3>2 DEF SpentOf, id
    <3>4. SpentOf(q, i)'
      BY <1>1, <1>2, <1>3, <1>4, <1>9, <1>10, <1>15, <3>2, <3>3 DEF SpentOf, InSave
    <3> QED
      BY <1>3, <2>1, <3>4
  <2> QED
    BY <2>2, <2>3
<1>18. \A q \in Requests : Spender(q)' => Spender(q)
  BY <1>1, <1>2, <1>9, <1>15 DEF SpendInv, AcceptedFits, Spender, InSave
<1>19. OneSpender'
  BY <1>1, <1>2, <1>3, <1>18 DEF SpendInv, OneSpender, Call
<1>20. ASSUME NEW q \in Requests PROVE HashFits(q)'
  <2> SUFFICES ASSUME FindsReset(q)', Spends(q)'
               PROVE  TokenOf(q, req[q].id)' /\ AloneWith(q, req[q].id)'
    BY DEF HashFits
  <2>1. \A p \in Requests : FindsReset(p)' => FindsReset(p) /\ req'[p].id = req[p].id
    BY <1>1, <1>3, <1>9 DEF FindsReset, At, Call, Unborn, InSave
  <2>2. PICK i : i = req[q].id
    OBVIOUS
  <2>3. TokenOf(q, i) /\ AloneWith(q, i)
    BY <1>15, <2>1, <2>2 DEF SpendInv, HashFits
  <2>4. TokenOf(q, i)' /\ AloneWith(q, i)'
    BY <1>1, <1>2, <1>10, <1>18, <2>1, <2>3 DEF AloneWith, Call
  <2> QED
    BY <2>1, <2>2, <2>4
<1> QED
  BY <1>2, <1>3, <1>11, <1>12, <1>13, <1>14, <1>16, <1>17, <1>19, <1>20 DEF SpendInv, ReqTyped

-----------------------------------------------------------------------------
\* A change of the accounts that leaves every token where it was: with time, or
\* by a new process, whose accounts are the rows.
Reloads ==
  /\ calls' = calls
  /\ IsPast(past') /\ past'.accepted = past.accepted
  /\ past'.overlapped = past.overlapped /\ past'.shared = past.shared
  /\ DOMAIN req' = Requests
  /\ \A r \in Requests : IsReq(req'[r]) /\ (req'[r] = req[r] \/ req'[r].pc = "failed")
                         /\ req'[r].id = req[r].id
                         /\ (req'[r].pc \in Unborn <=> req[r].pc \in Unborn /\ req'[r] = req[r])
  /\ DOMAIN rows' = DOMAIN rows
  /\ (DOMAIN users' \ DOMAIN rows) \cap Requests \subseteq DOMAIN users
  /\ \/ DOMAIN users' = DOMAIN users
     \/ /\ \A r \in Requests : req'[r].pc \notin InSave \cup {"hashing", "verifying"}
        /\ DOMAIN rows \subseteq DOMAIN users'
  /\ \A id \in DOMAIN rows : /\ IsUser(rows'[id]) /\ rows'[id].resetToken = rows[id].resetToken
                             /\ rows'[id].verifyToken = rows[id].verifyToken
  /\ \A id \in DOMAIN users' :
       /\ IsUser(users'[id])
       /\ \/ id \in DOMAIN users /\ users'[id].resetToken = users[id].resetToken
             /\ users'[id].verifyToken = users[id].verifyToken
          \/ id \in DOMAIN rows /\ users'[id].resetToken = rows[id].resetToken
             /\ users'[id].verifyToken = rows[id].verifyToken
             /\ \A r \in Requests : req'[r].pc \notin InSave
          \/ id \notin DOMAIN rows /\ users'[id].resetToken = None
             /\ \A r \in Requests : req'[r].pc \notin InSave

LEMMA ReloadsKeep ==
  ASSUME SpendInv, Reloads
  PROVE  SpendInv'
<1>1. /\ calls' = calls /\ IsPast(past') /\ past'.accepted = past.accepted
      /\ past'.overlapped = past.overlapped /\ past'.shared = past.shared
      /\ DOMAIN req' = Requests /\ \A r \in Requests : IsReq(req'[r])
      /\ DOMAIN rows' = DOMAIN rows
  BY DEF Reloads
<1>2. /\ \A r \in Requests : req[r].pc \notin Unborn => req'[r].pc \notin Unborn
      /\ \A r \in Requests : req'[r].id = req[r].id
      /\ \A r \in Requests : req'[r].pc \in Unborn \cup InSave => req'[r] = req[r]
  BY DEF Reloads, Unborn, InSave
<1>3. /\ \A i, user : TokenFits(i, user) => TokenFits(i, user)'
      /\ \A i, user : UserFits(i, user) => UserFits(i, user)'
      /\ \A q, i : TokenOf(q, i) => TokenOf(q, i)'
  BY <1>1, <1>2, TokenStays
<1>4. \A u, v, i : UserFits(i, u) /\ IsUser(v) /\ v.resetToken = u.resetToken => UserFits(i, v)'
  BY <1>3 DEF UserFits, TokenFits
<1>5. UsersFit'
  <2>1. \A id \in DOMAIN rows' : UserFits(id, rows[id])'
    BY <1>1, <1>4 DEF Reloads, SpendInv, UsersFit
  <2>2. ASSUME NEW id \in DOMAIN users' PROVE UserFits(id, users[id])'
    <3>1. IsUser(users'[id])
      BY DEF Reloads
    <3>2. CASE id \in DOMAIN users /\ users'[id].resetToken = users[id].resetToken
      BY <1>4, <3>1, <3>2 DEF SpendInv, UsersFit
    <3>3. CASE id \in DOMAIN rows /\ users'[id].resetToken = rows[id].resetToken
      BY <1>4, <3>1, <3>3 DEF SpendInv, UsersFit
    <3>4. CASE users'[id].resetToken = None
      BY <3>1, <3>4 DEF UserFits, TokenFits
    <3> QED
      BY <3>2, <3>3, <3>4 DEF Reloads
  <2>3. \A q \in Requests : req'[q].pc = "saving" => UserFits(req[q].id, req[q].row)'
    BY <1>2, <1>3 DEF SpendInv, UsersFit, InSave
  <2>4. \A i \in Requests : i \in DOMAIN users' \/ i \in DOMAIN rows' => req'[i].pc \notin Unborn
    BY <1>1, <1>2 DEF Reloads, SpendInv, UsersFit
  <2> QED
    BY <2>1, <2>2, <2>3, <2>4 DEF UsersFit
<1>6. \A q \in Requests : IdFits(q, req[q])'
  BY <1>1, <1>2 DEF Reloads, SpendInv, IdFits, Call, Unborn, InSave
<1>7. AcceptedFits'
  BY <1>1, <1>2 DEF SpendInv, AcceptedFits, Call
<1>8. OneSave'
  BY <1>1, <1>2 DEF SpendInv, OneSave, InSave
<1>9. /\ \A q : Spends(q)' <=> Spends(q)
      /\ \A q, u : Gone(q, u)' <=> Gone(q, u)
      /\ \A q, u, v : /\ u.resetToken = v.resetToken /\ u.verifyToken = v.verifyToken /\ Gone(q, v)
                      => Gone(q, u)
  BY <1>1 DEF Spends, Gone, Call
<1>10. \A q \in Requests : SpendingFits(q)'
  <2> SUFFICES ASSUME NEW q \in Requests, req'[q].pc \in InSave, Spends(q)
               PROVE  /\ TokenOf(q, req[q].id)'
                      /\ Gone(q, users'[req'[q].id])
                      /\ req'[q].pc = "saving" => Gone(q, req'[q].row)
    BY <1>9 DEF SpendingFits
  <2>1. PICK i : i = req[q].id
    OBVIOUS
  <2>2. req'[q] = req[q] /\ i \in DOMAIN users'
    BY <1>2, <1>6, <2>1 DEF IdFits
  <2>3. TokenOf(q, i) /\ Gone(q, users[i]) /\ (req[q].pc = "saving" => Gone(q, req[q].row))
    BY <2>1, <2>2 DEF SpendInv, SpendingFits
  <2>4. users'[i].resetToken = users[i].resetToken /\ users'[i].verifyToken = users[i].verifyToken
    BY <2>2 DEF Reloads
  <2> QED
    BY <1>3, <1>9, <2>1, <2>2, <2>3, <2>4
<1>11. \A q \in Requests : SpentFits(q)'
  <2> SUFFICES ASSUME NEW q \in Requests, past.accepted[q] # None, Spends(q)
               PROVE  SpentOf(q, req[q].id)'
    BY <1>1, <1>9 DEF SpentFits
  <2>1. PICK i : i = req[q].id
    OBVIOUS
  <2>2. SpentOf(q, i)
    BY <2>1 DEF SpendInv, SpentFits
  <2>3. i \in DOMAIN users' /\ i \in DOMAIN rows /\ i \in DOMAIN users
    BY <2>2 DEF SpentOf, Reloads
  <2>4. i \notin past.overlapped => Gone(q, users[i]) /\ Gone(q, rows[i])
    BY <2>2 DEF SpentOf
  <2>5. i \notin past.overlapped => Gone(q, users'[i]) /\ Gone(q, rows'[i])
    <3>1. Gone(q, rows[i]) => Gone(q, rows'[i])
      BY <1>9, <2>3 DEF Reloads
    <3>2. Gone(q, rows[i]) /\ Gone(q, users[i]) => Gone(q, users'[i])
      BY <1>9, <2>3 DEF Reloads
    <3> QED
      BY <2>4, <3>1, <3>2
  <2>6. i \notin past.overlapped =>
          \A p \in Requests : req'[p].pc = "saving" /\ req'[p].id = i => Gone(q, req'[p].row)
    BY <1>2, <2>2 DEF SpentOf, InSave
  <2>7. SpentOf(q, i)'
    BY <1>1, <1>3, <1>9, <2>2, <2>3, <2>5, <2>6 DEF SpentOf
  <2> QED
    BY <1>2, <2>1, <2>7
<1>12. \A q \in Requests : Spender(q)' => Spender(q)
  BY <1>1, <1>2, <1>9 DEF Spender
<1>13. OneSpender'
  BY <1>1, <1>2, <1>12 DEF SpendInv, OneSpender, Call
<1>14. ASSUME NEW q \in Requests PROVE HashFits(q)'
  <2> SUFFICES ASSUME FindsReset(q)', Spends(q)'
               PROVE  TokenOf(q, req[q].id)' /\ AloneWith(q, req[q].id)'
    BY DEF HashFits
  <2>1. \A p \in Requests : FindsReset(p)' => FindsReset(p) /\ req'[p].id = req[p].id
    BY <1>1, <1>2 DEF FindsReset, At, Call, Unborn, InSave
  <2>2. PICK i : i = req[q].id
    OBVIOUS
  <2>3. TokenOf(q, i) /\ AloneWith(q, i)
    BY <1>9, <2>1, <2>2 DEF SpendInv, HashFits
  <2>4. TokenOf(q, i)' /\ AloneWith(q, i)'
    BY <1>1, <1>3, <1>12, <2>1, <2>3 DEF AloneWith, Call
  <2> QED
    BY <2>1, <2>2, <2>4
<1> QED
  BY <1>1, <1>5, <1>6, <1>7, <1>8, <1>10, <1>11, <1>13, <1>14 DEF SpendInv, ReqTyped

LEMMA ExpireKeeps ==
  ASSUME SpendInv, NEW id \in DOMAIN users, Expire(id)
  PROVE  SpendInv'
<1>1. PICK user : user = [users[id] EXCEPT !.verifyFresh = FALSE, !.resetFresh = FALSE]
  OBVIOUS
<1>2. users' = [users EXCEPT ![id] = user]
  BY <1>1 DEF Expire
<1>3. PICK old : old = users[id]
  OBVIOUS
<1>4. IsUser(old)
  BY <1>3 DEF SpendInv, UsersFit, UserFits
<1>5. user = [old EXCEPT !.verifyFresh = FALSE, !.resetFresh = FALSE]
  BY <1>1, <1>3
<1>6. IsUser(user) /\ user.resetToken = old.resetToken /\ user.verifyToken = old.verifyToken
  BY ONLY <1>4, <1>5 DEF IsUser
<1>7. /\ DOMAIN users' = DOMAIN users
      /\ \A i \in DOMAIN users : /\ IsUser(users'[i])
                                 /\ users'[i].resetToken = users[i].resetToken
                                 /\ users'[i].verifyToken = users[i].verifyToken
  BY <1>2, <1>3, <1>6 DEF SpendInv, UsersFit, UserFits
<1>8. /\ DOMAIN rows' = DOMAIN rows
      /\ \A i \in DOMAIN rows : /\ IsUser(rows'[i]) /\ rows'[i].resetToken = rows[i].resetToken
                                /\ rows'[i].verifyToken = rows[i].verifyToken
  <2>1. \A i \in DOMAIN rows : IsUser(rows[i])
    BY DEF SpendInv, UsersFit, UserFits
  <2>2. CASE id \in DOMAIN rows
    <3>1. PICK row : row = [rows[id] EXCEPT !.resetFresh = FALSE]
      OBVIOUS
    <3>2. PICK had : had = rows[id]
      OBVIOUS
    <3>3. IsUser(had) /\ row = [had EXCEPT !.resetFresh = FALSE]
      BY <2>1, <2>2, <3>1, <3>2
    <3>4. IsUser(row) /\ row.resetToken = had.resetToken /\ row.verifyToken = had.verifyToken
      BY ONLY <3>3 DEF IsUser
    <3>5. rows' = [rows EXCEPT ![id] = row]
      BY <2>2, <3>1 DEF Expire
    <3> QED
      BY <2>1, <3>2, <3>4, <3>5
  <2>3. CASE id \notin DOMAIN rows
    BY <2>1, <2>3 DEF Expire
  <2> QED
    BY <2>2, <2>3
<1>9. calls' = calls /\ req' = req /\ past' = past
  BY DEF Expire
<1>10. Reloads
  BY <1>7, <1>8, <1>9 DEF Reloads, SpendInv, ReqTyped, IsPast, Unborn
<1> QED
  BY <1>10, ReloadsKeep

LEMMA RestartKeeps ==
  ASSUME SpendInv, Restart
  PROVE  SpendInv'
<1>1. /\ calls' = calls /\ rows' = rows
      /\ users' = ensureConfiguredAdminWalletUsers(rows)
      /\ req' = [r \in Requests |-> IF InServer(r) THEN [req[r] EXCEPT !.pc = "failed"] ELSE req[r]]
      /\ past' = [past EXCEPT !.raced = {}, !.relinked = {}]
  BY DEF Restart, loadPersistedAuthUsers
<1>2. /\ IsPast(past') /\ past'.accepted = past.accepted
      /\ past'.overlapped = past.overlapped /\ past'.shared = past.shared
  BY <1>1 DEF SpendInv, IsPast
<1>3. /\ DOMAIN req' = Requests
      /\ \A r \in Requests : /\ IsReq(req'[r])
                             /\ req'[r] = req[r] \/ req'[r].pc = "failed"
                             /\ req'[r].id = req[r].id
                             /\ InServer(r) => req'[r].pc = "failed"
                             /\ ~InServer(r) => req'[r] = req[r]
  BY <1>1 DEF SpendInv, ReqTyped, IsReq
<1>4. \A r \in Requests : req'[r].pc \notin InSave \cup {"hashing", "verifying"}
  BY <1>3 DEF InServer, InSave, Answers
<1>5. \A id \in DOMAIN rows : IsUser(rows[id])
  BY DEF SpendInv, UsersFit, UserFits
<1>6. DOMAIN rows \subseteq DOMAIN users' /\ DOMAIN users' \subseteq DOMAIN rows \cup adminWallets
  BY <1>1 DEF ensureConfiguredAdminWalletUsers
<1>7. ASSUME NEW id \in DOMAIN rows
      PROVE  /\ IsUser(users'[id]) /\ users'[id].resetToken = rows[id].resetToken
             /\ users'[id].verifyToken = rows[id].verifyToken
  <2>1. PICK had : had = rows[id]
    OBVIOUS
  <2>2. PICK user : user = [had EXCEPT !.admin = TRUE, !.verified = TRUE]
    OBVIOUS
  <2>3. IsUser(had)
    BY <1>5, <2>1
  <2>4. IsUser(user) /\ user.resetToken = had.resetToken /\ user.verifyToken = had.verifyToken
    BY ONLY <2>2, <2>3 DEF IsUser
  <2>5. users'[id] \in {user, had}
    BY <1>1, <2>1, <2>2 DEF ensureConfiguredAdminWalletUsers
  <2> QED
    BY <2>1, <2>3, <2>4, <2>5
<1>8. ASSUME NEW id \in DOMAIN users', id \notin DOMAIN rows
      PROVE  IsUser(users'[id]) /\ users'[id].resetToken = None
  <2>1. users'[id] = [NewUser(id, "wallet") EXCEPT !.verified = TRUE, !.wallet = id, !.admin = TRUE]
    BY <1>1, <1>8 DEF ensureConfiguredAdminWalletUsers
  <2>2. PICK new : new = NewUser(id, "wallet")
    OBVIOUS
  <2>3. PICK user : user = [new EXCEPT !.verified = TRUE, !.wallet = id, !.admin = TRUE]
    OBVIOUS
  <2>4. IsUser(new) /\ new.resetToken = None
    BY <2>2 DEF NewUser, IsUser
  <2>5. IsUser(user) /\ user.resetToken = new.resetToken
    BY ONLY <2>3, <2>4 DEF IsUser
  <2> QED
    BY <2>1, <2>2, <2>3, <2>4, <2>5
<1>9. (DOMAIN users' \ DOMAIN rows) \cap Requests = {}
  BY <1>6, StoriesAssumption
<1>10. \A r \in Requests : (req'[r].pc \in Unborn <=> req[r].pc \in Unborn /\ req'[r] = req[r])
  BY <1>3 DEF Unborn
<1>11. Reloads
  BY <1>1, <1>2, <1>3, <1>4, <1>5, <1>6, <1>7, <1>8, <1>9, <1>10 DEF Reloads
<1> QED
  BY <1>11, ReloadsKeep

-----------------------------------------------------------------------------
\* The steps of a request, one of the kinds above each.
Aside ==
  /\ calls' = calls /\ users' = users /\ rows' = rows
  /\ IsPast(past') /\ past'.accepted = past.accepted
  /\ past'.overlapped = past.overlapped /\ past.shared \subseteq past'.shared

LEMMA GoKeeps ==
  ASSUME SpendInv, NEW r \in Requests, NEW where, Go(r, where), Aside,
         where \notin InSave \cup {"hashing", "verifying"},
         where \in Unborn => req[r].pc \in Unborn
  PROVE  SpendInv'
<1>1. PICK q : q = req[r]
  OBVIOUS
<1>2. PICK x : x = [q EXCEPT !.pc = where]
  OBVIOUS
<1>3. IsReq(q)
  BY <1>1 DEF SpendInv, ReqTyped
<1>4. IsReq(x) /\ x.pc = where /\ x.id = q.id
  BY ONLY <1>2, <1>3 DEF IsReq
<1>5. req' = [req EXCEPT ![r] = x]
  BY <1>1, <1>2 DEF Go, SpendInv, ReqTyped
<1>6. IdFits(r, x)
  BY <1>4 DEF IdFits, InSave
<1>7. Moves(r, x)
  BY <1>1, <1>4, <1>5, <1>6 DEF Moves, Aside
<1> QED
  BY <1>7, MovesKeep

LEMMA WaitKeeps ==
  ASSUME SpendInv, NEW r \in Requests, NEW where, NEW id, NEW held, Wait(r, where, id, held),
         req[r].pc \in Unborn, where \in {"hashing", "verifying"},
         Call(r).route # "resetPassword",
         Call(r).route = "changePassword" => id \in DOMAIN users,
         where = "hashing" /\ Call(r).route = "register" => id = r
  PROVE  SpendInv'
<1>1. PICK q : q = req[r]
  OBVIOUS
<1>2. PICK x : x = [q EXCEPT !.pc = where, !.id = id, !.held = held]
  OBVIOUS
<1>3. IsReq(q)
  BY <1>1 DEF SpendInv, ReqTyped
<1>4. IsReq(x) /\ x.pc = where /\ x.id = id
  BY ONLY <1>2, <1>3 DEF IsReq
<1>5. req' = [req EXCEPT ![r] = x]
  BY <1>1, <1>2 DEF Wait, SpendInv, ReqTyped
<1>6. IdFits(r, x)
  BY <1>4 DEF IdFits, InSave
<1>7. Moves(r, x)
  BY <1>4, <1>5, <1>6 DEF Moves, Wait, Server, Maps, SpendInv, InSave
<1> QED
  BY <1>7, MovesKeep

LEMMA ResetFindKeeps ==
  ASSUME SpendInv, NEW r \in Requests, NEW id \in DOMAIN users,
         At(r, "resetPassword", "admitted"), users[id].resetToken = Call(r).proof,
         req' = [req EXCEPT ![r].pc = "hashing", ![r].id = id],
         past' = IF Finders(Call(r).proof) = {} THEN past
                 ELSE [past EXCEPT !.shared = @ \cup {Call(r).proof}],
         Server, Maps
  PROVE  SpendInv'
<1>1. PICK q : q = req[r]
  OBVIOUS
<1>2. PICK x : x = [q EXCEPT !.pc = "hashing", !.id = id]
  OBVIOUS
<1>3. IsReq(q)
  BY <1>1 DEF SpendInv, ReqTyped
<1>4. IsReq(x) /\ x.pc = "hashing" /\ x.id = id
  BY ONLY <1>2, <1>3 DEF IsReq
<1>5. req' = [req EXCEPT ![r] = x]
  BY <1>1, <1>2 DEF SpendInv, ReqTyped
<1>6. /\ Aside /\ calls' = calls
      /\ Finders(Call(r).proof) # {} => Call(r).proof \in past'.shared
  BY DEF SpendInv, IsPast, Aside, Server, Maps
<1>7. IdFits(r, x) /\ req[r].pc = "admitted" /\ Call(r).route = "resetPassword"
  BY <1>4 DEF IdFits, InSave, At
<1>8. ASSUME Spends(r)' PROVE TokenOf(r, id) /\ AloneWith(r, id)
  <2>1. Call(r).proof # None /\ Spends(r) /\ Finders(Call(r).proof) = {}
    BY <1>6, <1>8 DEF Spends, Call, Aside
  <2>2. TokenOf(r, id)
    BY <1>7, <2>1 DEF SpendInv, UsersFit, UserFits, TokenFits, TokenOf
  <2>3. ~Gone(r, users[id])
    BY <1>7 DEF Gone
  <2> SUFFICES ASSUME NEW p \in Requests \ {r}, Call(p).route = Call(r).route,
                      Call(p).proof = Call(r).proof
               PROVE  ~FindsReset(p) /\ (Spender(p) => id \in past.overlapped)
    BY <2>2 DEF AloneWith
  <2>4. ~FindsReset(p)
    BY <2>1 DEF Finders, FindsReset
  <2> QED
    BY <2>1, <2>2, <2>3, <2>4, FirstToSpend
<1>9. Moves(r, x)
  BY <1>4, <1>5, <1>6, <1>7, <1>8 DEF Moves, Aside, Unborn, InSave
<1> QED
  BY <1>9, MovesKeep

LEMMA BrowserKeepsSpent ==
  ASSUME SpendInv, NEW r \in Requests, Send(r) \/ Receive(r) \/ TimeOut(r)
  PROVE  SpendInv'
<1>1. PICK q : q = req[r]
  OBVIOUS
<1>2. IsReq(q)
  BY <1>1 DEF SpendInv, ReqTyped
<1>3. ASSUME Send(r) PROVE SpendInv'
  <2>1. PICK held : req' = [req EXCEPT ![r].pc = "sent", ![r].held = held]
    BY <1>3 DEF Send
  <2>2. PICK x : x = [q EXCEPT !.pc = "sent", !.held = held]
    OBVIOUS
  <2>3. IsReq(x) /\ x.pc = "sent"
    BY ONLY <1>2, <2>2 DEF IsReq
  <2>4. req' = [req EXCEPT ![r] = x]
    BY <1>1, <2>1, <2>2 DEF SpendInv, ReqTyped
  <2>5. Aside
    BY <1>3 DEF Send, Aside, serverVars, SpendInv, IsPast
  <2>6. req[r].pc = "idle"
    BY <1>3 DEF Send
  <2>7. Moves(r, x)
    BY <2>3, <2>4, <2>5, <2>6 DEF Moves, Aside, IdFits, Unborn, InSave
  <2> QED
    BY <2>7, MovesKeep
<1>4. ASSUME Receive(r) PROVE SpendInv'
  <2>1. Aside
    BY <1>4 DEF Receive, Aside, serverVars, SpendInv, IsPast
  <2>2. "received" \notin InSave \cup {"hashing", "verifying"} \cup Unborn
    BY DEF InSave, Unborn
  <2> QED
    BY <1>4, <2>1, <2>2, GoKeeps DEF Receive
<1>5. ASSUME TimeOut(r) PROVE SpendInv'
  <2>1. PICK x : x = [q EXCEPT !.aborted = TRUE]
    OBVIOUS
  <2>2. IsReq(x) /\ x.pc = q.pc /\ x.id = q.id /\ x.row = q.row
    BY ONLY <1>2, <2>1 DEF IsReq
  <2>3. req' = [req EXCEPT ![r] = x]
    BY <1>1, <1>5, <2>1 DEF TimeOut, SpendInv, ReqTyped
  <2>4. Aside
    BY <1>5 DEF TimeOut, Aside, serverVars, SpendInv, IsPast
  <2>5. IdFits(r, x)
    BY <1>1, <2>2 DEF SpendInv, IdFits
  <2>6. Moves(r, x)
    BY <1>1, <2>2, <2>3, <2>4, <2>5 DEF Moves, Aside, FindsReset, At
  <2> QED
    BY <2>6, MovesKeep
<1> QED
  BY <1>3, <1>4, <1>5

\* The steps that answer, or wait for a hash.
LEMMA AnswersKeep ==
  ASSUME SpendInv, NEW r \in Requests,
         \/ Admit(r) \/ FailSave(r) \/ register(r) \/ login(r) \/ signIn(r)
         \/ resetPassword(r) \/ changePassword(r) \/ checkPassword(r)
         \/ checkMessage(r) \/ consumeWalletLoginSignature(r) \/ logout(r)
  PROVE  SpendInv'
<1>1. IsPast(past) /\ IdFits(r, req[r])
  BY DEF SpendInv
<1>2. /\ \A where \in Answers : where \notin InSave \cup {"hashing", "verifying"} \cup Unborn
      /\ "admitted" \in Unborn /\ "consumed" \in Unborn /\ "sent" \in Unborn
      /\ "admitted" \notin InSave \cup {"hashing", "verifying"}
      /\ "consumed" \notin InSave \cup {"hashing", "verifying"}
      /\ "checked" \notin InSave \cup {"hashing", "verifying"} /\ "checked" \in Unborn
      /\ "refused" \in Answers /\ "session" \in Answers /\ "cleared" \in Answers
      /\ "verifying" \in Unborn /\ "hashing" \in Unborn
  BY DEF Answers, InSave, Unborn
<1>3. ASSUME past' = past, calls' = calls, users' = users, rows' = rows PROVE Aside
  BY <1>1, <1>3 DEF Aside
<1>4. ASSUME Refuse(r) PROVE SpendInv'
  BY <1>2, <1>3, <1>4, GoKeeps DEF Refuse, Answer, Server, Maps
<1>5. CASE Admit(r)
  BY <1>2, <1>3, <1>5, GoKeeps DEF Admit, Maps
<1>6. CASE FailSave(r)
  BY <1>2, <1>3, <1>6, GoKeeps DEF FailSave, Maps, Answer
<1>7. CASE register(r)
  BY <1>2, <1>4, <1>7, WaitKeeps DEF register, At
<1>8. CASE login(r)
  BY <1>2, <1>4, <1>8, WaitKeeps DEF login, At
<1>9. CASE signIn(r)
  BY <1>2, <1>3, <1>4, <1>9, GoKeeps DEF signIn, At, Answer, Server, Maps
<1>10. CASE resetPassword(r)
  <2>1. CASE Refuse(r)
    BY <1>4, <2>1
  <2>2. CASE ~Refuse(r)
    <3>1. PICK id \in DOMAIN users :
            /\ HoldsReset(id, Call(r).proof)
            /\ req' = [req EXCEPT ![r].pc = "hashing", ![r].id = id]
      BY <1>10, <2>2 DEF resetPassword
    <3>2. /\ users[id].resetToken = Call(r).proof
          /\ At(r, "resetPassword", "admitted") /\ Server /\ Maps
          /\ past' = IF Finders(Call(r).proof) = {} THEN past
                     ELSE [past EXCEPT !.shared = @ \cup {Call(r).proof}]
      BY <1>10, <2>2, <3>1 DEF resetPassword, HoldsReset
    <3> QED
      BY <3>1, <3>2, ResetFindKeeps
  <2> QED
    BY <2>1, <2>2
<1>11. CASE changePassword(r)
  BY <1>2, <1>4, <1>11, WaitKeeps DEF changePassword, At
<1>12. CASE checkPassword(r)
  BY <1>1, <1>2, <1>4, <1>12, WaitKeeps DEF checkPassword, At, IdFits
<1>13. CASE consumeWalletLoginSignature(r)
  <2>1. Aside
    BY <1>1, <1>13 DEF consumeWalletLoginSignature, Aside, Maps, IsPast
  <2> QED
    BY <1>2, <1>13, <2>1, GoKeeps DEF consumeWalletLoginSignature, Answer, At
<1>14. CASE logout(r)
  <2>1. Aside
    BY <1>1, <1>14 DEF logout, Aside, Maps, IsPast
  <2> QED
    BY <1>2, <1>14, <2>1, GoKeeps DEF logout, Answer
<1>15. CASE checkMessage(r)
  BY <1>2, <1>3, <1>4, <1>15, GoKeeps DEF checkMessage, At, Server, Maps
<1> QED
  BY <1>5, <1>6, <1>7, <1>8, <1>9, <1>10, <1>11, <1>12, <1>13, <1>14, <1>15

LEMMA RefreshKeepsSpent ==
  ASSUME SpendInv, NEW r \in Requests, refresh(r)
  PROVE  SpendInv'
<1>1. Aside
  BY DEF refresh, Aside, Maps, SpendInv, IsPast
<1>2. CASE Answer(r, "refused") \/ Answer(r, "expired")
  <2>1. \A where \in {"refused", "expired"} : where \notin InSave \cup {"hashing", "verifying"} \cup Unborn
    BY DEF InSave, Unborn
  <2> QED
    BY <1>1, <1>2, <2>1, GoKeeps DEF Answer
<1>3. CASE req' = [req EXCEPT ![r].pc = "session", ![r].id = HolderOf(req[r].held)]
  <2>1. PICK q : q = req[r]
    OBVIOUS
  <2>2. PICK id : id = HolderOf(req[r].held)
    OBVIOUS
  <2>3. PICK x : x = [q EXCEPT !.pc = "session", !.id = id]
    OBVIOUS
  <2>4. IsReq(q)
    BY <2>1 DEF SpendInv, ReqTyped
  <2>5. IsReq(x) /\ x.pc = "session"
    BY ONLY <2>3, <2>4 DEF IsReq
  <2>6. req' = [req EXCEPT ![r] = x]
    BY <1>3, <2>1, <2>2, <2>3 DEF SpendInv, ReqTyped
  <2>7. req[r].pc = "admitted"
    BY DEF refresh, At
  <2>8. Moves(r, x)
    BY <1>1, <2>5, <2>6, <2>7 DEF Moves, Aside, IdFits, Unborn, InSave
  <2> QED
    BY <2>8, MovesKeep
<1> QED
  BY <1>2, <1>3 DEF refresh

-----------------------------------------------------------------------------
\* How a request goes on that has edited an account.
LEMMA SaveStarts ==
  ASSUME ReqTyped, IsPast(past), NEW r \in Requests, NEW id, NEW user, StartSave(r, id, user)
  PROVE  \E x : /\ req' = [req EXCEPT ![r] = x] /\ IsReq(x)
                /\ x.pc = "saving" /\ x.id = id /\ x.row = user
                /\ IsPast(past') /\ past'.accepted = past.accepted
                /\ past.overlapped \subseteq past'.overlapped /\ past'.shared = past.shared
                /\ SavingOf(id) # {} => id \in past'.overlapped
<1>1. PICK q : q = req[r]
  OBVIOUS
<1>2. PICK x : x = [q EXCEPT !.pc = "saving", !.id = id, !.row = user]
  OBVIOUS
<1>3. req' = [req EXCEPT ![r] = x]
  BY <1>1, <1>2 DEF StartSave, ReqTyped
<1>4. IsReq(q)
  BY <1>1 DEF ReqTyped
<1>5. IsReq(x) /\ x.pc = "saving" /\ x.id = id /\ x.row = user
  BY ONLY <1>2, <1>4 DEF IsReq
<1>6. /\ IsPast(past') /\ past'.accepted = past.accepted
      /\ past.overlapped \subseteq past'.overlapped /\ past'.shared = past.shared
      /\ SavingOf(id) # {} => id \in past'.overlapped
  BY DEF StartSave, IsPast
<1> QED
  BY <1>3, <1>5, <1>6

LEMMA StoreStarts ==
  ASSUME ReqTyped, NEW r \in Requests, NEW id, StartStore(r, id)
  PROVE  \E x : /\ req' = [req EXCEPT ![r] = x] /\ IsReq(x)
                /\ x.pc = "storing" /\ x.id = id
<1>1. PICK q : q = req[r]
  OBVIOUS
<1>2. PICK x : x = [q EXCEPT !.pc = "storing", !.id = id]
  OBVIOUS
<1>3. req' = [req EXCEPT ![r] = x]
  BY <1>1, <1>2 DEF StartStore, ReqTyped
<1>4. IsReq(q)
  BY <1>1 DEF ReqTyped
<1>5. IsReq(x) /\ x.pc = "storing" /\ x.id = id
  BY ONLY <1>2, <1>4 DEF IsReq
<1> QED
  BY <1>3, <1>5

LEMMA RowStarts ==
  ASSUME ReqTyped, NEW r \in Requests, NEW user,
         req' = [req EXCEPT ![r].pc = "saving", ![r].row = user]
  PROVE  \E x : /\ req' = [req EXCEPT ![r] = x] /\ IsReq(x)
                /\ x.pc = "saving" /\ x.id = req[r].id /\ x.row = user
<1>1. PICK q : q = req[r]
  OBVIOUS
<1>2. PICK x : x = [q EXCEPT !.pc = "saving", !.row = user]
  OBVIOUS
<1>3. req' = [req EXCEPT ![r] = x]
  BY <1>1, <1>2 DEF ReqTyped
<1>4. IsReq(q)
  BY <1>1 DEF ReqTyped
<1>5. IsReq(x) /\ x.pc = "saving" /\ x.id = q.id /\ x.row = user
  BY ONLY <1>2, <1>4 DEF IsReq
<1> QED
  BY <1>1, <1>3, <1>5

\* The fields the routes set.
SameTokens(new, user) ==
  IsUser(new) /\ new.resetToken = user.resetToken /\ new.verifyToken = user.verifyToken

Retokened(new, user, token) ==
  IsUser(new) /\ new.resetToken = token /\ new.verifyToken = user.verifyToken

LEMMA UserEdits ==
  ASSUME NEW user, IsUser(user)
  PROVE  /\ /\ IsUser(Verified(user)) /\ Verified(user).resetToken = user.resetToken
            /\ Verified(user).verifyToken = FALSE
         /\ \A r, new : new = [user EXCEPT !.resetToken = r, !.resetFresh = TRUE]
              => Retokened(new, user, r)
         /\ \A h, new : new = [user EXCEPT !.hash = h, !.resetToken = None]
              => Retokened(new, user, None)
         /\ \A h, new : new = [user EXCEPT !.hash = h] => SameTokens(new, user)
         /\ \A new : new = [user EXCEPT !.admin = TRUE] => SameTokens(new, user)
         /\ \A w, a, new : new = [user EXCEPT !.wallet = w, !.admin = a] => SameTokens(new, user)
<1>1. user = [email |-> user.email, hash |-> user.hash, method |-> user.method,
          verified |-> user.verified, verifyToken |-> user.verifyToken,
          verifyFresh |-> user.verifyFresh, resetToken |-> user.resetToken,
          resetFresh |-> user.resetFresh, wallet |-> user.wallet,
          managed |-> user.managed, admin |-> user.admin]
  BY DEF IsUser
<1>2. /\ IsUser(Verified(user)) /\ Verified(user).resetToken = user.resetToken
      /\ Verified(user).verifyToken = FALSE
  <2>1. PICK new : new = [user EXCEPT !.verified = TRUE, !.verifyToken = FALSE, !.managed = TRUE]
    OBVIOUS
  <2>2. IsUser(new) /\ new.resetToken = user.resetToken /\ new.verifyToken = FALSE
    BY ONLY <1>1, <2>1 DEF IsUser
  <2> QED
    BY <2>1, <2>2 DEF Verified
<1>3. ASSUME NEW r, NEW new, new = [user EXCEPT !.resetToken = r, !.resetFresh = TRUE]
      PROVE  Retokened(new, user, r)
  BY ONLY <1>1, <1>3 DEF IsUser, Retokened
<1>4. ASSUME NEW h, NEW new, new = [user EXCEPT !.hash = h, !.resetToken = None]
      PROVE  Retokened(new, user, None)
  BY ONLY <1>1, <1>4 DEF IsUser, Retokened
<1>5. ASSUME NEW h, NEW new, new = [user EXCEPT !.hash = h]
      PROVE  SameTokens(new, user)
  BY ONLY <1>1, <1>5 DEF IsUser, SameTokens
<1>6. ASSUME NEW new, new = [user EXCEPT !.admin = TRUE]
      PROVE  SameTokens(new, user)
  BY ONLY <1>1, <1>6 DEF IsUser, SameTokens
<1>7. ASSUME NEW w, NEW a, NEW new, new = [user EXCEPT !.wallet = w, !.admin = a]
      PROVE  SameTokens(new, user)
  BY ONLY <1>1, <1>7 DEF IsUser, SameTokens
<1> QED
  BY <1>2, <1>3, <1>4, <1>5, <1>6, <1>7, Zenon

-----------------------------------------------------------------------------
LEMMA StoreSavedKeepsSpent ==
  ASSUME SpendInv, NEW r \in Requests, StoreSaved(r)
  PROVE  SpendInv'
<1>1. PICK id : id = req[r].id
  OBVIOUS
<1>2. PICK user : user = users[id]
  OBVIOUS
<1>3. PICK x : /\ req' = [req EXCEPT ![r] = x] /\ IsReq(x)
               /\ x.pc = "saving" /\ x.id = id /\ x.row = user
               /\ IsPast(past') /\ past'.accepted = past.accepted
               /\ past.overlapped \subseteq past'.overlapped /\ past'.shared = past.shared
               /\ SavingOf(id) # {} => id \in past'.overlapped
  BY <1>1, <1>2, SaveStarts DEF StoreSaved, SpendInv
<1>4. /\ calls' = calls /\ rows' = rows /\ users' = users /\ req[r].pc = "storing"
  BY DEF StoreSaved, Server, Maps
<1>5. id \in DOMAIN users /\ Call(r).route # "resetPassword"
  BY <1>1, <1>4 DEF SpendInv, IdFits, InSave
<1>6. Puts(id, user) /\ IsUser(user)
  BY <1>2, <1>4, <1>5 DEF Puts, SpendInv, UsersFit, UserFits
<1>7. Spends(r)' => TokenOf(r, id) /\ Gone(r, user)
  BY <1>1, <1>2, <1>3, <1>4 DEF Spends, Call, SpendInv, SpendingFits, InSave
<1>8. Edits(r, x, user)
  BY <1>1, <1>2, <1>3, <1>4, <1>5, <1>6, <1>7 DEF Edits, InSave, Unborn
<1> QED
  BY <1>8, EditsKeep

LEMMA CreateKeepsSpent ==
  ASSUME SpendInv, NEW r \in Requests, createUser(r)
  PROVE  SpendInv'
<1>1. PICK new : new = NewUser(Call(r).email, "email")
  OBVIOUS
<1>2. PICK user : user = [new EXCEPT !.hash = r, !.verifyToken = TRUE]
  OBVIOUS
<1>3. IsUser(new) /\ new.resetToken = None
  BY <1>1 DEF NewUser, IsUser
<1>4. IsUser(user) /\ user.resetToken = None
  BY ONLY <1>2, <1>3 DEF IsUser
<1>5. /\ Call(r).route = "register" /\ req[r].pc = "hashing"
      /\ calls' = calls /\ rows' = rows /\ users' = With(users, r, user)
      /\ req' = [req EXCEPT ![r].pc = "saving", ![r].row = user]
  BY <1>1, <1>2 DEF createUser, At, Server
<1>6. /\ IsPast(past') /\ past'.accepted = past.accepted
      /\ past'.overlapped = past.overlapped /\ past'.shared = past.shared
  BY DEF createUser, SpendInv, IsPast
<1>7. PICK x : /\ req' = [req EXCEPT ![r] = x] /\ IsReq(x)
               /\ x.pc = "saving" /\ x.id = req[r].id /\ x.row = user
  BY <1>5, RowStarts DEF SpendInv
<1>8. req[r].id = r /\ req[r].pc \in Unborn
  BY <1>5 DEF SpendInv, IdFits, Unborn
<1>9. r \notin DOMAIN users
  BY <1>8 DEF SpendInv, UsersFit
<1>10. SavingOf(r) = {}
  BY <1>9 DEF SavingOf, SpendInv, IdFits, InSave
<1>11. Puts(r, user)
  BY <1>5 DEF Puts, With
<1>12. ~Spends(r)'
  BY <1>5 DEF Spends, Call
<1>13. Edits(r, x, user)
  BY <1>4, <1>5, <1>6, <1>7, <1>8, <1>9, <1>10, <1>11, <1>12 DEF Edits, InSave
<1> QED
  BY <1>13, EditsKeep

LEMMA VerifyKeepsSpent ==
  ASSUME SpendInv, NEW r \in Requests, verifyEmail(r)
  PROVE  SpendInv'
<1>1. CASE Refuse(r)
  BY <1>1, GoKeeps DEF Refuse, Answer, Server, Maps, Aside, SpendInv, InSave, Unborn
<1>2. CASE ~Refuse(r)
  <2>1. PICK id : id = Call(r).proof
    OBVIOUS
  <2>2. /\ Call(r).route = "verifyEmail" /\ req[r].pc = "admitted"
        /\ id \in DOMAIN users /\ users[id].verifyToken
        /\ users' = [users EXCEPT ![id] = Verified(@)]
        /\ StartStore(r, id) /\ past' = past /\ calls' = calls /\ rows' = rows
    BY <1>2, <2>1 DEF verifyEmail, At, Server
  <2>3. PICK x : req' = [req EXCEPT ![r] = x] /\ IsReq(x) /\ x.pc = "storing" /\ x.id = id
    BY <2>2, StoreStarts DEF SpendInv
  <2>4. PICK user : user = Verified(users[id])
    OBVIOUS
  <2>5. IsUser(users[id])
    BY <2>2 DEF SpendInv, UsersFit, UserFits
  <2>6. IsUser(user) /\ user.resetToken = users[id].resetToken /\ user.verifyToken = FALSE
    BY <2>4, <2>5, UserEdits
  <2>7. Puts(id, user)
    BY <2>2, <2>4 DEF Puts
  <2>8. users[id].verifyToken = TRUE
    BY <2>2
  <2>9. Spends(r)' => TokenOf(r, id) /\ Gone(r, user) /\ AloneWith(r, id)
    <3>1. Spends(r)' => Spends(r)
      BY <2>2 DEF Spends, Call
    <3>2. TokenOf(r, id) /\ Gone(r, user) /\ ~Gone(r, users[id])
      BY <2>1, <2>2, <2>6, <2>8 DEF TokenOf, Gone
    <3>3. \A q : Call(q).route = Call(r).route => ~FindsReset(q)
      BY <2>2 DEF FindsReset, At
    <3> QED
      BY <2>2, <3>1, <3>2, <3>3, FirstToSpend DEF AloneWith
  <2>10. Edits(r, x, user)
    BY <2>2, <2>3, <2>6, <2>7, <2>8, <2>9 DEF Edits, InSave, Unborn, SpendInv
  <2> QED
    BY <2>10, EditsKeep
<1> QED
  BY <1>1, <1>2

LEMMA RequestResetKeepsSpent ==
  ASSUME SpendInv, NEW r \in Requests, requestPasswordReset(r)
  PROVE  SpendInv'
<1>1. CASE Answer(r, "ok") /\ Server /\ Maps /\ UNCHANGED past
  BY <1>1, GoKeeps DEF Answer, Server, Maps, Aside, SpendInv, InSave, Unborn
<1>2. CASE ~(Answer(r, "ok") /\ Server /\ Maps /\ UNCHANGED past)
  <2>1. PICK id : id = usersByEmail[Call(r).email]
    OBVIOUS
  <2>2. PICK user : user = [users[id] EXCEPT !.resetToken = r, !.resetFresh = TRUE]
    OBVIOUS
  <2>3. /\ Call(r).route = "requestReset" /\ req[r].pc = "admitted"
        /\ id \in DOMAIN users
        /\ users' = [users EXCEPT ![id] = user]
        /\ StartSave(r, id, user) /\ calls' = calls /\ rows' = rows
    BY <1>2, <2>1, <2>2 DEF requestPasswordReset, At, Server, Guards
  <2>4. PICK x : /\ req' = [req EXCEPT ![r] = x] /\ IsReq(x)
                 /\ x.pc = "saving" /\ x.id = id /\ x.row = user
                 /\ IsPast(past') /\ past'.accepted = past.accepted
                 /\ past.overlapped \subseteq past'.overlapped /\ past'.shared = past.shared
                 /\ SavingOf(id) # {} => id \in past'.overlapped
    BY <2>3, SaveStarts DEF SpendInv
  <2>5. IsUser(users[id])
    BY <2>3 DEF SpendInv, UsersFit, UserFits
  <2>6. Retokened(user, users[id], r)
    BY <2>2, <2>5, UserEdits
  <2>7. Puts(id, user)
    BY <2>3 DEF Puts
  <2>8. ~Spends(r)'
    BY <2>3 DEF Spends, Call
  <2>9. /\ Call(r).route = "requestReset" /\ req[r].pc \in Unborn
        /\ id \in DOMAIN users /\ calls' = calls /\ rows' = rows
    BY <2>3 DEF Unborn
  <2>10. Edits(r, x, user)
    BY <2>4, <2>6, <2>7, <2>8, <2>9 DEF Edits, InSave, Retokened
  <2> QED
    BY <2>10, EditsKeep
<1> QED
  BY <1>1, <1>2

LEMMA SetPasswordKeepsSpent ==
  ASSUME SpendInv, NEW r \in Requests, setPassword(r)
  PROVE  SpendInv'
<1>1. PICK id : id = req[r].id
  OBVIOUS
<1>2. PICK user : user = [users[id] EXCEPT !.hash = r, !.resetToken = None]
  OBVIOUS
<1>3. /\ Call(r).route = "resetPassword" /\ req[r].pc = "hashing"
      /\ users' = [users EXCEPT ![id] = user]
      /\ req' = [req EXCEPT ![r].pc = "saving", ![r].row = user]
      /\ calls' = calls /\ rows' = rows
  BY <1>1, <1>2 DEF setPassword, At, Server
<1>4. /\ IsPast(past') /\ past'.accepted = past.accepted
      /\ past.overlapped \subseteq past'.overlapped /\ past'.shared = past.shared
      /\ SavingOf(id) # {} => id \in past'.overlapped
  BY <1>1 DEF setPassword, SpendInv, IsPast
<1>5. id \in DOMAIN users /\ req[r].pc \in Unborn
  BY <1>1, <1>3 DEF SpendInv, IdFits, Unborn
<1>6. UserFits(id, users[id])
  BY <1>5 DEF SpendInv, UsersFit
<1>7. Retokened(user, users[id], None)
  BY <1>2, <1>6, UserEdits DEF UserFits
<1>8. PICK x : /\ req' = [req EXCEPT ![r] = x] /\ IsReq(x)
               /\ x.pc = "saving" /\ x.id = req[r].id /\ x.row = user
  BY <1>3, RowStarts DEF SpendInv
<1>9. Puts(id, user)
  BY <1>3, <1>5 DEF Puts
<1>10. Spends(r)' => TokenOf(r, id) /\ Gone(r, user) /\ AloneWith(r, id)
  <2> SUFFICES ASSUME Spends(r)' PROVE TokenOf(r, id) /\ Gone(r, user) /\ AloneWith(r, id)
    OBVIOUS
  <2>1. Call(r).proof # None /\ Spends(r) /\ FindsReset(r)
    BY <1>3, <1>4, <1>8 DEF Spends, Call, FindsReset, At
  <2>2. TokenOf(r, id) /\ AloneWith(r, id)
    BY <1>1, <2>1 DEF SpendInv, HashFits
  <2> QED
    BY <1>3, <1>7, <2>1, <2>2 DEF Retokened, Gone
<1>11. Edits(r, x, user)
  BY <1>1, <1>3, <1>4, <1>5, <1>7, <1>8, <1>9, <1>10 DEF Edits, InSave, Retokened
<1> QED
  BY <1>11, EditsKeep

LEMMA ChangeHashKeepsSpent ==
  ASSUME SpendInv, NEW r \in Requests, changeHash(r)
  PROVE  SpendInv'
<1>1. PICK id : id = req[r].id
  OBVIOUS
<1>2. PICK user : user = [users[id] EXCEPT !.hash = r]
  OBVIOUS
<1>3. /\ Call(r).route = "changePassword" /\ req[r].pc = "hashing"
      /\ users' = [users EXCEPT ![id] = user]
      /\ req' = [req EXCEPT ![r].pc = "saving", ![r].row = user]
      /\ calls' = calls /\ rows' = rows
  BY <1>1, <1>2 DEF changeHash, At, Server
<1>4. /\ IsPast(past') /\ past'.accepted = past.accepted
      /\ past.overlapped \subseteq past'.overlapped /\ past'.shared = past.shared
      /\ SavingOf(id) # {} => id \in past'.overlapped
  BY <1>1 DEF changeHash, SpendInv, IsPast
<1>5. id \in DOMAIN users /\ req[r].pc \in Unborn
  BY <1>1, <1>3 DEF SpendInv, IdFits, Unborn
<1>6. IsUser(users[id])
  BY <1>5 DEF SpendInv, UsersFit, UserFits
<1>7. SameTokens(user, users[id])
  BY <1>2, <1>6, UserEdits
<1>8. PICK x : /\ req' = [req EXCEPT ![r] = x] /\ IsReq(x)
               /\ x.pc = "saving" /\ x.id = req[r].id /\ x.row = user
  BY <1>3, RowStarts DEF SpendInv
<1>9. Puts(id, user)
  BY <1>3, <1>5 DEF Puts
<1>10. ~Spends(r)'
  BY <1>3 DEF Spends, Call
<1>11. Edits(r, x, user)
  BY <1>1, <1>3, <1>4, <1>5, <1>7, <1>8, <1>9, <1>10 DEF Edits, InSave, SameTokens
<1> QED
  BY <1>11, EditsKeep

-----------------------------------------------------------------------------
LEMMA WalletLoginKeepsSpent ==
  ASSUME SpendInv, NEW r \in Requests, walletLogin(r)
  PROVE  SpendInv'
<1>1. PICK id : id = usersByWallet[Call(r).wallet]
  OBVIOUS
<1>2. /\ Call(r).route = "walletLogin" /\ req[r].pc = "consumed"
      /\ calls' = calls /\ rows' = rows
  BY DEF walletLogin, At, Server
<1>3. req[r].pc \in Unborn /\ ~Spends(r)'
  BY <1>2 DEF Unborn, Spends, Call
<1>4. CASE id \in DOMAIN users
  <2>1. PICK user : /\ user = [users[id] EXCEPT !.admin = TRUE] \/ user = users[id]
                    /\ users' = [users EXCEPT ![id] = user]
                    /\ StartSave(r, id, user)
    BY <1>1, <1>4 DEF walletLogin
  <2>2. IsUser(users[id])
    BY <1>4 DEF SpendInv, UsersFit, UserFits
  <2>3. SameTokens(user, users[id])
    BY <2>1, <2>2, UserEdits DEF SameTokens
  <2>4. PICK x : /\ req' = [req EXCEPT ![r] = x] /\ IsReq(x)
                 /\ x.pc = "saving" /\ x.id = id /\ x.row = user
                 /\ IsPast(past') /\ past'.accepted = past.accepted
                 /\ past.overlapped \subseteq past'.overlapped /\ past'.shared = past.shared
                 /\ SavingOf(id) # {} => id \in past'.overlapped
    BY <2>1, SaveStarts DEF SpendInv
  <2>5. Puts(id, user)
    BY <1>4, <2>1 DEF Puts
  <2>6. Edits(r, x, user)
    BY <1>2, <1>3, <1>4, <2>3, <2>4, <2>5 DEF Edits, InSave, SameTokens
  <2> QED
    BY <2>6, EditsKeep
<1>5. CASE id \notin DOMAIN users
  <2>1. PICK new : new = NewUser(Call(r).email, "wallet")
    OBVIOUS
  <2>2. PICK a : a = isAdminWallet(Call(r).wallet)
    OBVIOUS
  <2>3. PICK w : w = Call(r).wallet
    OBVIOUS
  <2>4. PICK user : user = [new EXCEPT !.verified = TRUE, !.wallet = w, !.admin = a]
    OBVIOUS
  <2>5. IsUser(new) /\ new.resetToken = None /\ new.verifyToken = FALSE
    BY <2>1 DEF NewUser, IsUser
  <2>6. IsUser(user) /\ user.resetToken = None /\ user.verifyToken = FALSE
    BY ONLY <2>4, <2>5 DEF IsUser
  <2>7. /\ users' = With(users, r, user)
        /\ StartStore(r, r)
        /\ past' = [past EXCEPT !.lastWallet = With(@, r, w)]
    BY <1>1, <1>5, <2>1, <2>2, <2>3, <2>4 DEF walletLogin
  <2>8. PICK x : req' = [req EXCEPT ![r] = x] /\ IsReq(x) /\ x.pc = "storing" /\ x.id = r
    BY <2>7, StoreStarts DEF SpendInv
  <2>9. /\ IsPast(past') /\ past'.accepted = past.accepted
        /\ past'.overlapped = past.overlapped /\ past'.shared = past.shared
    BY <2>7 DEF SpendInv, IsPast
  <2>10. Puts(r, user)
    BY <2>7 DEF Puts, With
  <2>11. Edits(r, x, user)
    BY <1>2, <1>3, <2>6, <2>8, <2>9, <2>10 DEF Edits, InSave
  <2> QED
    BY <2>11, EditsKeep
<1> QED
  BY <1>4, <1>5

LEMMA LinkWalletKeepsSpent ==
  ASSUME SpendInv, NEW r \in Requests, linkWallet(r)
  PROVE  SpendInv'
<1>1. CASE Refuse(r)
  BY <1>1, GoKeeps DEF Refuse, Answer, Server, Maps, Aside, SpendInv, InSave, Unborn
<1>2. CASE ~Refuse(r)
  <2>1. PICK id : id = req[r].held
    OBVIOUS
  <2>2. PICK w : w = Call(r).wallet
    OBVIOUS
  <2>3. /\ Call(r).route = "linkWallet" /\ req[r].pc = "admitted"
        /\ id \in DOMAIN users /\ calls' = calls /\ rows' = rows
        /\ users' = [users EXCEPT ![id].wallet = w, ![id].admin = isAdminWallet(w) \/ @]
        /\ StartStore(r, id)
    BY <1>2, <2>1, <2>2 DEF linkWallet, At, Server
  <2>4. /\ IsPast(past') /\ past'.accepted = past.accepted
        /\ past'.overlapped = past.overlapped /\ past'.shared = past.shared
    BY <1>2 DEF linkWallet, SpendInv, IsPast
  <2>5. PICK old : old = users[id]
    OBVIOUS
  <2>6. PICK a : a = (isAdminWallet(w) \/ old.admin)
    OBVIOUS
  <2>7. PICK linked : linked = [old EXCEPT !.wallet = w]
    OBVIOUS
  <2>8. IsUser(old)
    BY <2>3, <2>5 DEF SpendInv, UsersFit, UserFits
  <2>9. SameTokens(linked, old) /\ linked.admin = old.admin
    BY ONLY <2>7, <2>8 DEF SameTokens, IsUser
  <2>10. PICK user : user = [linked EXCEPT !.admin = a]
    OBVIOUS
  <2>11. SameTokens(user, old)
    BY ONLY <2>9, <2>10 DEF SameTokens, IsUser
  <2>12. users' = [[users EXCEPT ![id] = linked] EXCEPT
                     ![id] = [linked EXCEPT !.admin = isAdminWallet(w) \/ linked.admin]]
    BY <2>3, <2>5, <2>7
  <2>13. Puts(id, user)
    BY <2>3, <2>6, <2>9, <2>10, <2>12 DEF Puts
  <2>14. PICK x : req' = [req EXCEPT ![r] = x] /\ IsReq(x) /\ x.pc = "storing" /\ x.id = id
    BY <2>3, StoreStarts DEF SpendInv
  <2>15. ~Spends(r)'
    BY <2>3 DEF Spends, Call
  <2>16. /\ Call(r).route = "linkWallet" /\ req[r].pc \in Unborn
         /\ id \in DOMAIN users /\ calls' = calls /\ rows' = rows
    BY <2>3 DEF Unborn
  <2>17. Edits(r, x, user)
    BY <2>4, <2>5, <2>11, <2>13, <2>14, <2>15, <2>16 DEF Edits, InSave, SameTokens
  <2> QED
    BY <2>17, EditsKeep
<1> QED
  BY <1>1, <1>2

LEMMA CommitKeepsSpent ==
  ASSUME SpendInv, NEW r \in Requests, CommitUser(r)
  PROVE  SpendInv'
<1>1. CASE Conflicts(req[r].row, req[r].id)
  BY <1>1, GoKeeps DEF CommitUser, Answer, Maps, Aside, SpendInv, InSave, Unborn
<1>2. CASE ~Conflicts(req[r].row, req[r].id)
  <2>1. Written(r)
    BY <1>2 DEF CommitUser, Written, Answer, Maps
  <2> QED
    BY <2>1, WrittenKeeps
<1> QED
  BY <1>1, <1>2

LEMMA AccountsStepKeepsSpent ==
  ASSUME SpendInv, AccountsNext
  PROVE  SpendInv'
<1>1. ASSUME NEW r \in Requests, ServerStep(r) PROVE SpendInv'
  BY <1>1, AnswersKeep, RefreshKeepsSpent, StoreSavedKeepsSpent, CreateKeepsSpent,
     VerifyKeepsSpent, RequestResetKeepsSpent, SetPasswordKeepsSpent, ChangeHashKeepsSpent,
     WalletLoginKeepsSpent, LinkWalletKeepsSpent, CommitKeepsSpent DEF ServerStep
<1>2. ASSUME MinutePasses PROVE SpendInv'
  <2>1. /\ calls' = calls /\ req' = req /\ users' = users /\ rows' = rows
        /\ past' = [past EXCEPT !.doubtful = @ \cup
                      {sig \in DOMAIN usedSignatures.redis : LapsesEarly(sig)}]
    BY <1>2 DEF MinutePasses, Maps
  <2>2. /\ IsPast(past') /\ past'.accepted = past.accepted
        /\ past'.overlapped = past.overlapped /\ past'.shared = past.shared
    BY <2>1 DEF SpendInv, IsPast
  <2>3. Reloads
    BY <2>1, <2>2 DEF Reloads, SpendInv, ReqTyped, UsersFit, UserFits, Unborn
  <2> QED
    BY <2>3, ReloadsKeep
<1> QED
  BY <1>1, <1>2, BrowserKeepsSpent, ExpireKeeps, RestartKeeps DEF AccountsNext

-----------------------------------------------------------------------------
(* The accounts: signatures and refresh tokens                               *)

\* A login gets on with a signature nobody has used, and uses it.
Passed(r) ==
  Call(r).route = "walletLogin" /\ (req[r].pc \in {"consumed"} \cup InSave \/ past.accepted[r] # None)

Checking(r) == At(r, "walletLogin", "checked")

\* Nobody else gets on with it: its marker is there, or its message is too old and
\* no check of it is on its way to Redis.
Kept(sig) ==
  /\ sig \in DOMAIN usedSignatures.redis /\ usedSignatures.redis[sig] \in Nat
  /\ \/ usedSignatures.redis[sig] > clock
     \/ TooOld(sig, clock) /\ \A q \in Requests : Checking(q) => Call(q).proof # sig

SignaturesFit ==
  \A r \in Requests :
    Passed(r) /\ Call(r).proof \notin past.doubtful =>
      /\ Kept(Call(r).proof)
      /\ \A q \in Requests : Passed(q) /\ Call(q).proof = Call(r).proof => q = r

ClockFits ==
  /\ clock \in Nat
  /\ \A r \in Requests : Call(r).route = "walletLogin" => IssuedAt[Call(r).proof] \in Nat

StoresTyped ==
  /\ usedSignatures = [redis |-> usedSignatures.redis, memory |-> usedSignatures.memory]
  /\ revokedTokens = [redis |-> revokedTokens.redis, memory |-> revokedTokens.memory]

RevokedFits == past.revoked \subseteq revokedTokens.redis /\ past.revived = FALSE

SignInv == StoresTyped /\ ClockFits /\ SignaturesFit /\ RevokedFits

LEMMA SignStarts == AccountsInit /\ calls # << >> => SignInv
<1> SUFFICES ASSUME AccountsInit, calls # << >> PROVE SignInv
  OBVIOUS
<1>1. /\ req = [r \in Requests |-> [pc |-> "idle", id |-> None, held |-> None, row |-> None,
                                    aborted |-> FALSE]]
      /\ past = [accepted |-> [r \in Requests |-> None], overlapped |-> {}, raced |-> {},
             relinked |-> {}, lastHash |-> << >>, lastWallet |-> << >>, ended |-> {},
             revoked |-> {}, revived |-> FALSE, out |-> {}, alone |-> {}, doubtful |-> {},
             shared |-> {}]
      /\ usedSignatures = [redis |-> << >>, memory |-> << >>]
      /\ clock = 1
      /\ revokedTokens = [redis |-> {}, memory |-> {}]
  BY DEF AccountsInit
<1>2. StoresTyped /\ RevokedFits
  BY <1>1 DEF StoresTyped, RevokedFits
<1>3. \A r \in Requests : ~Passed(r)
  BY <1>1 DEF Passed, InSave
<1>4. ClockFits
  <2>1. PICK s \in Stories : calls = s.calls
    BY DEF AccountsInit
  <2>2. \A r \in Requests : Call(r).route = "walletLogin" => IssuedAt[Call(r).proof] \in Nat
    BY <2>1, StoriesAssumption DEF Call
  <2> QED
    BY <1>1, <2>2 DEF ClockFits
<1> QED
  BY <1>2, <1>3, <1>4 DEF SignInv, SignaturesFit

\* Steps that let no new request up to the signature check, or past it.
NonePasses ==
  /\ calls' = calls /\ past.doubtful \subseteq past'.doubtful
  /\ clock' = clock /\ usedSignatures'.redis = usedSignatures.redis
  /\ StoresTyped' /\ RevokedFits'
  /\ \A r \in Requests : (Passed(r)' => Passed(r)) /\ (Checking(r)' => Checking(r))

LEMMA NonePassesKeeps == SignInv /\ NonePasses => SignInv'
<1> SUFFICES ASSUME SignInv, NonePasses PROVE SignInv'
  OBVIOUS
<1>1. \A sig : Kept(sig) => Kept(sig)'
  BY DEF NonePasses, Kept, TooOld, Call
<1>2. SignaturesFit'
  BY <1>1 DEF SignInv, NonePasses, SignaturesFit, Call
<1> QED
  BY <1>2 DEF SignInv, NonePasses, ClockFits, Call

\* The history a step of a request leaves alone.
SameSigns(r) ==
  /\ \A q \in Requests \ {r} : past'.accepted[q] = past.accepted[q]
  /\ past.doubtful \subseteq past'.doubtful
  /\ past'.revoked = past.revoked /\ past'.revived = past.revived
  /\ usedSignatures' = usedSignatures /\ revokedTokens' = revokedTokens /\ clock' = clock

LEMMA StepSigns ==
  ASSUME IsPast(past), NEW r \in Requests, ServerStep(r),
         ~(checkMessage(r) \/ consumeWalletLoginSignature(r) \/ refresh(r) \/ logout(r))
  PROVE  SameSigns(r)
<1> DEFINE Unused == /\ usedSignatures' = usedSignatures /\ revokedTokens' = revokedTokens
                     /\ clock' = clock
<1>1. ASSUME past' = past, Unused PROVE SameSigns(r)
  BY <1>1 DEF SameSigns
<1>2. ASSUME Refuse(r) PROVE SameSigns(r)
  BY <1>1, <1>2 DEF Refuse, Guards
<1>3. ASSUME NEW where, NEW id, NEW held, Wait(r, where, id, held) PROVE SameSigns(r)
  BY <1>1, <1>3 DEF Wait, Guards
<1>4. ASSUME NEW id, NEW user, StartSave(r, id, user), Unused PROVE SameSigns(r)
  <2>1. CASE past' = past
    BY <1>1, <1>4, <2>1
  <2>2. CASE past' = [past EXCEPT !.overlapped = @ \cup {id}]
    BY <1>4, <2>2 DEF SameSigns, IsPast
  <2> QED
    BY <1>4, <2>1, <2>2 DEF StartSave
<1>5. CASE Admit(r) \/ FailSave(r)
  BY <1>1, <1>5 DEF Admit, FailSave, Guards
<1>6. CASE register(r) \/ login(r) \/ changePassword(r) \/ checkPassword(r)
  BY <1>2, <1>3, <1>6 DEF register, login, changePassword, checkPassword
<1>7. CASE StoreSaved(r)
  BY <1>4, <1>7 DEF StoreSaved, Guards
<1>8. CASE CommitUser(r)
  <2>1. CASE past' = past
    BY <1>1, <1>8, <2>1 DEF CommitUser, Guards
  <2>2. CASE past' = [past EXCEPT !.accepted[r] = Call(r).proof, !.ended = @ \cup {r}]
    BY <1>8, <2>2 DEF CommitUser, Guards, SameSigns, IsPast
  <2> QED
    BY <1>8, <2>1, <2>2 DEF CommitUser
<1>9. CASE createUser(r)
  BY <1>9 DEF createUser, Guards, SameSigns, IsPast
<1>10. CASE signIn(r)
  BY <1>1, <1>2, <1>10 DEF signIn, Guards
<1>11. CASE verifyEmail(r)
  BY <1>1, <1>2, <1>11 DEF verifyEmail, Guards
<1>12. CASE requestPasswordReset(r)
  BY <1>1, <1>4, <1>12 DEF requestPasswordReset, Guards
<1>13. CASE setPassword(r)
  BY <1>13 DEF setPassword, Guards, SameSigns, IsPast
<1>14. CASE changeHash(r)
  BY <1>14 DEF changeHash, Guards, SameSigns, IsPast
<1>15. CASE walletLogin(r)
  <2>1. Unused
    BY <1>15 DEF walletLogin, Guards
  <2>2. CASE past' = [past EXCEPT !.lastWallet = With(@, r, Call(r).wallet)]
    BY <2>1, <2>2 DEF SameSigns, IsPast
  <2> QED
    BY <1>4, <1>15, <2>1, <2>2 DEF walletLogin
<1>16. CASE linkWallet(r)
  <2>1. CASE Refuse(r)
    BY <1>2, <2>1
  <2>2. CASE ~Refuse(r)
    BY <1>16, <2>2 DEF linkWallet, Guards, SameSigns, IsPast
  <2> QED
    BY <2>1, <2>2
<1>17. CASE resetPassword(r)
  <2>1. CASE Refuse(r)
    BY <1>2, <2>1
  <2>2. CASE ~Refuse(r)
    BY <1>1, <1>17, <2>2 DEF resetPassword, Guards, SameSigns, IsPast
  <2> QED
    BY <2>1, <2>2
<1> QED
  BY <1>5, <1>6, <1>7, <1>8, <1>9, <1>10, <1>11, <1>12, <1>13, <1>14, <1>15, <1>16, <1>17
  DEF ServerStep

\* A login that has not passed yet is let in, or is checked.
LEMMA PassedBefore ==
  ASSUME OutInv, NEW r \in Requests, ServerStep(r), ~checkMessage(r),
         ~consumeWalletLoginSignature(r),
         \A q \in Requests \ {r} : past'.accepted[q] = past.accepted[q]
  PROVE  \A q \in Requests : (Passed(q)' => Passed(q)) /\ (Checking(q)' => Checking(q))
<1>1. calls' = calls
  BY ServerGoesOn DEF OutInv
<1>2. \A q \in Requests \ {r} : req'[q] = req[q]
  <2>1. PICK x : Onward(r, x)
    BY ServerGoesOn DEF OutInv
  <2> QED
    BY <2>1 DEF Onward, OutInv, AccountsTyped, ReqTyped
<1>3. \A q \in Requests \ {r} : (Passed(q)' => Passed(q)) /\ (Checking(q)' => Checking(q))
  BY <1>1, <1>2 DEF Passed, Checking, At, Call
<1>4. ASSUME Passed(r)', ~Passed(r) PROVE FALSE
  <2>1. Call(r).route = "walletLogin"
    BY <1>1, <1>4 DEF Passed, Call
  <2>2. req[r].pc \notin {"consumed", "storing", "saving"} /\ ~(past.accepted[r] # None)
    BY <1>4, <2>1 DEF Passed, InSave
  <2>3. Admit(r)
    BY <2>1, <2>2 DEF ServerStep, StoreSaved, CommitUser, FailSave, At, register, createUser,
       login, signIn, verifyEmail, requestPasswordReset, resetPassword, setPassword,
       changePassword, checkPassword, changeHash, walletLogin, linkWallet, refresh, logout
  <2>4. past' = past /\ (Go(r, "refused") \/ Go(r, "admitted"))
    BY <2>3 DEF Admit
  <2>5. req'[r].pc \in {"refused", "admitted"}
    BY <2>4 DEF Go, OutInv, AccountsTyped, ReqTyped, IsReq
  <2> QED
    BY <1>4, <2>2, <2>4, <2>5 DEF Passed, InSave
<1>5. ~Checking(r)'
  <2> SUFFICES ASSUME Checking(r)' PROVE FALSE
    OBVIOUS
  <2>1. Call(r).route = "walletLogin" /\ req'[r].pc = "checked"
    BY <1>1 DEF Checking, At, Call
  <2>2. Admit(r) \/ StoreSaved(r) \/ CommitUser(r) \/ FailSave(r) \/ walletLogin(r)
    BY <2>1 DEF ServerStep, At, register, createUser,
       login, signIn, verifyEmail, requestPasswordReset, resetPassword, setPassword,
       changePassword, checkPassword, changeHash, linkWallet, refresh, logout
  <2>3. ASSUME NEW where, Go(r, where) PROVE where = "checked"
    BY <2>1, <2>3 DEF Go, OutInv, AccountsTyped, ReqTyped, IsReq
  <2>4. ASSUME NEW id, NEW user, StartSave(r, id, user) PROVE FALSE
    <3>1. \E x : req' = [req EXCEPT ![r] = x] /\ x.pc = "saving"
      BY <2>4, SaveStarts DEF OutInv, AccountsTyped
    <3> QED
      BY <2>1, <3>1 DEF OutInv, AccountsTyped, ReqTyped
  <2>5. ASSUME NEW id, StartStore(r, id) PROVE FALSE
    <3>1. \E x : req' = [req EXCEPT ![r] = x] /\ x.pc = "storing"
      BY <2>5, StoreStarts DEF OutInv, AccountsTyped
    <3> QED
      BY <2>1, <3>1 DEF OutInv, AccountsTyped, ReqTyped
  <2>6. CASE Admit(r) \/ CommitUser(r) \/ FailSave(r)
    BY <2>3, <2>6 DEF Admit, CommitUser, FailSave, Answer, Outcome
  <2>7. CASE StoreSaved(r)
    BY <2>4, <2>7 DEF StoreSaved
  <2>8. CASE walletLogin(r)
    BY <2>4, <2>5, <2>8 DEF walletLogin
  <2> QED
    BY <2>2, <2>6, <2>7, <2>8
<1> QED
  BY <1>3, <1>4, <1>5

LEMMA ServerKeepsSigns ==
  ASSUME OutInv, SpendInv, SignInv, NEW r \in Requests, ServerStep(r)
  PROVE  SignInv'
<1>1. IsPast(past) /\ calls' = calls
  BY ServerGoesOn DEF OutInv, AccountsTyped
<1>2. CASE consumeWalletLoginSignature(r)
  <2>1. PICK sig : sig = Call(r).proof
    OBVIOUS
  <2>2. /\ Call(r).route = "walletLogin" /\ req[r].pc = "checked"
        /\ revokedTokens' = revokedTokens /\ clock' = clock
        /\ \/ /\ usedSignatures' = [usedSignatures EXCEPT !.redis = Marked(@, sig)]
              /\ Go(r, IF Spent(usedSignatures.redis, sig) THEN "refused" ELSE "consumed")
              /\ past' = past
           \/ /\ usedSignatures' = [usedSignatures EXCEPT !.memory = Marked(@, sig)]
              /\ Go(r, IF Spent(usedSignatures.memory, sig) THEN "refused" ELSE "consumed")
              /\ past' = [past EXCEPT !.doubtful = @ \cup {sig}]
    BY <1>2, <2>1 DEF consumeWalletLoginSignature, At, Answer
  <2>3. /\ past'.accepted = past.accepted /\ past.doubtful \subseteq past'.doubtful
        /\ past'.revoked = past.revoked /\ past'.revived = past.revived
    BY <1>1, <2>2 DEF IsPast
  <2>4. StoresTyped'
    BY <2>2 DEF SignInv, StoresTyped
  <2>5. RevokedFits'
    BY <2>2, <2>3 DEF SignInv, RevokedFits
  <2>6. \A q \in Requests \ {r} : req'[q] = req[q]
    BY <2>2 DEF Go, OutInv, AccountsTyped, ReqTyped
  <2>7. \A q \in Requests \ {r} : Passed(q)' => Passed(q)
    BY <1>1, <2>3, <2>6 DEF Passed, Call
  <2>8. past.accepted[r] = None
    BY <2>2 DEF SpendInv, AcceptedFits, Unborn
  <2>9. req'[r].pc \in {"refused", "consumed"}
    BY <2>2 DEF Go, OutInv, AccountsTyped, ReqTyped, IsReq
  <2>10. \A q \in Requests : Checking(q)' => Checking(q) /\ q # r
    BY <1>1, <2>6, <2>9 DEF Checking, At, Call
  <2>11. ClockFits'
    BY <1>1, <2>2 DEF SignInv, ClockFits, Call
  <2>12. ASSUME NEW other, Kept(other), usedSignatures'.redis[other] = usedSignatures.redis[other],
                other \in DOMAIN usedSignatures'.redis
         PROVE  Kept(other)'
    BY <1>1, <2>2, <2>10, <2>12 DEF Kept, TooOld, Call
  <2>13. CASE past' = [past EXCEPT !.doubtful = @ \cup {sig}] /\ usedSignatures'.redis = usedSignatures.redis
    <3>1. sig \in past'.doubtful
      BY <1>1, <2>13 DEF IsPast
    <3>2. \A other : Kept(other) => Kept(other)'
      BY <2>12, <2>13 DEF Kept
    <3>3. SignaturesFit'
      BY <1>1, <2>1, <2>3, <2>7, <3>1, <3>2 DEF SignInv, SignaturesFit, Call
    <3> QED
      BY <2>4, <2>5, <2>11, <3>3 DEF SignInv
  <2>14. CASE /\ past' = past /\ usedSignatures' = [usedSignatures EXCEPT !.redis = Marked(@, sig)]
              /\ Go(r, IF Spent(usedSignatures.redis, sig) THEN "refused" ELSE "consumed")
    <3>1. usedSignatures'.redis = Marked(usedSignatures.redis, sig)
      BY <2>14 DEF SignInv, StoresTyped
    <3>2. CASE Spent(usedSignatures.redis, sig)
      <4>1. usedSignatures'.redis = usedSignatures.redis
        BY <3>1, <3>2 DEF Marked
      <4>2. req'[r].pc = "refused"
        BY <2>14, <3>2 DEF Go, OutInv, AccountsTyped, ReqTyped, IsReq
      <4>3. ~Passed(r)'
        BY <2>3, <2>8, <4>2 DEF Passed, InSave
      <4>4. NonePasses
        BY <1>1, <2>2, <2>3, <2>4, <2>5, <2>7, <2>10, <4>1, <4>3 DEF NonePasses
      <4> QED
        BY <4>4, NonePassesKeeps
    <3>3. CASE ~Spent(usedSignatures.redis, sig)
      <4>1. usedSignatures'.redis = With(usedSignatures.redis, sig, clock + WALLET_LOGIN_WINDOW_MS)
        BY <3>1, <3>3 DEF Marked
      <4>2. /\ DOMAIN usedSignatures'.redis = DOMAIN usedSignatures.redis \cup {sig}
            /\ usedSignatures'.redis[sig] = clock + WALLET_LOGIN_WINDOW_MS
            /\ \A other \in DOMAIN usedSignatures.redis \ {sig} :
                 usedSignatures'.redis[other] = usedSignatures.redis[other]
        BY <4>1 DEF With
      <4>3. clock \in Nat /\ WALLET_LOGIN_WINDOW_MS \in Nat \ {0}
        BY WindowAssumption DEF SignInv, ClockFits
      <4>4. Kept(sig)'
        BY <2>2, <4>2, <4>3 DEF Kept
      <4>5. ~Kept(sig)
        BY <2>1, <2>2, <3>3 DEF Kept, Spent, Checking, At
      <4>6. \A other : Kept(other) => Kept(other)' /\ other # sig
        BY <2>12, <4>2, <4>5 DEF Kept
      <4>7. \A q \in Requests \ {r} : Passed(q) /\ Call(q).proof \notin past.doubtful => Call(q).proof # sig
        BY <4>6 DEF SignInv, SignaturesFit
      <4>8. SignaturesFit'
        BY <1>1, <2>1, <2>7, <2>14, <4>4, <4>6, <4>7 DEF SignInv, SignaturesFit, Call
      <4> QED
        BY <2>4, <2>5, <2>11, <4>8 DEF SignInv
    <3> QED
      BY <3>2, <3>3
  <2>15. CASE /\ usedSignatures' = [usedSignatures EXCEPT !.memory = Marked(@, sig)]
              /\ past' = [past EXCEPT !.doubtful = @ \cup {sig}]
    <3>1. usedSignatures'.redis = usedSignatures.redis
      BY <2>15 DEF SignInv, StoresTyped
    <3> QED
      BY <2>13, <2>15, <3>1
  <2> QED
    BY <2>2, <2>14, <2>15
<1>3. CASE refresh(r)
  <2>1. /\ usedSignatures' = usedSignatures /\ revokedTokens' = revokedTokens /\ clock' = clock
        /\ req[r].pc = "admitted" /\ Call(r).route = "refresh"
    BY <1>3 DEF refresh, At, Guards
  <2>2. PICK token : token = req[r].held
    OBVIOUS
  <2>3. \/ past' = past
        \/ /\ token \notin revokedTokens.redis
           /\ past' = [past EXCEPT !.revived = @ \/ token \in past.revoked]
    BY <1>3, <2>2 DEF refresh, isRefreshTokenRevoked
  <2>4. past.revived = FALSE /\ (token \in past.revoked => token \in revokedTokens.redis)
    BY DEF SignInv, RevokedFits
  <2>5. /\ past'.accepted = past.accepted /\ past'.doubtful = past.doubtful
        /\ past'.revoked = past.revoked
    BY <1>1, <2>3 DEF IsPast
  <2>6. past'.revived = FALSE
    <3>1. CASE /\ token \notin revokedTokens.redis
               /\ past' = [past EXCEPT !.revived = @ \/ token \in past.revoked]
      <4>1. past'.revived = (past.revived \/ token \in past.revoked)
        BY <1>1, <3>1 DEF IsPast
      <4> QED
        BY <2>4, <3>1, <4>1
    <3> QED
      BY <2>3, <2>4, <3>1
  <2>7. RevokedFits' /\ StoresTyped'
    BY <2>1, <2>5, <2>6 DEF SignInv, RevokedFits, StoresTyped
  <2>8. \A q \in Requests : (Passed(q)' => Passed(q)) /\ (Checking(q)' => Checking(q))
    BY <2>1, <2>5, PassedBefore DEF consumeWalletLoginSignature, checkMessage, At
  <2>9. NonePasses
    BY <1>1, <2>1, <2>5, <2>7, <2>8 DEF NonePasses
  <2> QED
    BY <2>9, NonePassesKeeps
<1>4. CASE logout(r)
  <2>1. PICK token : token = req[r].held
    OBVIOUS
  <2>2. /\ usedSignatures' = usedSignatures /\ clock' = clock
        /\ req[r].pc = "admitted" /\ Call(r).route = "logout"
        /\ \/ /\ revokedTokens' = IF token = None THEN revokedTokens
                                  ELSE [revokedTokens EXCEPT !.redis = @ \cup {token}]
              /\ past' = [past EXCEPT !.revoked = (@ \cup {token}) \ {None}]
           \/ /\ revokedTokens' = [revokedTokens EXCEPT !.memory = @ \cup {token}]
              /\ past' = past
    BY <1>4, <2>1 DEF logout, At
  <2>3. /\ past'.accepted = past.accepted /\ past'.doubtful = past.doubtful
        /\ past'.revived = past.revived
    BY <1>1, <2>2 DEF IsPast
  <2>4. StoresTyped'
    BY <2>2 DEF SignInv, StoresTyped
  <2>5. past'.revoked \subseteq revokedTokens'.redis
    BY <1>1, <2>2 DEF IsPast, SignInv, StoresTyped, RevokedFits
  <2>6. RevokedFits'
    BY <2>3, <2>5 DEF SignInv, RevokedFits
  <2>7. \A q \in Requests : (Passed(q)' => Passed(q)) /\ (Checking(q)' => Checking(q))
    BY <2>2, <2>3, PassedBefore DEF consumeWalletLoginSignature, checkMessage, At
  <2>8. NonePasses
    BY <1>1, <2>2, <2>3, <2>4, <2>6, <2>7 DEF NonePasses
  <2> QED
    BY <2>8, NonePassesKeeps
<1>5. CASE ~(checkMessage(r) \/ consumeWalletLoginSignature(r) \/ refresh(r) \/ logout(r))
  <2>1. SameSigns(r)
    BY <1>1, <1>5, StepSigns
  <2>2. \A q \in Requests : (Passed(q)' => Passed(q)) /\ (Checking(q)' => Checking(q))
    BY <1>5, <2>1, PassedBefore DEF SameSigns
  <2>3. NonePasses
    BY <1>1, <2>1, <2>2 DEF SameSigns, NonePasses, SignInv, StoresTyped, RevokedFits
  <2> QED
    BY <2>3, NonePassesKeeps
<1>6. CASE checkMessage(r)
  <2>1. PICK sig : sig = Call(r).proof
    OBVIOUS
  <2>2. PICK where \in {"refused", "checked"} :
          Go(r, where) /\ (where = "checked" => ~TooOld(sig, clock))
    BY <1>6, <2>1 DEF checkMessage, Refuse, Answer
  <2>3. /\ past' = past /\ clock' = clock /\ req[r].pc = "admitted"
        /\ usedSignatures' = usedSignatures /\ revokedTokens' = revokedTokens
    BY <1>6 DEF checkMessage, Refuse, Guards, At
  <2>4. /\ \A q \in Requests \ {r} : req'[q] = req[q]
        /\ req'[r].pc = where
    BY <2>2 DEF Go, OutInv, AccountsTyped, ReqTyped, IsReq
  <2>5. \A q \in Requests : Passed(q)' => Passed(q)
    BY <1>1, <2>2, <2>3, <2>4 DEF Passed, Call, InSave
  <2>6. \A q \in Requests : Checking(q)' => Checking(q) \/ (q = r /\ ~TooOld(sig, clock))
    BY <1>1, <2>2, <2>4 DEF Checking, At, Call
  <2>7. \A other : Kept(other) => Kept(other)'
    BY <1>1, <2>1, <2>3, <2>6 DEF Kept, TooOld, Call
  <2>8. SignaturesFit'
    BY <1>1, <2>3, <2>5, <2>7 DEF SignInv, SignaturesFit, Call
  <2> QED
    BY <1>1, <2>3, <2>8 DEF SignInv, StoresTyped, RevokedFits, ClockFits, Call
<1> QED
  BY <1>2, <1>3, <1>4, <1>5, <1>6

LEMMA AccountsStepKeepsSigns ==
  ASSUME OutInv, SpendInv, SignInv, AccountsNext
  PROVE  SignInv'
<1>1. ReqTyped /\ IsPast(past)
  BY DEF OutInv, AccountsTyped
<1>2. ASSUME past'.accepted = past.accepted, past'.doubtful = past.doubtful,
             past'.revoked = past.revoked, past'.revived = past.revived,
             usedSignatures' = usedSignatures, revokedTokens' = revokedTokens, calls' = calls,
             clock' = clock,
             \A q \in Requests : req'[q].pc \in {"checked", "consumed", "storing", "saving"}
                                 => req'[q].pc = req[q].pc
      PROVE  SignInv'
  <2>1. \A q \in Requests : (Passed(q)' => Passed(q)) /\ (Checking(q)' => Checking(q))
    BY <1>2 DEF Passed, Checking, At, Call, InSave
  <2>2. NonePasses
    BY <1>2, <2>1 DEF NonePasses, SignInv, StoresTyped, RevokedFits
  <2> QED
    BY <2>2, NonePassesKeeps
<1>3. ASSUME NEW r \in Requests, Send(r) PROVE SignInv'
  <2>1. PICK held : req' = [req EXCEPT ![r].pc = "sent", ![r].held = held]
    BY <1>3 DEF Send
  <2>2. \A q \in Requests \ {r} : req'[q] = req[q]
    BY <1>1, <2>1 DEF ReqTyped
  <2>3. req'[r].pc = "sent"
    BY <1>1, <2>1 DEF ReqTyped, IsReq
  <2>4. /\ past'.accepted = past.accepted /\ past'.doubtful = past.doubtful
        /\ past'.revoked = past.revoked /\ past'.revived = past.revived
    BY <1>1, <1>3 DEF Send, IsPast
  <2> QED
    BY <1>2, <1>3, <2>2, <2>3, <2>4 DEF Send, serverVars
<1>4. ASSUME NEW r \in Requests, Receive(r) PROVE SignInv'
  <2>1. req' = [req EXCEPT ![r].pc = "received"]
    BY <1>4 DEF Receive, Go
  <2>2. \A q \in Requests \ {r} : req'[q] = req[q]
    BY <1>1, <2>1 DEF ReqTyped
  <2>3. req'[r].pc = "received"
    BY <1>1, <2>1 DEF ReqTyped, IsReq
  <2>4. /\ past'.accepted = past.accepted /\ past'.doubtful = past.doubtful
        /\ past'.revoked = past.revoked /\ past'.revived = past.revived
    BY <1>1, <1>4 DEF Receive, IsPast
  <2> QED
    BY <1>2, <1>4, <2>2, <2>3, <2>4 DEF Receive, serverVars
<1>5. ASSUME NEW r \in Requests, TimeOut(r) PROVE SignInv'
  <2>1. req' = [req EXCEPT ![r].aborted = TRUE]
    BY <1>5 DEF TimeOut
  <2>2. \A q \in Requests \ {r} : req'[q] = req[q]
    BY <1>1, <2>1 DEF ReqTyped
  <2>3. req'[r].pc = req[r].pc
    BY <1>1, <2>1 DEF ReqTyped, IsReq
  <2> QED
    BY <1>2, <1>5, <2>2, <2>3 DEF TimeOut, serverVars
<1>6. ASSUME NEW id, Expire(id) PROVE SignInv'
  BY <1>2, <1>6 DEF Expire, Guards
<1>7. ASSUME Restart PROVE SignInv'
  <2>1. /\ calls' = calls /\ clock' = clock
        /\ usedSignatures' = [usedSignatures EXCEPT !.memory = << >>]
        /\ revokedTokens' = [revokedTokens EXCEPT !.memory = {}]
        /\ req' = [r \in Requests |-> IF InServer(r) THEN [req[r] EXCEPT !.pc = "failed"] ELSE req[r]]
        /\ past' = [past EXCEPT !.raced = {}, !.relinked = {}]
    BY <1>7 DEF Restart
  <2>2. /\ past'.accepted = past.accepted /\ past'.doubtful = past.doubtful
        /\ past'.revoked = past.revoked /\ past'.revived = past.revived
    BY <1>1, <2>1 DEF IsPast
  <2>3. /\ usedSignatures'.redis = usedSignatures.redis /\ revokedTokens'.redis = revokedTokens.redis
        /\ StoresTyped'
    BY <2>1 DEF SignInv, StoresTyped
  <2>4. \A q \in Requests : req'[q].pc = "failed" \/ req'[q] = req[q]
    BY <1>1, <2>1 DEF ReqTyped, IsReq
  <2>5. \A q \in Requests : (Passed(q)' => Passed(q)) /\ (Checking(q)' => Checking(q))
    BY <2>1, <2>2, <2>4 DEF Passed, Checking, At, Call, InSave
  <2>6. NonePasses
    BY <2>1, <2>2, <2>3, <2>5 DEF NonePasses, SignInv, RevokedFits
  <2> QED
    BY <2>6, NonePassesKeeps
<1>8. ASSUME MinutePasses PROVE SignInv'
  <2>1. /\ calls' = calls /\ req' = req /\ clock' = clock + 1
        /\ usedSignatures' = usedSignatures /\ revokedTokens' = revokedTokens
        /\ past' = [past EXCEPT !.doubtful = @ \cup
                      {sig \in DOMAIN usedSignatures.redis : LapsesEarly(sig)}]
    BY <1>8 DEF MinutePasses
  <2>2. /\ past'.accepted = past.accepted
        /\ past'.revoked = past.revoked /\ past'.revived = past.revived
        /\ past'.doubtful = past.doubtful \cup
                      {sig \in DOMAIN usedSignatures.redis : LapsesEarly(sig)}
    BY <1>1, <2>1 DEF IsPast
  <2>3. \A q \in Requests : (Passed(q)' <=> Passed(q)) /\ (Checking(q)' <=> Checking(q))
    BY <2>1, <2>2 DEF Passed, Checking, At, Call
  <2>4. clock \in Nat /\ WALLET_LOGIN_WINDOW_MS \in Nat
    BY WindowAssumption DEF SignInv, ClockFits
  <2>5. ASSUME NEW sig, Kept(sig), IssuedAt[sig] \in Nat, sig \notin past'.doubtful
        PROVE  Kept(sig)'
    <3>1. /\ sig \in DOMAIN usedSignatures'.redis /\ usedSignatures'.redis[sig] \in Nat
          /\ ~LapsesEarly(sig)
      BY <2>1, <2>2, <2>5 DEF Kept
    <3>2. CASE usedSignatures.redis[sig] > clock + 1
      BY <2>1, <3>1, <3>2 DEF Kept
    <3>3. CASE usedSignatures.redis[sig] = clock + 1
      <4>1. TooOld(sig, clock + 1) /\ \A q \in Requests : Checking(q) => Call(q).proof # sig
        BY <2>5, <3>1, <3>3 DEF LapsesEarly, Kept, Checking
      <4> QED
        BY <2>1, <2>3, <3>1, <4>1 DEF Kept, TooOld, Call
    <3>4. CASE ~(usedSignatures.redis[sig] > clock)
      <4>1. TooOld(sig, clock) /\ \A q \in Requests : Checking(q) => Call(q).proof # sig
        BY <2>5, <3>4 DEF Kept
      <4>2. TooOld(sig, clock + 1)
        BY <2>4, <2>5, <4>1 DEF TooOld
      <4> QED
        BY <2>1, <2>3, <3>1, <4>1, <4>2 DEF Kept, TooOld, Call
    <3> QED
      BY <2>1, <2>4, <3>1, <3>2, <3>3, <3>4
  <2>6. SignaturesFit'
    <3> SUFFICES ASSUME NEW r \in Requests, Passed(r), Call(r).proof \notin past'.doubtful
                 PROVE  /\ Kept(Call(r).proof)'
                        /\ \A q \in Requests : Passed(q) /\ Call(q).proof = Call(r).proof => q = r
      BY <2>1, <2>3 DEF SignaturesFit, Call
    <3>1. IssuedAt[Call(r).proof] \in Nat
      BY DEF SignInv, ClockFits, Passed
    <3>2. Kept(Call(r).proof) /\ \A q \in Requests : Passed(q) /\ Call(q).proof = Call(r).proof => q = r
      BY <2>2 DEF SignInv, SignaturesFit
    <3>3. PICK sig : sig = Call(r).proof
      OBVIOUS
    <3>4. Kept(sig)' /\ Call(r)' = Call(r)
      BY <2>1, <2>5, <3>1, <3>2, <3>3 DEF Call
    <3> QED
      BY <3>2, <3>3, <3>4
  <2> QED
    BY <2>1, <2>2, <2>4, <2>6 DEF SignInv, StoresTyped, RevokedFits, ClockFits, Call
<1> QED
  BY <1>3, <1>4, <1>5, <1>6, <1>7, <1>8, ServerKeepsSigns DEF AccountsNext

-----------------------------------------------------------------------------
(* The properties                                                            *)

LEMMA SpentOnce == OutInv /\ SpendInv /\ SignInv => ProofsAreOneTime
<1> SUFFICES ASSUME OutInv, SpendInv, SignInv PROVE ProofsAreOneTime
  OBVIOUS
<1>1. ~past.revived
  BY DEF SignInv, RevokedFits
<1>2. ASSUME NEW r \in Requests, NEW q \in Requests, r # q,
             past.accepted[r] # None, past.accepted[r] \notin past.shared \cup past.doubtful,
             Call(r).route = Call(q).route,
             Call(r).route \in {"verifyEmail", "walletLogin", "resetPassword"},
             past.accepted[r] = past.accepted[q], req[r].id \notin past.overlapped
      PROVE  FALSE
  <2>1. past.accepted[r] = Call(r).proof /\ past.accepted[q] = Call(q).proof
    BY <1>2 DEF SpendInv, AcceptedFits
  <2>2. CASE Call(r).route = "walletLogin"
    <3>1. Passed(r) /\ Passed(q)
      BY <1>2, <2>2 DEF Passed
    <3> QED
      BY <1>2, <2>1, <3>1 DEF SignInv, SignaturesFit
  <2>3. CASE Call(r).route \in {"verifyEmail", "resetPassword"}
    <3>1. Spender(r) /\ Spender(q)
      BY <1>2, <2>1, <2>3 DEF Spender, Spends
    <3> QED
      BY <1>2, <2>1, <3>1 DEF SpendInv, OneSpender
  <2> QED
    BY <1>2, <2>2, <2>3
<1> QED
  BY <1>1, <1>2 DEF ProofsAreOneTime

\* The accounts are in one of their stories, or at rest.
InStory == OutInv /\ SpendInv /\ SignInv
AtRestForGood == ServerRests /\ ProofsAreOneTime /\ SignedOutStaysOut
AccessInv == PanelInv /\ (InStory \/ AtRestForGood)

LEMMA AccessStarts == MCInit => AccessInv
<1> SUFFICES ASSUME MCInit PROVE AccessInv
  OBVIOUS
<1>1. PanelInv
  BY PanelStarts DEF MCInit
<1>2. CASE calls # << >>
  BY <1>1, <1>2, OutStarts, SpendStarts, SignStarts DEF MCInit, AccessInv, InStory
<1>3. CASE calls = << >>
  <2>1. past = [accepted |-> [r \in Requests |-> None], overlapped |-> {}, raced |-> {},
             relinked |-> {}, lastHash |-> << >>, lastWallet |-> << >>, ended |-> {},
             revoked |-> {}, revived |-> FALSE, out |-> {}, alone |-> {}, doubtful |-> {},
             shared |-> {}]
    BY DEF MCInit, AccountsInit
  <2>2. ProofsAreOneTime /\ SignedOutStaysOut
    BY <2>1 DEF ProofsAreOneTime, SignedOutStaysOut
  <2> QED
    BY <1>1, <1>3, <2>2 DEF AccessInv, AtRestForGood, ServerRests
<1> QED
  BY <1>2, <1>3

LEMMA AccessStepKeeps ==
  ASSUME AccessInv, [MCNext]_<<accountVars, panelVars>>
  PROVE  AccessInv'
<1>1. ASSUME UNCHANGED accountVars, InStory \/ AtRestForGood PROVE (InStory \/ AtRestForGood)'
  <2>1. CASE InStory
    <3>1. /\ calls' = calls /\ req' = req /\ users' = users /\ rows' = rows
          /\ browser' = browser /\ past' = past
      BY <1>1 DEF accountVars, serverVars
    <3>2. OutInv'
      BY <2>1, <3>1 DEF InStory, OutInv, AccountsTyped, OutFits, ReqTyped, Of, InFlight, Call
    <3>3. SpendInv'
      <4>1. Reloads
        BY <2>1, <3>1 DEF InStory, Reloads, SpendInv, ReqTyped, UsersFit, UserFits, Unborn
      <4> QED
        BY <2>1, <4>1, ReloadsKeep DEF InStory
    <3>4. SignInv'
      BY <1>1, <2>1 DEF InStory, accountVars, serverVars, SignInv, StoresTyped, SignaturesFit,
         RevokedFits, ClockFits, Kept, TooOld, Checking, At, Passed, Call
    <3> QED
      BY <3>2, <3>3, <3>4 DEF InStory
  <2>2. CASE AtRestForGood
    BY <1>1, <2>2 DEF AtRestForGood, accountVars, serverVars, ServerRests, ProofsAreOneTime,
       SignedOutStaysOut, Call
  <2> QED
    BY <1>1, <2>1, <2>2
<1>2. ASSUME UNCHANGED panelVars, PanelInv PROVE PanelInv'
  BY <1>2 DEF panelVars, browserVars, processVars, PanelInv, PanelTyped, AskedFits, CodesConsumed,
     OutIsQuiet
<1>3. CASE ~ServerRests /\ AccountsNext /\ UNCHANGED panelVars
  <2>1. InStory
    BY <1>3 DEF AccessInv, AtRestForGood
  <2>2. InStory'
    BY <1>3, <2>1, AccountsStepKeepsOut, AccountsStepKeepsSpent, AccountsStepKeepsSigns DEF InStory
  <2> QED
    BY <1>2, <1>3, <2>2 DEF AccessInv
<1>4. CASE ServerRests /\ PanelNext /\ UNCHANGED accountVars
  BY <1>1, <1>4, PanelStepKeeps DEF AccessInv
<1>5. CASE UNCHANGED <<accountVars, panelVars>>
  BY <1>1, <1>2, <1>5 DEF AccessInv
<1> QED
  BY <1>3, <1>4, <1>5 DEF MCNext

LEMMA AccessStays == MCSpec => []AccessInv
BY AccessStarts, AccessStepKeeps, PTL DEF MCSpec

\* What proves who somebody is -- a wallet's signature, a mailed token, a code
\* of the authenticator -- is good for one time (server.ts:971 and :1419,
\* totp.ts:72), for any calls, accounts, dates of messages, faults and clicks,
\* but for the four causes ProofsAreOneTime names.
THEOREM SpentIsSpent == MCSpec => []SpentStaysSpent
<1>1. AccessInv => SpentStaysSpent
  BY SpentOnce DEF AccessInv, InStory, AtRestForGood, PanelInv, CodesConsumed, SpentStaysSpent,
     CodesAreOneTime
<1> QED
  BY <1>1, AccessStays, PTL

\* Who signed out stays out, of the site and of a panel, until he asks for
\* something again (AuthContext.tsx:298, logout/route.ts:4), for any calls,
\* accounts, faults and clicks.
THEOREM OutIsOut == MCSpec => []SignedOut
<1>1. AccessInv => SignedOut
  BY DEF AccessInv, InStory, AtRestForGood, PanelInv, OutIsQuiet, OutInv, OutFits, SignedOut,
     SignedOutStaysOut, PanelSignedOut
<1> QED
  BY <1>1, AccessStays, PTL
=============================================================================
