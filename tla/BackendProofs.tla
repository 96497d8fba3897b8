--------------------------- MODULE BackendProofs ---------------------------
(***************************************************************************)
(* Proofs about module Backend, for any admins, requests, wallets' rows    *)
(* and routes, and whatever is lost, expires or restarts.                  *)
(*                                                                         *)
(* Approvals: no request of two admins becomes ready by one of them.       *)
(* Whoever is named in a request, in the map, in its copy in Redis or in a *)
(* command on its way there, spoke for that id once, and its proposer is   *)
(* never among those who approved it (ApprovalsInv).                       *)
(*                                                                         *)
(* Daily limit: what manual credits gave today is at most the sum that was *)
(* counted, and each counted sum was checked against the limit before it   *)
(* was counted (StoreInv, DailyInv).                                       *)
(*                                                                         *)
(* Persistence: every row of the store that differs from the last snapshot *)
(* is in a save that waits or is in flight, and with one save at a time    *)
(* what a snapshot calls written is what the database holds (WrittenInv).  *)
(*                                                                         *)
(* Withdrawals: a transfer leaves only after the save of its debit ended,  *)
(* and a debit the database holds is never taken back (DebitInv).          *)
(*                                                                         *)
(* Once: what has a row is remembered by it, in the store and in whatever  *)
(* save carries the money (RowOnce, DepositOnce); a vote by its own row,   *)
(* which lets one request pass (VoteOnce); a trade or a credit by the lock *)
(* that only one request holds until the effect is known, and a trade as   *)
(* long as its id does not expire (LockOnce).                              *)
(***************************************************************************)
EXTENDS Backend, SumProofs, SequenceTheorems

Request == [proposedBy : Admins, approvals : SUBSET Admins]

Command == [op : {"SET"}, id : RequestIds, value : Request]
             \cup [op : {"DEL"}, id : RequestIds]

\* What a request says is what its admins did.
Honest(id, request, spoke) ==
  /\ id \in RequestIds
  /\ request \in Request
  /\ request.proposedBy \notin request.approvals
  /\ request.approvals \cup {request.proposedBy} \subseteq spoke[id]

AllHonest(map, spoke) == \A id \in DOMAIN map : Honest(id, map[id], spoke)

Truthful(command, spoke) ==
  command.op = "SET" => Honest(command.id, command.value, spoke)

SpokeTyped ==
  /\ agreed \in [RequestIds -> SUBSET Admins]
  /\ \A id \in RequestIds : IsFiniteSet(agreed[id])

ApprovalsInv ==
  /\ SpokeTyped
  /\ AllHonest(requests, agreed)
  /\ AllHonest(copies, agreed)
  /\ commands \in Seq(Command)
  /\ \A i \in DOMAIN commands : Truthful(commands[i], agreed)
-----------------------------------------------------------------------------
\* Two different admins are behind a request with an approval.
LEMMA AgreedFollows == ApprovalsInv => TwoAdminsAgreed
<1> SUFFICES ASSUME ApprovalsInv, NEW id \in DOMAIN requests, isReadyToExecute(requests[id])
             PROVE  Cardinality(agreed[id]) >= REQUIRED_APPROVALS
  BY DEF TwoAdminsAgreed
<1> DEFINE approvals == requests[id].approvals
           proposer == requests[id].proposedBy
           spoke == agreed[id]
<1>1. /\ proposer \notin approvals
      /\ approvals \cup {proposer} \subseteq spoke
      /\ IsFiniteSet(spoke)
  BY DEF ApprovalsInv, SpokeTyped, AllHonest, Honest
<1>2. 1 + Cardinality(approvals) >= 2
  BY DEF isReadyToExecute, REQUIRED_APPROVALS
<1> HIDE DEF approvals, proposer, spoke
<1>3. IsFiniteSet(approvals) /\ IsFiniteSet(approvals \cup {proposer})
  BY <1>1, FS_Subset
<1>4. Cardinality(approvals \cup {proposer}) = Cardinality(approvals) + 1
  BY <1>1, <1>3, FS_AddElement
<1>5. Cardinality(approvals \cup {proposer}) <= Cardinality(spoke)
  BY <1>1, FS_Subset
<1>6. Cardinality(approvals) \in Nat /\ Cardinality(spoke) \in Nat
  BY <1>1, <1>3, FS_CardinalityType
<1> QED
  BY <1>2, <1>4, <1>5, <1>6 DEF spoke, REQUIRED_APPROVALS

LEMMA ApprovalsStart == ApprovalsInit => ApprovalsInv
<1> SUFFICES ASSUME ApprovalsInit PROVE ApprovalsInv
  OBVIOUS
<1>1. SpokeTyped
  <2>1. IsFiniteSet({})
    BY FS_EmptySet
  <2> QED
    BY <2>1 DEF ApprovalsInit, SpokeTyped
<1>2. commands = << >> /\ DOMAIN requests = {} /\ DOMAIN copies = {}
  BY DEF ApprovalsInit
<1> QED
  BY <1>1, <1>2 DEF ApprovalsInv, AllHonest
-----------------------------------------------------------------------------
\* Who spoke is not forgotten.
LEMMA HonestGrows ==
  ASSUME NEW a, NEW b, \A id \in RequestIds : a[id] \subseteq b[id],
         NEW id, NEW request, Honest(id, request, a)
  PROVE  Honest(id, request, b)
BY DEF Honest

LEMMA WithHonest ==
  ASSUME NEW map, NEW spoke, AllHonest(map, spoke), NEW id, NEW request,
         Honest(id, request, spoke)
  PROVE  AllHonest(With(map, id, request), spoke)
<1> SUFFICES ASSUME NEW i \in DOMAIN map \cup {id}
             PROVE  Honest(i, With(map, id, request)[i], spoke)
  BY DEF AllHonest, With
<1>1. CASE i = id
  BY <1>1 DEF With
<1>2. CASE i # id
  <2>1. With(map, id, request)[i] = map[i] /\ i \in DOMAIN map
    BY <1>2 DEF With
  <2> QED
    BY <2>1 DEF AllHonest
<1> QED
  BY <1>1, <1>2

LEMMA WithoutHonest ==
  ASSUME NEW map, NEW spoke, AllHonest(map, spoke), NEW id
  PROVE  AllHonest(Without(map, id), spoke)
<1> SUFFICES ASSUME NEW i \in DOMAIN map \ {id}
             PROVE  Honest(i, Without(map, id)[i], spoke)
  BY DEF AllHonest, Without
<1>1. Without(map, id)[i] = map[i]
  BY DEF Without
<1> QED
  BY <1>1 DEF AllHonest

\* A request enters the map by a proposal or by an approval.
LEMMA PutKeeps ==
  ASSUME ApprovalsInv, NEW id \in RequestIds, NEW admin \in Admins, NEW request \in Request,
         request.proposedBy \notin request.approvals,
         request.approvals \cup {request.proposedBy} \subseteq agreed[id] \cup {admin},
         Put(id, request, admin)
  PROVE  ApprovalsInv'
<1>1. agreed' = [agreed EXCEPT ![id] = agreed[id] \cup {admin}]
  BY DEF Put
<1>2. SpokeTyped'
  <2>1. IsFiniteSet(agreed[id] \cup {admin})
    BY FS_AddElement DEF ApprovalsInv, SpokeTyped
  <2> QED
    BY <1>1, <2>1 DEF ApprovalsInv, SpokeTyped
<1>3. \A i \in RequestIds : agreed[i] \subseteq agreed'[i]
  BY <1>1 DEF ApprovalsInv, SpokeTyped
<1>4. agreed'[id] = agreed[id] \cup {admin}
  BY <1>1 DEF ApprovalsInv, SpokeTyped
<1>5. Honest(id, request, agreed')
  BY <1>4 DEF Honest
<1>6. AllHonest(requests, agreed') /\ AllHonest(copies, agreed')
  BY <1>3, HonestGrows DEF ApprovalsInv, AllHonest
<1>7. AllHonest(requests', agreed') /\ AllHonest(copies', agreed')
  BY <1>5, <1>6, WithHonest DEF Put
<1> DEFINE command == [op |-> "SET", id |-> id, value |-> request]
<1>8. commands' = Append(commands, command) /\ command \in Command
  BY DEF Put, Command
<1>9. Truthful(command, agreed')
  BY <1>5 DEF Truthful
<1>10. \A i \in DOMAIN commands : Truthful(commands[i], agreed')
  BY <1>3, HonestGrows DEF ApprovalsInv, Truthful
<1> HIDE DEF command
<1>11. commands' \in Seq(Command) /\ \A i \in DOMAIN commands' : Truthful(commands'[i], agreed')
  BY <1>8, <1>9, <1>10 DEF ApprovalsInv
<1> QED
  BY <1>2, <1>7, <1>11 DEF ApprovalsInv

LEMMA ProposedKeeps ==
  ASSUME ApprovalsInv, NEW id, NEW admin \in Admins, Proposed(id, admin)
  PROVE  ApprovalsInv'
<1>1. id \in RequestIds /\ Put(id, [proposedBy |-> admin, approvals |-> {}], admin)
  BY DEF Proposed, proposeCredit, proposeMarketResolution, Propose, RequestIds
<1> QED
  BY <1>1, PutKeeps DEF Request

LEMMA ApprovedKeeps ==
  ASSUME ApprovalsInv, NEW id, NEW admin \in Admins, Approved(id, admin)
  PROVE  ApprovalsInv'
<1> DEFINE request == [requests[id] EXCEPT !.approvals = requests[id].approvals \cup {admin}]
<1>1. /\ id \in RequestIds /\ id \in DOMAIN requests
      /\ MayApprove(requests[id], admin)
      /\ Put(id, request, admin)
  BY DEF Approved, approveCredit, approveMarketResolution, Approve, RequestIds
<1>2. Honest(id, requests[id], agreed)
  BY <1>1 DEF ApprovalsInv, AllHonest
<1>3. /\ request \in Request
      /\ request.proposedBy = requests[id].proposedBy
      /\ request.approvals = requests[id].approvals \cup {admin}
  BY <1>2 DEF Honest, Request
<1>4. requests[id].proposedBy # admin
  BY <1>1 DEF MayApprove
<1> HIDE DEF request
<1> QED
  BY <1>1, <1>2, <1>3, <1>4, PutKeeps DEF Honest

\* The commands that are left are among those there were.
LEMMA TailKeeps ==
  ASSUME ApprovalsInv, commands # << >>
  PROVE  /\ Tail(commands) \in Seq(Command)
         /\ \A i \in DOMAIN Tail(commands) : Truthful(Tail(commands)[i], agreed)
         /\ Head(commands) \in Command /\ Truthful(Head(commands), agreed)
<1>1. commands \in Seq(Command) /\ Len(commands) > 0
  BY DEF ApprovalsInv
<1>2. /\ Tail(commands) \in Seq(Command)
      /\ \A i \in DOMAIN Tail(commands) : i + 1 \in DOMAIN commands
                                        /\ Tail(commands)[i] = commands[i + 1]
  BY <1>1
<1>3. 1 \in DOMAIN commands /\ Head(commands) = commands[1] /\ commands[1] \in Command
  BY <1>1
<1> QED
  BY <1>2, <1>3 DEF ApprovalsInv

LEMMA SendKeeps ==
  ASSUME ApprovalsInv, SendCommand
  PROVE  ApprovalsInv'
<1> DEFINE c == Head(commands)
<1>1. /\ commands # << >> /\ commands' = Tail(commands)
      /\ copies' = IF c.op = "SET" THEN With(copies, c.id, c.value) ELSE Without(copies, c.id)
      /\ requests' = requests /\ agreed' = agreed
  BY DEF SendCommand
<1>2. Truthful(c, agreed)
  BY <1>1, TailKeeps
<1> HIDE DEF c
<1>3. CASE c.op = "SET"
  <2>1. AllHonest(With(copies, c.id, c.value), agreed)
    BY <1>2, <1>3, WithHonest DEF ApprovalsInv, Truthful
  <2> QED
    BY <1>1, <1>3, <2>1, TailKeeps DEF ApprovalsInv, SpokeTyped
<1>4. CASE c.op # "SET"
  <2>1. AllHonest(Without(copies, c.id), agreed)
    BY WithoutHonest DEF ApprovalsInv
  <2> QED
    BY <1>1, <1>4, <2>1, TailKeeps DEF ApprovalsInv, SpokeTyped
<1> QED
  BY <1>3, <1>4

LEMMA LoseKeeps ==
  ASSUME ApprovalsInv, LoseCommand
  PROVE  ApprovalsInv'
BY TailKeeps DEF LoseCommand, ApprovalsInv, SpokeTyped

LEMMA PurgeKeeps ==
  ASSUME ApprovalsInv, NEW id, purgeExpired(id)
  PROVE  ApprovalsInv'
BY WithoutHonest DEF purgeExpired, ApprovalsInv, SpokeTyped

LEMMA ExecutedKeeps ==
  ASSUME ApprovalsInv, NEW id, MarkExecuted(id)
  PROVE  ApprovalsInv'
<1>1. AllHonest(requests', agreed') /\ AllHonest(copies', agreed') /\ SpokeTyped'
  BY WithoutHonest DEF MarkExecuted, ApprovalsInv, SpokeTyped
<1>2. agreed' = agreed
  BY DEF MarkExecuted
<1>3. CASE id \in DOMAIN requests
  <2> DEFINE command == [op |-> "DEL", id |-> id]
  <2>1. id \in RequestIds
    BY <1>3 DEF ApprovalsInv, AllHonest, Honest
  <2>2. command \in Command /\ Truthful(command, agreed) /\ commands' = Append(commands, command)
    BY <1>3, <2>1 DEF MarkExecuted, Command, Truthful
  <2> HIDE DEF command
  <2>3. /\ commands' \in Seq(Command)
        /\ \A i \in DOMAIN commands' : Truthful(commands'[i], agreed)
    BY <2>2 DEF ApprovalsInv
  <2> QED
    BY <1>1, <1>2, <2>3 DEF ApprovalsInv
<1>4. CASE id \notin DOMAIN requests
  <2>1. commands' = commands
    BY <1>4 DEF MarkExecuted
  <2> QED
    BY <1>1, <1>2, <2>1 DEF ApprovalsInv
<1> QED
  BY <1>3, <1>4

LEMMA LoadKeeps ==
  ASSUME ApprovalsInv, loadPendingFromRedis
  PROVE  ApprovalsInv'
<1>1. commands' = << >> /\ requests' = copies /\ copies' = copies /\ agreed' = agreed
  BY DEF loadPendingFromRedis
<1> QED
  BY <1>1 DEF ApprovalsInv, SpokeTyped

LEMMA RestKeeps ==
  ASSUME ApprovalsInv, UNCHANGED <<requests, copies, commands, agreed>>
  PROVE  ApprovalsInv'
BY DEF ApprovalsInv, SpokeTyped
-----------------------------------------------------------------------------
\* What a step of the backend does to the requests.
LEMMA BackendStep ==
  ASSUME [Next]_vars
  PROVE  \/ UNCHANGED <<requests, copies, commands, agreed>>
         \/ \E id : \E admin \in Admins : Proposed(id, admin) \/ Approved(id, admin)
         \/ \E id : purgeExpired(id) \/ MarkExecuted(id)
         \/ SendCommand \/ LoseCommand \/ loadPendingFromRedis
<1>1. CASE \E r \in Requests : Arrive(r)
  BY <1>1 DEF Arrive, AskForLock, MarkDeposit, PostTransactions, PostMarkets, PeriodicPersist,
     GracefulShutdown, Quiet, approvalVars
<1>2. ASSUME NEW r \in Requests,
             \/ GetLock(r) \/ PostTrades(r) \/ PostDuels(r) \/ PostOrders(r)
             \/ BoostPosition(r) \/ Stake(r) \/ AcceptDuel(r) \/ DeleteDuel(r)
             \/ DeleteOrder(r) \/ ClaimPosition(r) \/ Unstake(r) \/ ClaimRewards(r)
      PROVE  UNCHANGED approvalVars
  BY <1>2 DEF GetLock, PostTrades, PostDuels, PostOrders, BoostPosition, Stake, AcceptDuel,
     DeleteDuel, DeleteOrder, ClaimPosition, Unstake, ClaimRewards, Quiet
<1>3. ASSUME NEW r \in Requests,
             \/ RecordVote(r) \/ CountVote(r) \/ CreditDeposit(r) \/ RejectDeposit(r)
             \/ DebitWithdrawal(r) \/ SendWithdrawal(r) \/ RecordWithdrawal(r)
             \/ ReverseWithdrawal(r)
      PROVE  UNCHANGED approvalVars
  BY <1>3 DEF RecordVote, CountVote, CreditDeposit, RejectDeposit, DebitWithdrawal,
     SendWithdrawal, RecordWithdrawal, ReverseWithdrawal, Quiet
<1>4. ASSUME NEW r \in Requests, CountCredit(r) \/ RefuseCredit(r)
      PROVE  UNCHANGED <<requests, copies, commands, agreed>>
  BY <1>4 DEF CountCredit, RefuseCredit
<1>5. ASSUME NEW r \in Requests, ExecuteCredit(r) \/ ExecuteResolution(r)
      PROVE  MarkExecuted(Item(r)) \/ UNCHANGED approvalVars
  BY <1>5 DEF ExecuteCredit, ExecuteResolution
<1>6. ASSUME NEW r \in Requests, Finish(r)
      PROVE  loadPendingFromRedis \/ UNCHANGED approvalVars
  BY <1>6 DEF Finish, Restart
<1>7. CASE \E r \in Requests : Proceed(r)
  BY <1>2, <1>3, <1>4, <1>5, <1>6, <1>7 DEF Proceed, approvalVars
<1>8. CASE SaveReturns \/ Expire \/ ExpireTradeId \/ Crash
  BY <1>8 DEF SaveReturns, Expire, ExpireTradeId, Crash, Restart, approvalVars
<1>9. CASE Approving
  BY <1>9 DEF Approving
<1>10. CASE UNCHANGED vars
  BY <1>10 DEF vars, approvalVars
<1> QED
  BY <1>1, <1>7, <1>8, <1>9, <1>10 DEF Next

LEMMA BackendKeeps ==
  ASSUME ApprovalsInv, [Next]_vars
  PROVE  ApprovalsInv'
<1>1. CASE UNCHANGED <<requests, copies, commands, agreed>>
  BY <1>1, RestKeeps
<1>2. CASE \E id : \E admin \in Admins : Proposed(id, admin) \/ Approved(id, admin)
  BY <1>2, ProposedKeeps, ApprovedKeeps
<1>3. CASE \E id : purgeExpired(id) \/ MarkExecuted(id)
  BY <1>3, PurgeKeeps, ExecutedKeeps
<1>4. CASE SendCommand \/ LoseCommand \/ loadPendingFromRedis
  BY <1>4, SendKeeps, LoseKeeps, LoadKeeps
<1> QED
  BY <1>1, <1>2, <1>3, <1>4, BackendStep

\* For any admins and requests, whatever Redis loses, a purge removes or a
\* restart loads again, a request that may be executed has the word of two
\* different admins (creditApprovals.ts, approveCredit, approveMarketResolution
\* and loadPendingFromRedis, under the routes of server.ts).
THEOREM RequestsNeedTwoAdmins == Spec => []TwoAdminsAgreed
<1>1. BackendInit => ApprovalsInv
  BY ApprovalsStart DEF BackendInit
<1>2. Spec => []ApprovalsInv
  BY <1>1, BackendKeeps, PTL DEF Spec
<1> QED
  BY <1>2, AgreedFollows, PTL
-----------------------------------------------------------------------------
\* A wallet to which at least as much was given, and from which as much taken.
AtLeast(wallet, earlier) ==
  \A i \in Items : earlier.gets[i] <= wallet.gets[i] /\ earlier.gives[i] <= wallet.gives[i]

\* Where a request is that has queued or started a save.
Later == {"saving", "savingDebit", "sending", "sent", "unsent", "finishing", "done"}

IsSave(s) ==
  s = [by |-> s.by, queued |-> s.queued, rows |-> s.rows, committed |-> s.committed,
       changed |-> s.changed, deleted |-> s.deleted]

\* A save writes what the store held some time since the boot.
SaveFits(s) ==
  /\ IsSave(s)
  /\ s.by \in Requests /\ pc[s.by] \in Later
  /\ s.rows[WALLET] \in Wallets
  /\ AtLeast(store[WALLET], s.rows[WALLET])
  /\ WALLET \notin s.deleted /\ s.changed \cap s.deleted = {}
  /\ \A r \in s.changed : s.rows[r] # Absent
  /\ \A r \in s.deleted : s.rows[r] = Absent

CallsFit == \E s \in Scenarios : calls = s.calls

\* The database never holds more of the wallet than the store does.
StoreInv ==
  /\ CallsFit
  /\ DOMAIN pc = Requests
  /\ DOMAIN store = Rows /\ DOMAIN db = Rows
  /\ store[WALLET] \in Wallets /\ db[WALLET] \in Wallets
  /\ AtLeast(store[WALLET], db[WALLET])
  /\ \A s \in saves : SaveFits(s)
  /\ persistMutexQueue \in Seq(Requests)
  /\ \A i \in DOMAIN persistMutexQueue : pc[persistMutexQueue[i]] \in Later
  /\ loaded \subseteq Rows
  /\ \A r \in loaded \ BatchedRows : store[r] # Absent

\* The credits in a wallet, and the executions between the counter and the money.
Credited(wallet) == SumFunctionOnSet(wallet.gets, Items \cap Credits)
AtPlace(where) == {r \in Requests : pc[r] = where}

DailyInv ==
  /\ dailyCredit \in Int
  /\ Credited(store[WALLET]) + Cardinality(AtPlace("counted")) <= MAX_DAILY_CREDIT
  /\ Credited(store[WALLET]) + Cardinality(AtPlace("counted")) + Cardinality(AtPlace("over"))
       <= dailyCredit

\* What a snapshot calls written is in the database; what it does not know is
\* not there, unless it was at boot.
Agrees(snapshot) ==
  \A r \in Rows \ (BatchedRows \cap loaded) :
    IF snapshot[r] # Absent THEN db[r] = Written(r, snapshot[r])
    ELSE r \in loaded \/ db[r] = Absent

\* A save that is alone was compared with the snapshots as they are.
SaveAlone(s) ==
  /\ saves = {s}
  /\ s.committed \in BOOLEAN
  /\ Agrees(IF s.committed THEN Advanced(s) ELSE lastWritten)
  /\ \A r \in Rows \ (s.changed \cup s.deleted) : s.rows[r] = lastWritten[r]
  /\ AtLeast(s.rows[WALLET], db[WALLET])

WrittenInv == overlapped \/ (saves = {} /\ Agrees(lastWritten)) \/ \E s \in saves : SaveAlone(s)

\* The debit of a withdrawal is in the database from the moment it may be sent,
\* and in what is saved until then.
Debited(wallet, r) == wallet.gives[Item(r)] >= 1
Durable(r) == r \in swallowed \/ Debited(db[WALLET], r)
DebitInv ==
  /\ \A s \in saves : pc[s.by] = "savingDebit" => Debited(s.rows[WALLET], s.by)
  /\ \A i \in DOMAIN persistMutexQueue :
       pc[persistMutexQueue[i]] = "savingDebit" => Debited(store[WALLET], persistMutexQueue[i])
  /\ overlapped \/ \A r \in Requests : pc[r] \in {"sending", "sent", "unsent"} => Durable(r)
  /\ paid \subseteq Requests /\ (overlapped \/ \A r \in paid : Durable(r))


-----------------------------------------------------------------------------
\* What the store may become when a request saves it.
Grown(s) ==
  /\ DOMAIN s = Rows
  /\ s[WALLET] \in Wallets
  /\ AtLeast(s[WALLET], store[WALLET])
  /\ \A x \in Rows \ {WALLET} : s[x] = store[x] \/ s[x] # Absent

\* A request changes the store and saves it: a credit that was counted adds one
\* to what it credits, any other body leaves the credits alone.
Body(r, where, s) ==
  /\ SaveAs(r, where, s)
  /\ Grown(s)
  /\ UNCHANGED <<calls, paid, dailyCredit>>
  /\ where \in {"saving", "savingDebit"}
  /\ where = "savingDebit" => pc[r] = "locked" /\ Debited(s[WALLET], r)
  /\ pc[r] # "over"
  /\ IF pc[r] = "counted"
     THEN /\ Item(r) \in Items \cap Credits
          /\ s[WALLET].gets = [store[WALLET].gets EXCEPT ![Item(r)] = @ + 1]
     ELSE \A i \in Items \cap Credits : s[WALLET].gets[i] = store[WALLET].gets[i]

\* A request goes on, and at most the rows of transactions change.
Passes(r, to) ==
  /\ Move(r, to)
  /\ DOMAIN store' = Rows /\ \A x \in Rows \ BatchedRows : store'[x] = store[x]
  /\ UNCHANGED <<persistVars, calls, paid, dailyCredit>>
  /\ pc[r] \notin {"counted", "over"}
  /\ to \notin {"counted", "over", "savingDebit", "sending", "sent", "unsent"}
  /\ pc[r] \in Later => to \in Later

Stands == UNCHANGED <<calls, pc, store, persistVars, paid, dailyCredit>>

LEMMA CallFacts ==
  ASSUME CallsFit, NEW r \in Requests
  PROVE  /\ Item(r) \in Items /\ Item(r) # WALLET
         /\ Route(r) = "credit" <=> Item(r) \in Credits
         /\ Route(r) = "deposit" => Item(r) \in BatchedRows
BY BackendAssumption DEF CallsFit, Item, Route, Items

LEMMA WalletFacts ==
  ASSUME NEW w \in Wallets
  PROVE  /\ w.gets \in [Items -> Nat] /\ w.gives \in [Items -> Nat]
         /\ w = [gets |-> w.gets, gives |-> w.gives]
         /\ AtLeast(w, w)
<1>1. w.gets \in [Items -> Nat] /\ w.gives \in [Items -> Nat]
      /\ w = [gets |-> w.gets, gives |-> w.gives]
  BY DEF Wallets
<1>2. \A i \in Items : w.gets[i] \in Nat /\ w.gives[i] \in Nat
  BY <1>1
<1> QED
  BY <1>1, <1>2 DEF AtLeast

\* AtLeast is an order.
LEMMA AtLeastChain ==
  ASSUME NEW a \in Wallets, NEW b \in Wallets, NEW c \in Wallets, AtLeast(a, b), AtLeast(b, c)
  PROVE  AtLeast(a, c)
<1>1. ASSUME NEW w \in Wallets, NEW i \in Items PROVE w.gets[i] \in Nat /\ w.gives[i] \in Nat
  BY WalletFacts
<1> SUFFICES ASSUME NEW i \in Items PROVE c.gets[i] <= a.gets[i] /\ c.gives[i] <= a.gives[i]
  BY DEF AtLeast
<1>2. /\ a.gets[i] \in Nat /\ a.gives[i] \in Nat /\ b.gets[i] \in Nat /\ b.gives[i] \in Nat
      /\ c.gets[i] \in Nat /\ c.gives[i] \in Nat
  BY <1>1
<1>3. /\ b.gets[i] <= a.gets[i] /\ b.gives[i] <= a.gives[i]
      /\ c.gets[i] <= b.gets[i] /\ c.gives[i] <= b.gives[i]
  BY DEF AtLeast
<1> QED
  BY <1>2, <1>3

LEMMA WalletIsARow ==
  /\ WALLET \in Rows /\ WALLET \notin BatchedRows /\ WALLET \notin DuelRows
  /\ \A w \in Wallets : w # Absent
  /\ Absent # OpenStatus /\ Absent # "DONE" /\ Absent # "DEPOSIT"
  /\ Absent # "WITHDRAWAL" /\ Absent # "CLIENT"
BY BackendAssumption

LEMMA StoreGrows ==
  ASSUME StoreInv
  PROVE  Grown(store)
BY WalletFacts DEF StoreInv, Grown

\* Money given to the wallet, or taken from it.
LEMMA GetsGrow ==
  ASSUME StoreInv, NEW i \in Items
  PROVE  /\ Grown(Gets(store, i))
         /\ Gets(store, i)[WALLET].gets = [store[WALLET].gets EXCEPT ![i] = @ + 1]
<1> DEFINE w == store[WALLET]
           g == [w.gets EXCEPT ![i] = @ + 1]
           v == [w EXCEPT !.gets = g]
           s == Gets(store, i)
<1>1. w \in Wallets /\ DOMAIN store = Rows /\ WALLET \in Rows
  BY WalletIsARow DEF StoreInv
<1>2. w.gets \in [Items -> Nat] /\ w.gives \in [Items -> Nat]
      /\ w = [gets |-> w.gets, gives |-> w.gives]
  BY <1>1, WalletFacts
<1>3. g \in [Items -> Nat] /\ \A j \in Items : w.gets[j] <= g[j]
  BY <1>2
<1>4. s = [store EXCEPT ![WALLET] = v]
  BY <1>1, <1>2 DEF Gets
<1> HIDE DEF s, g
<1>5. v = [gets |-> g, gives |-> w.gives]
  BY <1>2
<1>6. v \in Wallets /\ v.gets = g /\ v.gives = w.gives
  BY <1>2, <1>3, <1>5 DEF Wallets
<1> HIDE DEF v
<1>7. s[WALLET] = v /\ DOMAIN s = Rows /\ \A x \in Rows \ {WALLET} : s[x] = store[x]
  BY <1>1, <1>4
<1>8. \A j \in Items : w.gives[j] \in Nat
  BY <1>2
<1>9. AtLeast(v, w)
  BY <1>3, <1>6, <1>8 DEF AtLeast
<1> QED
  BY <1>6, <1>7, <1>9 DEF Grown, s, g

LEMMA GivesGrow ==
  ASSUME StoreInv, NEW i \in Items
  PROVE  /\ Grown(Gives(store, i))
         /\ Gives(store, i)[WALLET].gets = store[WALLET].gets
         /\ Gives(store, i)[WALLET].gives[i] >= 1
<1> DEFINE w == store[WALLET]
           g == [w.gives EXCEPT ![i] = @ + 1]
           v == [w EXCEPT !.gives = g]
           s == Gives(store, i)
<1>1. w \in Wallets /\ DOMAIN store = Rows /\ WALLET \in Rows
  BY WalletIsARow DEF StoreInv
<1>2. w.gets \in [Items -> Nat] /\ w.gives \in [Items -> Nat]
      /\ w = [gets |-> w.gets, gives |-> w.gives]
  BY <1>1, WalletFacts
<1>3. g \in [Items -> Nat] /\ (\A j \in Items : w.gives[j] <= g[j]) /\ g[i] >= 1
  BY <1>2
<1>4. s = [store EXCEPT ![WALLET] = v]
  BY <1>1, <1>2 DEF Gives
<1> HIDE DEF s, g
<1>5. v = [gets |-> w.gets, gives |-> g]
  BY <1>2
<1>6. v \in Wallets /\ v.gets = w.gets /\ v.gives = g
  BY <1>2, <1>3, <1>5 DEF Wallets
<1> HIDE DEF v
<1>7. s[WALLET] = v /\ DOMAIN s = Rows /\ \A x \in Rows \ {WALLET} : s[x] = store[x]
  BY <1>1, <1>4
<1>8. \A j \in Items : w.gets[j] \in Nat
  BY <1>2
<1>9. AtLeast(v, w)
  BY <1>3, <1>6, <1>8 DEF AtLeast
<1> QED
  BY <1>3, <1>6, <1>7, <1>9 DEF Grown, s

\* Another row that gets a status.
LEMMA RowGrows ==
  ASSUME NEW s, Grown(s), NEW x, x # WALLET, NEW v, v # Absent
  PROVE  Grown([s EXCEPT ![x] = v]) /\ [s EXCEPT ![x] = v][WALLET] = s[WALLET]
<1> DEFINE t == [s EXCEPT ![x] = v]
<1>1. DOMAIN s = Rows /\ WALLET \in Rows
  BY WalletIsARow DEF Grown
<1>2. DOMAIN t = Rows /\ t[WALLET] = s[WALLET]
      /\ \A y \in Rows : t[y] = s[y] \/ t[y] = v
  BY <1>1
<1> HIDE DEF t
<1>3. Grown(t)
  BY <1>2 DEF Grown
<1> QED
  BY <1>2, <1>3 DEF t


\* A body that is neither a credit nor a debit of a withdrawal.
LEMMA PlainBody ==
  ASSUME StoreInv, NEW r \in Requests, NEW s, SaveAs(r, "saving", s), Grown(s),
         UNCHANGED <<calls, paid, dailyCredit>>, pc[r] \notin {"over", "counted"},
         \A i \in Items \cap Credits : s[WALLET].gets[i] = store[WALLET].gets[i]
  PROVE  Body(r, "saving", s)
BY DEF Body

\* The bodies that give to the wallet, for an item that is no credit.
LEMMA GetsBody ==
  ASSUME StoreInv, NEW r \in Requests, Route(r) # "credit"
  PROVE  /\ Grown(Gets(store, Item(r)))
         /\ \A i \in Items \cap Credits : Gets(store, Item(r))[WALLET].gets[i] = store[WALLET].gets[i]
<1>1. Item(r) \in Items /\ Item(r) \notin Credits
  BY CallFacts DEF StoreInv
<1>2. store[WALLET].gets \in [Items -> Nat]
  BY WalletFacts DEF StoreInv
<1>3. Gets(store, Item(r))[WALLET].gets = [store[WALLET].gets EXCEPT ![Item(r)] = @ + 1]
      /\ Grown(Gets(store, Item(r)))
  BY <1>1, GetsGrow
<1> QED
  BY <1>1, <1>2, <1>3

\* Those that take from it change no credit.
LEMMA GivesBody ==
  ASSUME StoreInv, NEW r \in Requests
  PROVE  /\ Grown(Gives(store, Item(r)))
         /\ Gives(store, Item(r))[WALLET].gets = store[WALLET].gets
         /\ Debited(Gives(store, Item(r))[WALLET], r)
BY CallFacts, GivesGrow DEF StoreInv, Debited

\* A body that throws changes nothing, and its request ends.
LEMMA ThrowPasses ==
  ASSUME StoreInv, NEW r \in Requests, pc[r] = "locked", Throw(r),
         UNCHANGED <<calls, paid, dailyCredit>>
  PROVE  \E to : Passes(r, to)
<1>1. Move(r, "finishing") /\ UNCHANGED <<store, persistVars>>
  BY DEF Throw
<1>2. Passes(r, "finishing")
  BY <1>1 DEF Passes, StoreInv, Later
<1> QED
  BY <1>2

LEMMA SpendSteps ==
  ASSUME StoreInv, NEW r \in Requests, pc[r] = "locked", Spend(r),
         UNCHANGED <<calls, paid, dailyCredit>>
  PROVE  (\E where, s : Body(r, where, s)) \/ (\E to : Passes(r, to))
<1>1. CASE Balance > 0
  BY <1>1, GivesBody, PlainBody DEF Spend
<1>2. CASE ~(Balance > 0)
  BY <1>2, ThrowPasses DEF Spend
<1> QED
  BY <1>1, <1>2

LEMMA OnceSteps ==
  ASSUME StoreInv, NEW r \in Requests, pc[r] = "locked", NEW s, Grown(s),
         \A i \in Items \cap Credits : s[WALLET].gets[i] = store[WALLET].gets[i],
         Once(r, s), UNCHANGED <<calls, paid, dailyCredit>>
  PROVE  (\E where, t : Body(r, where, t)) \/ (\E to : Passes(r, to))
<1>1. CASE store[Item(r)] = OpenStatus
  <2> DEFINE t == [s EXCEPT ![Item(r)] = "DONE"]
  <2>1. Grown(t) /\ t[WALLET] = s[WALLET]
    BY RowGrows, CallFacts, WalletIsARow DEF StoreInv
  <2>2. SaveAs(r, "saving", t)
    BY <1>1 DEF Once
  <2> HIDE DEF t
  <2> QED
    BY <2>1, <2>2, PlainBody
<1>2. CASE store[Item(r)] # OpenStatus
  BY <1>2, ThrowPasses DEF Once
<1> QED
  BY <1>1, <1>2

\* The routes that run under a lock, one by one.
LEMMA LockedSteps ==
  ASSUME StoreInv, NEW r \in Requests,
         \/ PostTrades(r) \/ PostDuels(r) \/ PostOrders(r) \/ BoostPosition(r) \/ Stake(r)
         \/ AcceptDuel(r) \/ DeleteDuel(r) \/ DeleteOrder(r) \/ ClaimPosition(r)
         \/ Unstake(r) \/ ClaimRewards(r) \/ ExecuteResolution(r)
  PROVE  (\E where, s : Body(r, where, s)) \/ (\E to : Passes(r, to))
<1>1. CASE PostTrades(r) \/ PostDuels(r) \/ PostOrders(r) \/ BoostPosition(r) \/ Stake(r)
  <2>1. pc[r] = "locked" /\ Spend(r) /\ UNCHANGED <<calls, paid, dailyCredit>>
    BY <1>1 DEF PostTrades, PostDuels, PostOrders, BoostPosition, Stake, At, Quiet, approvalVars
  <2> QED
    BY <2>1, SpendSteps
<1>2. CASE DeleteDuel(r) \/ DeleteOrder(r) \/ ClaimPosition(r) \/ ClaimRewards(r)
           \/ ExecuteResolution(r)
  <2>1. pc[r] = "locked" /\ Route(r) # "credit" /\ Once(r, Gets(store, Item(r)))
        /\ UNCHANGED <<calls, paid, dailyCredit>>
    BY <1>2 DEF DeleteDuel, DeleteOrder, ClaimPosition, ClaimRewards, ExecuteResolution, At,
                Quiet, approvalVars
  <2> QED
    BY <2>1, OnceSteps, GetsBody
<1>3. CASE AcceptDuel(r)
  <2>1. pc[r] = "locked" /\ UNCHANGED <<calls, paid, dailyCredit>>
        /\ IF Balance > 0 THEN Once(r, Gives(store, Item(r))) ELSE Throw(r)
    BY <1>3 DEF AcceptDuel, At, Quiet, approvalVars
  <2>2. CASE Balance > 0
    <3>1. Once(r, Gives(store, Item(r)))
      BY <2>1, <2>2
    <3> QED
      BY <2>1, <3>1, OnceSteps, GivesBody
  <2>3. CASE ~(Balance > 0)
    BY <2>1, <2>3, ThrowPasses
  <2> QED
    BY <2>2, <2>3
<1>4. CASE Unstake(r)
  <2> DEFINE staked == store[WALLET].gives[Item(r)] > store[WALLET].gets[Item(r)]
  <2>1. pc[r] = "locked" /\ Route(r) # "credit" /\ UNCHANGED <<calls, paid, dailyCredit>>
        /\ IF staked THEN SaveAs(r, "saving", Gets(store, Item(r))) ELSE Throw(r)
    BY <1>4 DEF Unstake, At, Quiet, approvalVars
  <2>2. CASE staked
    <3>1. SaveAs(r, "saving", Gets(store, Item(r)))
      BY <2>1, <2>2
    <3> QED
      BY <2>1, <3>1, GetsBody, PlainBody
  <2>3. CASE ~staked
    BY <2>1, <2>3, ThrowPasses
  <2> QED
    BY <2>2, <2>3
<1> QED
  BY <1>1, <1>2, <1>3, <1>4

\* Votes, deposits and the two ends of a withdrawal.
LEMMA OtherBodies ==
  ASSUME StoreInv, NEW r \in Requests,
         \/ CountVote(r) \/ CreditDeposit(r) \/ DebitWithdrawal(r)
         \/ RecordWithdrawal(r) \/ ReverseWithdrawal(r)
         \/ PostTransactions(r) \/ PostMarkets(r) \/ PeriodicPersist(r) \/ GracefulShutdown(r)
  PROVE  (\E where, s : Body(r, where, s)) \/ (\E to : Passes(r, to))
<1> USE DEF At
<1>1. Item(r) \in Items /\ Item(r) # WALLET
  BY CallFacts DEF StoreInv
<1>2. CASE CountVote(r)
  <2>1. /\ pc[r] = "recorded" /\ Route(r) # "credit" /\ UNCHANGED <<calls, paid, dailyCredit>>
        /\ SaveAs(r, "saving", [Gets(store, Item(r)) EXCEPT ![Item(r)] = "DONE"])
    BY <1>2 DEF CountVote, Quiet, approvalVars
  <2> DEFINE s == [Gets(store, Item(r)) EXCEPT ![Item(r)] = "DONE"]
  <2>2. Grown(s) /\ s[WALLET] = Gets(store, Item(r))[WALLET]
    BY <1>1, <2>1, RowGrows, GetsBody, WalletIsARow
  <2> QED
    BY <2>1, <2>2, GetsBody, PlainBody
<1>3. CASE CreditDeposit(r)
  <2>1. /\ pc[r] = "verifying" /\ Route(r) # "credit" /\ UNCHANGED <<calls, paid, dailyCredit>>
        /\ SaveAs(r, "saving", [Gets(store, Item(r)) EXCEPT ![Item(r)] = "DEPOSIT"])
    BY <1>3 DEF CreditDeposit, Quiet, approvalVars
  <2> DEFINE s == [Gets(store, Item(r)) EXCEPT ![Item(r)] = "DEPOSIT"]
  <2>2. Grown(s) /\ s[WALLET] = Gets(store, Item(r))[WALLET]
    BY <1>1, <2>1, RowGrows, GetsBody, WalletIsARow
  <2> QED
    BY <2>1, <2>2, GetsBody, PlainBody
<1>4. CASE DebitWithdrawal(r)
  <2>1. /\ pc[r] = "locked" /\ UNCHANGED <<calls, paid, dailyCredit>>
        /\ IF Balance > 0 THEN SaveAs(r, "savingDebit", Gives(store, Item(r))) ELSE Throw(r)
    BY <1>4 DEF DebitWithdrawal, Quiet, approvalVars
  <2>2. CASE Balance > 0
    <3>1. SaveAs(r, "savingDebit", Gives(store, Item(r)))
      BY <2>1, <2>2
    <3>2. Body(r, "savingDebit", Gives(store, Item(r)))
      BY <2>1, <3>1, GivesBody DEF Body
    <3> QED
      BY <3>2
  <2>3. CASE ~(Balance > 0)
    BY <2>1, <2>3, ThrowPasses
  <2> QED
    BY <2>2, <2>3
<1>5. CASE RecordWithdrawal(r)
  <2>1. /\ pc[r] = "sent" /\ UNCHANGED <<calls, paid, dailyCredit>>
        /\ SaveAs(r, "saving", [store EXCEPT ![Item(r)] = "WITHDRAWAL"])
    BY <1>5 DEF RecordWithdrawal, Quiet, approvalVars
  <2> DEFINE s == [store EXCEPT ![Item(r)] = "WITHDRAWAL"]
  <2>2. Grown(s) /\ s[WALLET] = store[WALLET]
    BY <1>1, RowGrows, StoreGrows, WalletIsARow
  <2> QED
    BY <2>1, <2>2, PlainBody
<1>6. CASE ReverseWithdrawal(r)
  BY <1>6, GetsBody, PlainBody DEF ReverseWithdrawal, Quiet, approvalVars
<1>7. CASE PostTransactions(r)
  <2> DEFINE s == IF store[Item(r)] = Absent THEN [store EXCEPT ![Item(r)] = "CLIENT"] ELSE store
  <2>1. /\ pc[r] = "idle" /\ UNCHANGED <<calls, paid, dailyCredit>>
        /\ SaveAs(r, "saving", s)
    BY <1>7 DEF PostTransactions, approvalVars
  <2>2. Grown(s) /\ s[WALLET] = store[WALLET]
    BY <1>1, RowGrows, StoreGrows, WalletIsARow
  <2> HIDE DEF s
  <2> QED
    BY <2>1, <2>2, PlainBody
<1>8. CASE PostMarkets(r)
  <2> DEFINE s == [store EXCEPT ![Item(r)] = OpenStatus]
  <2>1. /\ pc[r] = "idle" /\ UNCHANGED <<calls, paid, dailyCredit>>
        /\ SaveAs(r, "saving", s)
    BY <1>8 DEF PostMarkets, approvalVars
  <2>2. Grown(s) /\ s[WALLET] = store[WALLET]
    BY <1>1, RowGrows, StoreGrows, WalletIsARow
  <2> HIDE DEF s
  <2> QED
    BY <2>1, <2>2, PlainBody
<1>9. CASE PeriodicPersist(r) \/ GracefulShutdown(r)
  BY <1>9, StoreGrows, PlainBody DEF PeriodicPersist, GracefulShutdown, Quiet, approvalVars
<1> QED
  BY <1>2, <1>3, <1>4, <1>5, <1>6, <1>7, <1>8, <1>9

LEMMA CreditBody ==
  ASSUME StoreInv, NEW r \in Requests, ExecuteCredit(r)
  PROVE  \E where, s : Body(r, where, s)
<1>1. /\ pc[r] = "counted" /\ Route(r) = "credit" /\ UNCHANGED <<calls, paid, dailyCredit>>
      /\ SaveAs(r, "saving", Gets(store, Item(r)))
  BY DEF ExecuteCredit, At
<1>2. Item(r) \in Items \cap Credits
  BY <1>1, CallFacts DEF StoreInv
<1>3. Body(r, "saving", Gets(store, Item(r)))
  BY <1>1, <1>2, GetsGrow DEF Body
<1> QED
  BY <1>3

\* The steps of a request that change no balance.
LEMMA PassingSteps ==
  ASSUME StoreInv, NEW r \in Requests,
         \/ AskForLock(r) \/ GetLock(r) \/ RecordVote(r) \/ MarkDeposit(r) \/ RejectDeposit(r)
  PROVE  \E to : Passes(r, to)
<1> USE DEF StoreInv, At, Passes, Later
<1>1. CASE AskForLock(r)
  BY <1>1 DEF AskForLock, approvalVars
<1>2. CASE GetLock(r)
  BY <1>2 DEF GetLock, approvalVars
<1>3. CASE RecordVote(r)
  BY <1>3 DEF RecordVote, approvalVars
<1>4. CASE MarkDeposit(r)
  <2>1. Item(r) \in BatchedRows
    BY <1>4, CallFacts DEF MarkDeposit
  <2> QED
    BY <1>4, <2>1 DEF MarkDeposit, approvalVars
<1>5. CASE RejectDeposit(r)
  <2>1. Item(r) \in BatchedRows
    BY <1>5, CallFacts DEF RejectDeposit
  <2> QED
    BY <1>5, <2>1 DEF RejectDeposit, approvalVars
<1> QED
  BY <1>1, <1>2, <1>3, <1>4, <1>5

\* What a step of the backend does to the store, the saves and the requests.
LEMMA StoreStep ==
  ASSUME StoreInv, [Next]_vars
  PROVE  \/ \E r \in Requests : \/ \E where, s : Body(r, where, s)
                                \/ \E to : Passes(r, to)
                                \/ CountCredit(r) \/ RefuseCredit(r) \/ SendWithdrawal(r)
         \/ SaveReturns \/ Restart \/ Stands
<1>1. CASE \E r \in Requests : Arrive(r)
  BY <1>1, OtherBodies, PassingSteps DEF Arrive
<1>2. ASSUME NEW r \in Requests, Finish(r)
      PROVE  Restart \/ \E to : Passes(r, to)
  BY <1>2 DEF Finish, Passes, Later, StoreInv, approvalVars
<1>3. CASE \E r \in Requests : Proceed(r)
  BY <1>2, <1>3, LockedSteps, OtherBodies, PassingSteps, CreditBody DEF Proceed
<1>4. CASE Approving
  BY <1>4 DEF Approving, ServerKeeps, Stands, Proposed, Approved, proposeCredit,
     proposeMarketResolution, approveCredit, approveMarketResolution, Approve, purgeExpired,
     SendCommand, LoseCommand
<1>5. CASE Expire \/ ExpireTradeId \/ Crash \/ UNCHANGED vars
  BY <1>5 DEF Expire, ExpireTradeId, Crash, vars, serverVars, approvalVars, Stands
<1> QED
  BY <1>1, <1>3, <1>4, <1>5 DEF Next


-----------------------------------------------------------------------------
\* A save that starts is made of the rows it is given.
NewSave(s, r, rows, snapshot) ==
  /\ IsSave(s)
  /\ s.by = r /\ s.rows = rows /\ s.committed = FALSE
  /\ WALLET \notin s.deleted /\ s.changed \cap s.deleted = {}
  /\ (\A x \in s.changed : s.rows[x] # Absent) /\ \A x \in s.deleted : s.rows[x] = Absent
  /\ \A x \in Rows \ (s.changed \cup s.deleted) : rows[x] = snapshot[x]

LEMMA SaveStarts ==
  ASSUME NEW r, NEW queued \in BOOLEAN, NEW rows, NEW snapshot, rows[WALLET] \in Wallets
  PROVE  NewSave(Save(r, queued, rows, snapshot), r, rows, snapshot)
<1> DEFINE s == Save(r, queued, rows, snapshot)
<1>1. rows[WALLET] # Absent /\ WALLET \in Rows
  BY WalletIsARow
<1>2. s = [by |-> r, queued |-> queued, rows |-> rows, committed |-> FALSE,
           changed |-> diffRows(rows, snapshot).changed,
           deleted |-> diffRows(rows, snapshot).deleted]
  BY DEF Save
<1> HIDE DEF s
<1>3. IsSave(s) /\ s.by = r /\ s.rows = rows /\ s.committed = FALSE
      /\ s.changed = diffRows(rows, snapshot).changed
      /\ s.deleted = diffRows(rows, snapshot).deleted
  BY <1>2 DEF IsSave
<1>4. NewSave(s, r, rows, snapshot)
  BY <1>1, <1>3 DEF NewSave, diffRows
<1> QED
  BY <1>4 DEF s

\* Committing a save changes nothing else of it.
LEMMA CommittedSave ==
  ASSUME NEW s, IsSave(s), NEW t, t = [s EXCEPT !.committed = TRUE]
  PROVE  /\ IsSave(t) /\ t.committed = TRUE
         /\ t.by = s.by /\ t.rows = s.rows /\ t.changed = s.changed /\ t.deleted = s.deleted
         /\ t.queued = s.queued
<1>1. t = [by |-> s.by, queued |-> s.queued, rows |-> s.rows, committed |-> TRUE,
           changed |-> s.changed, deleted |-> s.deleted]
  BY DEF IsSave
<1> QED
  BY <1>1 DEF IsSave

\* The saves in flight go on fitting while the store grows.
LEMMA SavesStand ==
  ASSUME StoreInv, store'[WALLET] \in Wallets, AtLeast(store'[WALLET], store[WALLET]),
         \A q \in Requests : pc[q] \in Later => pc'[q] \in Later,
         NEW s \in saves
  PROVE  SaveFits(s)'
<1>1. SaveFits(s) /\ store[WALLET] \in Wallets
  BY DEF StoreInv
<1>2. s.by \in Requests /\ pc'[s.by] \in Later
  BY <1>1 DEF SaveFits
<1>3. AtLeast(store'[WALLET], s.rows[WALLET])
  BY <1>1, AtLeastChain DEF SaveFits
<1> QED
  BY <1>1, <1>2, <1>3 DEF SaveFits, IsSave, AtLeast

\* A move to a place after the save.
LEMMA MoveLater ==
  ASSUME DOMAIN pc = Requests, NEW r \in Requests, NEW to, Move(r, to)
  PROVE  /\ DOMAIN pc' = Requests /\ pc'[r] = to
         /\ \A q \in Requests \ {r} : pc'[q] = pc[q]
         /\ (pc[r] \in Later => to \in Later) =>
              \A q \in Requests : pc[q] \in Later => pc'[q] \in Later
BY DEF Move

LEMMA BodyStores ==
  ASSUME StoreInv, NEW r \in Requests, NEW where, NEW s, Body(r, where, s)
  PROVE  StoreInv'
<1>1. /\ store' = s /\ persistAfterMutation(r, s) /\ Move(r, where)
      /\ UNCHANGED <<calls, db, loaded>> /\ where \in Later
  BY DEF Body, SaveAs, persistAfterMutation, Later
<1>2. DOMAIN s = Rows /\ s[WALLET] \in Wallets /\ AtLeast(s[WALLET], store[WALLET])
      /\ \A x \in Rows \ {WALLET} : s[x] = store[x] \/ s[x] # Absent
  BY DEF Body, Grown
<1>3. DOMAIN pc' = Requests /\ pc'[r] = where
      /\ \A q \in Requests : pc[q] \in Later => pc'[q] \in Later
  BY <1>1, MoveLater DEF StoreInv
<1>4. CallsFit'
  BY <1>1 DEF StoreInv, CallsFit
<1>5. AtLeast(store'[WALLET], db'[WALLET]) /\ db'[WALLET] \in Wallets /\ DOMAIN db' = Rows
  BY <1>1, <1>2, AtLeastChain DEF StoreInv
<1>6. \A t \in saves : SaveFits(t)'
  BY <1>1, <1>2, <1>3, SavesStand
<1>7. /\ \A t \in saves' : SaveFits(t)'
      /\ persistMutexQueue' \in Seq(Requests)
      /\ \A i \in DOMAIN persistMutexQueue' : pc'[persistMutexQueue'[i]] \in Later
  <2>1. /\ persistMutexQueue \in Seq(Requests)
        /\ \A i \in DOMAIN persistMutexQueue : pc'[persistMutexQueue[i]] \in Later
    <3>1. persistMutexQueue \in Seq(Requests)
      BY DEF StoreInv
    <3>2. \A i \in DOMAIN persistMutexQueue :
            persistMutexQueue[i] \in Requests /\ pc[persistMutexQueue[i]] \in Later
      BY <3>1 DEF StoreInv
    <3> QED
      BY <1>3, <3>1, <3>2
  <2>2. CASE persistMutexBusy
    <3>1. saves' = saves /\ persistMutexQueue' = Append(persistMutexQueue, r)
      BY <1>1, <2>2 DEF persistAfterMutation
    <3>2. /\ persistMutexQueue' \in Seq(Requests)
          /\ \A i \in DOMAIN persistMutexQueue' :
               \/ i \in DOMAIN persistMutexQueue /\ persistMutexQueue'[i] = persistMutexQueue[i]
               \/ persistMutexQueue'[i] = r
      BY <2>1, <3>1
    <3> QED
      BY <1>1, <1>3, <1>6, <2>1, <3>1, <3>2
  <2>3. CASE ~persistMutexBusy
    <3> PICK t : t = Save(r, FALSE, s, lastWritten)
      OBVIOUS
    <3>1. saves' = saves \cup {t} /\ persistMutexQueue' = persistMutexQueue
      BY <1>1, <2>3 DEF persistAfterMutation, Start
    <3>2. NewSave(t, r, s, lastWritten)
      BY <1>2, SaveStarts
    <3>3. AtLeast(s[WALLET], s[WALLET])
      BY <1>2, WalletFacts
    <3>4. SaveFits(t)'
      BY <1>1, <1>2, <1>3, <3>2, <3>3 DEF NewSave, SaveFits, IsSave, AtLeast
    <3> QED
      BY <1>6, <2>1, <3>1, <3>4
  <2> QED
    BY <2>2, <2>3
<1>8. loaded' \subseteq Rows /\ \A x \in loaded' \ BatchedRows : store'[x] # Absent
  BY <1>1, <1>2, WalletIsARow DEF StoreInv
<1> QED
  BY <1>1, <1>2, <1>3, <1>4, <1>5, <1>7, <1>8 DEF StoreInv

\* Where the wallet, the rows loaded and the saves stay.
LEMMA QuietStores ==
  ASSUME StoreInv, DOMAIN store' = Rows, \A x \in Rows \ BatchedRows : store'[x] = store[x],
         UNCHANGED <<persistVars, calls>>, DOMAIN pc' = Requests,
         \A q \in Requests : pc[q] \in Later => pc'[q] \in Later
  PROVE  StoreInv'
<1>1. UNCHANGED <<db, lastWritten, saves, persistMutexQueue, loaded>>
  BY DEF persistVars
<1>2. store'[WALLET] = store[WALLET]
  BY WalletIsARow
<1>3. store[WALLET] \in Wallets /\ AtLeast(store[WALLET], store[WALLET])
  BY WalletFacts DEF StoreInv
<1>4. \A t \in saves : SaveFits(t)'
  BY <1>2, <1>3, SavesStand
<1>5. persistMutexQueue \in Seq(Requests)
      /\ \A i \in DOMAIN persistMutexQueue : pc'[persistMutexQueue[i]] \in Later
  <2>1. persistMutexQueue \in Seq(Requests)
    BY DEF StoreInv
  <2>2. \A i \in DOMAIN persistMutexQueue :
          persistMutexQueue[i] \in Requests /\ pc[persistMutexQueue[i]] \in Later
    BY <2>1 DEF StoreInv
  <2> QED
    BY <2>1, <2>2
<1>6. \A x \in loaded \ BatchedRows : store'[x] # Absent
  BY DEF StoreInv
<1>7. AtLeast(store'[WALLET], db'[WALLET])
  BY <1>1, <1>2 DEF StoreInv
<1>8. CallsFit'
  BY DEF StoreInv, CallsFit
<1> QED
  BY <1>1, <1>2, <1>3, <1>4, <1>5, <1>6, <1>7, <1>8 DEF StoreInv

\* The caller of a save goes on, to a place after the save.
LEMMA WakeMoves ==
  ASSUME StoreInv, NEW s \in saves, NEW ok, Wake(s.by, ok)
  PROVE  /\ s.by \in Requests /\ DOMAIN pc' = Requests
         /\ \A q \in Requests \ {s.by} : pc'[q] = pc[q]
         /\ pc'[s.by] \in {"sending", "finishing"}
         /\ pc'[s.by] = "sending" => pc[s.by] = "savingDebit" /\ ok
         /\ \A q \in Requests : pc[q] \in Later => pc'[q] \in Later
<1>1. s.by \in Requests /\ pc[s.by] \in Later
  BY DEF StoreInv, SaveFits
<1> DEFINE to == IF pc[s.by] = "savingDebit" /\ ok THEN "sending" ELSE "finishing"
<1>2. Move(s.by, to)
  BY DEF Wake
<1>3. to \in {"sending", "finishing"} /\ to \in Later
      /\ (to = "sending" => pc[s.by] = "savingDebit" /\ ok)
  BY DEF Later
<1> HIDE DEF to
<1>4. /\ DOMAIN pc' = Requests /\ pc'[s.by] = to
      /\ \A q \in Requests \ {s.by} : pc'[q] = pc[q]
      /\ \A q \in Requests : pc[q] \in Later => pc'[q] \in Later
  BY <1>1, <1>2, <1>3, MoveLater DEF StoreInv
<1> QED
  BY <1>1, <1>3, <1>4

\* What is left after a save, or starts after it, fits.
LEMMA DrainStores ==
  ASSUME StoreInv, NEW s \in saves, Drain(s), UNCHANGED <<store, db, calls, loaded>>,
         DOMAIN pc' = Requests, \A q \in Requests : pc[q] \in Later => pc'[q] \in Later
  PROVE  StoreInv'
<1>1. store[WALLET] \in Wallets /\ AtLeast(store[WALLET], store[WALLET])
  BY WalletFacts DEF StoreInv
<1>2. \A t \in saves : SaveFits(t)'
  BY <1>1, SavesStand
<1>3. persistMutexQueue \in Seq(Requests)
  BY DEF StoreInv
<1>4. \A i \in DOMAIN persistMutexQueue :
        persistMutexQueue[i] \in Requests /\ pc'[persistMutexQueue[i]] \in Later
  BY <1>3 DEF StoreInv
<1>5. /\ \A t \in saves' : SaveFits(t)'
      /\ persistMutexQueue' \in Seq(Requests)
      /\ \A i \in DOMAIN persistMutexQueue' : pc'[persistMutexQueue'[i]] \in Later
  <2>1. CASE s.queued \/ persistMutexQueue = << >>
    <3>1. saves' = saves \ {s} /\ persistMutexQueue' = persistMutexQueue
      BY <2>1 DEF Drain
    <3> QED
      BY <1>2, <1>3, <1>4, <3>1
  <2>2. CASE ~(s.queued \/ persistMutexQueue = << >>)
    <3> PICK newest, t : newest = Last(persistMutexQueue) /\ t = Save(newest, TRUE, store, lastWritten')
      OBVIOUS
    <3>1. saves' = (saves \ {s}) \cup {t} /\ persistMutexQueue' = << >>
      BY <2>2 DEF Drain, Start
    <3>2. newest \in Requests /\ pc'[newest] \in Later
      <4>1. Len(persistMutexQueue) \in DOMAIN persistMutexQueue
            /\ newest = persistMutexQueue[Len(persistMutexQueue)]
        BY <1>3, <2>2 DEF Last
      <4> QED
        BY <1>4, <4>1
    <3>3. NewSave(t, newest, store, lastWritten')
      BY <1>1, SaveStarts
    <3>4. SaveFits(t)'
      BY <1>1, <3>2, <3>3 DEF NewSave, SaveFits, IsSave, AtLeast
    <3>5. \A u \in saves' : SaveFits(u)'
      BY <1>2, <3>1, <3>4
    <3>6. << >> \in Seq(Requests) /\ DOMAIN << >> = {}
      OBVIOUS
    <3> QED
      BY <3>1, <3>5, <3>6
  <2> QED
    BY <2>1, <2>2
<1>6. CallsFit'
  BY DEF StoreInv, CallsFit
<1> QED
  BY <1>1, <1>5, <1>6 DEF StoreInv, AtLeast

\* The transaction of a save: what it writes of the wallet the store has since.
LEMMA CommitStores ==
  ASSUME StoreInv, NEW s \in saves, CommitSave(s), UNCHANGED <<pc, calls>>
  PROVE  /\ StoreInv'
         /\ db'[WALLET] = IF WALLET \in s.changed THEN s.rows[WALLET] ELSE db[WALLET]
<1> DEFINE t == [s EXCEPT !.committed = TRUE]
<1>1. /\ saves' = (saves \ {s}) \cup {t}
      /\ UNCHANGED <<store, persistMutexQueue, loaded>> /\ DOMAIN db' = Rows
  BY DEF CommitSave
<1>2. SaveFits(s)
  BY DEF StoreInv
<1>3. /\ IsSave(t) /\ t.by = s.by /\ t.rows = s.rows /\ t.changed = s.changed
      /\ t.deleted = s.deleted
  BY <1>2, CommittedSave DEF SaveFits
<1> HIDE DEF t
<1>4. SaveFits(t)
  BY <1>2, <1>3 DEF SaveFits
<1>5. \A u \in saves' : SaveFits(u)
  BY <1>1, <1>4 DEF StoreInv
<1>6. \A u \in saves' : SaveFits(u)'
  BY <1>1, <1>5 DEF SaveFits, IsSave, AtLeast
<1>7. db'[WALLET] = IF WALLET \in s.changed THEN s.rows[WALLET] ELSE db[WALLET]
  BY <1>2, WalletIsARow DEF CommitSave, SaveFits, Written
<1>8. db'[WALLET] \in Wallets /\ AtLeast(store[WALLET], db'[WALLET])
  BY <1>2, <1>7 DEF StoreInv, SaveFits
<1>9. CallsFit'
  BY DEF StoreInv, CallsFit
<1> QED
  BY <1>1, <1>6, <1>7, <1>8, <1>9 DEF StoreInv

LEMMA RestartStores ==
  ASSUME StoreInv, Restart
  PROVE  StoreInv'
<1>1. /\ store' = db /\ db' = db /\ saves' = {} /\ persistMutexQueue' = << >>
      /\ loaded' = {r \in Rows : db[r] # Absent} /\ calls' = calls
      /\ DOMAIN pc' = Requests
  BY DEF Restart, load
<1>2. AtLeast(db[WALLET], db[WALLET]) /\ db[WALLET] \in Wallets
  BY WalletFacts DEF StoreInv
<1>3. CallsFit'
  BY <1>1 DEF StoreInv, CallsFit
<1> QED
  BY <1>1, <1>2, <1>3 DEF StoreInv

LEMMA StoreStarts == BackendInit => StoreInv
<1> SUFFICES ASSUME BackendInit PROVE StoreInv
  OBVIOUS
<1>1. EmptyWallet \in Wallets
  BY DEF EmptyWallet, Wallets
<1>2. store[WALLET] = EmptyWallet /\ DOMAIN store = Rows
  BY WalletIsARow DEF BackendInit
<1>3. /\ db = store /\ saves = {} /\ persistMutexQueue = << >> /\ loaded = {}
      /\ DOMAIN pc = Requests /\ CallsFit
  BY DEF BackendInit, PersistInit, CallsFit
<1> QED
  BY <1>1, <1>2, <1>3, WalletFacts DEF StoreInv

LEMMA StoreKept == StoreInv /\ [Next]_vars => StoreInv'
<1> SUFFICES ASSUME StoreInv, [Next]_vars PROVE StoreInv'
  OBVIOUS
<1>1. ASSUME NEW r \in Requests, NEW to, Passes(r, to) PROVE StoreInv'
  BY <1>1, MoveLater, QuietStores DEF Passes, StoreInv
<1>2. ASSUME NEW r \in Requests, CountCredit(r) \/ RefuseCredit(r) \/ SendWithdrawal(r)
      PROVE  StoreInv'
  <2>1. /\ UNCHANGED <<persistVars, calls, store>>
        /\ \E to : Move(r, to) /\ (pc[r] \in Later => to \in Later)
    BY <1>2 DEF CountCredit, RefuseCredit, SendWithdrawal, ServerKeeps, At, Later
  <2> QED
    BY <2>1, MoveLater, QuietStores DEF StoreInv
<1>3. CASE SaveReturns
  <2> PICK s \in saves :
        \/ CommitSave(s) /\ UNCHANGED <<pc, faults>>
        \/ FinishSave(s) /\ Wake(s.by, TRUE) /\ UNCHANGED faults
        \/ Fault("db") /\ FailSave(s) /\ Wake(s.by, s.queued)
    BY <1>3 DEF SaveReturns
  <2>1. calls' = calls
    BY <1>3 DEF SaveReturns
  <2>2. CASE CommitSave(s) /\ UNCHANGED <<pc, faults>>
    BY <2>1, <2>2, CommitStores
  <2>3. CASE FinishSave(s) /\ Wake(s.by, TRUE)
    BY <2>1, <2>3, WakeMoves, DrainStores DEF FinishSave
  <2>4. CASE FailSave(s) /\ Wake(s.by, s.queued)
    BY <2>1, <2>4, WakeMoves, DrainStores DEF FailSave
  <2> QED
    BY <2>2, <2>3, <2>4
<1>4. CASE Restart
  BY <1>4, RestartStores
<1>5. CASE Stands
  <2>1. UNCHANGED <<persistVars, calls, pc, store>>
    BY <1>5 DEF Stands
  <2> QED
    BY <2>1, QuietStores DEF StoreInv
<1> QED
  BY <1>1, <1>2, <1>3, <1>4, <1>5, StoreStep, BodyStores


-----------------------------------------------------------------------------
\* How many requests are at a place when one of them moves.
LEMMA Places ==
  ASSUME DOMAIN pc = Requests, NEW w
  PROVE  IsFiniteSet(AtPlace(w)) /\ Cardinality(AtPlace(w)) \in Nat
BY BackendAssumption, FS_Subset, FS_CardinalityType DEF AtPlace

LEMMA PlacesStand ==
  ASSUME NEW w, \A q \in Requests : pc'[q] = w <=> pc[q] = w
  PROVE  AtPlace(w)' = AtPlace(w)
BY DEF AtPlace

LEMMA PlaceLeft ==
  ASSUME DOMAIN pc = Requests, NEW r \in Requests, NEW to, Move(r, to), NEW w, pc[r] = w, to # w
  PROVE  Cardinality(AtPlace(w)') = Cardinality(AtPlace(w)) - 1
<1>1. AtPlace(w)' = AtPlace(w) \ {r} /\ r \in AtPlace(w)
  BY MoveLater DEF AtPlace
<1>2. IsFiniteSet(AtPlace(w))
  BY Places
<1> QED
  BY <1>1, <1>2, FS_RemoveElement

LEMMA PlaceReached ==
  ASSUME DOMAIN pc = Requests, NEW r \in Requests, NEW to, Move(r, to), NEW w, pc[r] # w, to = w
  PROVE  Cardinality(AtPlace(w)') = Cardinality(AtPlace(w)) + 1
<1>1. AtPlace(w)' = AtPlace(w) \cup {r} /\ r \notin AtPlace(w)
  BY MoveLater DEF AtPlace
<1>2. IsFiniteSet(AtPlace(w))
  BY Places
<1> QED
  BY <1>1, <1>2, FS_AddElement

LEMMA PlacePassed ==
  ASSUME DOMAIN pc = Requests, NEW r \in Requests, NEW to, Move(r, to), NEW w, pc[r] # w, to # w
  PROVE  AtPlace(w)' = AtPlace(w)
BY MoveLater, PlacesStand

\* The credits of a wallet are a whole number, and grow with what it gets.
LEMMA CreditedFacts ==
  ASSUME NEW w \in Wallets
  PROVE  /\ IsFiniteSet(Items \cap Credits)
         /\ \A i \in Items \cap Credits : w.gets[i] \in Int
         /\ Credited(w) \in Int
<1>1. IsFiniteSet(Items \cap Credits)
  BY BackendAssumption, FS_Subset
<1>2. \A i \in Items \cap Credits : w.gets[i] \in Int
  BY WalletFacts
<1>3. SumFunctionOnSet(w.gets, Items \cap Credits) \in Int
  BY ONLY <1>1, <1>2, SumInt
<1> QED
  BY <1>1, <1>2, <1>3 DEF Credited

LEMMA CreditedGrows ==
  ASSUME NEW w \in Wallets, NEW v \in Wallets, AtLeast(w, v)
  PROVE  Credited(v) <= Credited(w)
<1> DEFINE C == Items \cap Credits
<1>1. IsFiniteSet(C) /\ \A i \in C : v.gets[i] \in Int /\ w.gets[i] \in Int /\ v.gets[i] <= w.gets[i]
  BY CreditedFacts DEF AtLeast
<1> HIDE DEF C
<1>2. SumFunctionOnSet(v.gets, C) <= SumFunctionOnSet(w.gets, C)
  BY ONLY <1>1, SumAtMost
<1> QED
  BY <1>2 DEF Credited, C

LEMMA BodyDaily ==
  ASSUME StoreInv, DailyInv, NEW r \in Requests, NEW where, NEW s, Body(r, where, s)
  PROVE  DailyInv'
<1> DEFINE C == Items \cap Credits
           f == store[WALLET].gets
           g == s[WALLET].gets
<1>1. /\ store' = s /\ Move(r, where) /\ dailyCredit' = dailyCredit
      /\ where \notin {"counted", "over"} /\ pc[r] # "over"
      /\ s[WALLET] \in Wallets /\ store[WALLET] \in Wallets /\ DOMAIN pc = Requests
  BY DEF Body, SaveAs, Grown, StoreInv
<1>2. /\ IsFiniteSet(C) /\ \A i \in C : f[i] \in Int /\ g[i] \in Int
  BY <1>1, CreditedFacts
<1>3. Credited(store[WALLET]) \in Int /\ Credited(s[WALLET]) \in Int
  BY <1>1, CreditedFacts
<1>4. /\ Credited(store[WALLET]) = SumFunctionOnSet(f, C)
      /\ Credited(s[WALLET]) = SumFunctionOnSet(g, C)
      /\ Credited(store[WALLET])' = Credited(s[WALLET])
  BY <1>1 DEF Credited
<1>5. AtPlace("over")' = AtPlace("over")
  BY <1>1, PlacePassed
<1>6. /\ Cardinality(AtPlace("counted")) \in Nat /\ Cardinality(AtPlace("over")) \in Nat
      /\ dailyCredit \in Int /\ MAX_DAILY_CREDIT \in Nat
  BY <1>1, Places, BackendAssumption DEF DailyInv
<1>7. /\ Credited(store[WALLET]) + Cardinality(AtPlace("counted")) <= MAX_DAILY_CREDIT
      /\ Credited(store[WALLET]) + Cardinality(AtPlace("counted")) + Cardinality(AtPlace("over"))
           <= dailyCredit
  BY DEF DailyInv
<1>8. CASE pc[r] = "counted"
  <2>1. Item(r) \in C /\ g = [f EXCEPT ![Item(r)] = @ + 1] /\ f \in [Items -> Nat]
    BY <1>1, <1>8, WalletFacts DEF Body
  <2>2. g[Item(r)] = f[Item(r)] + 1 /\ \A i \in C \ {Item(r)} : f[i] = g[i]
    BY <2>1
  <2> HIDE DEF C, f, g
  <2>3. SumFunctionOnSet(g, C) = SumFunctionOnSet(f, C) - f[Item(r)] + g[Item(r)]
    <3> PICK i : i = Item(r)
      OBVIOUS
    <3>1. i \in C /\ \A x \in C \ {i} : f[x] = g[x]
      BY <2>1, <2>2
    <3>2. SumFunctionOnSet(g, C) = SumFunctionOnSet(f, C) - f[i] + g[i]
      BY ONLY <1>2, <3>1, SumUpdate
    <3> QED
      BY <3>2
  <2>4. Credited(s[WALLET]) = Credited(store[WALLET]) + 1
    <3>1. f[Item(r)] \in Int
      BY <1>2, <2>1
    <3> QED
      BY <1>3, <1>4, <2>2, <2>3, <3>1
  <2>5. Cardinality(AtPlace("counted")') = Cardinality(AtPlace("counted")) - 1
    BY <1>1, <1>8, PlaceLeft
  <2> QED
    BY <1>1, <1>3, <1>4, <1>5, <1>6, <1>7, <2>4, <2>5 DEF DailyInv
<1>9. CASE pc[r] # "counted"
  <2>1. \A i \in C : g[i] = f[i]
    BY <1>9 DEF Body
  <2> HIDE DEF C, f, g
  <2>2. SumFunctionOnSet(g, C) = SumFunctionOnSet(f, C)
    BY ONLY <1>2, <2>1, SumSame
  <2>3. AtPlace("counted")' = AtPlace("counted")
    BY <1>1, <1>9, PlacePassed
  <2> QED
    BY <1>1, <1>4, <1>5, <1>6, <1>7, <2>2, <2>3 DEF DailyInv
<1> QED
  BY <1>8, <1>9

\* Where neither the wallet nor the counter changes, nor who is on the way.
LEMMA DailyStands ==
  ASSUME DailyInv, store'[WALLET] = store[WALLET], dailyCredit' = dailyCredit,
         AtPlace("counted")' = AtPlace("counted"), AtPlace("over")' = AtPlace("over")
  PROVE  DailyInv'
BY DEF DailyInv, Credited

\* The counter is raised first, and decides whether the credit goes on.
LEMMA CountDaily ==
  ASSUME StoreInv, DailyInv, NEW r \in Requests, CountCredit(r)
  PROVE  DailyInv'
<1> DEFINE credited == Credited(store[WALLET])
           counted == Cardinality(AtPlace("counted"))
           over == Cardinality(AtPlace("over"))
<1>1. /\ store' = store /\ pc[r] = "locked" /\ dailyCredit' = dailyCredit + 1
      /\ Move(r, IF dailyCredit' > MAX_DAILY_CREDIT THEN "over" ELSE "counted")
      /\ DOMAIN pc = Requests /\ store[WALLET] \in Wallets
  BY DEF CountCredit, At, IncreaseDailyCredit, CREDIT_AMOUNT, OverDailyLimit, ServerKeeps, StoreInv
<1>2. counted \in Nat /\ over \in Nat /\ credited \in Int /\ dailyCredit \in Int
      /\ MAX_DAILY_CREDIT \in Nat
  BY <1>1, Places, CreditedFacts, BackendAssumption DEF DailyInv
<1>3. credited + counted <= MAX_DAILY_CREDIT /\ credited + counted + over <= dailyCredit
  BY DEF DailyInv
<1>4. Credited(store[WALLET])' = credited
  BY <1>1 DEF Credited
<1>5. CASE dailyCredit' > MAX_DAILY_CREDIT
  <2>1. Move(r, "over")
    BY <1>1, <1>5
  <2>2. Cardinality(AtPlace("over")') = over + 1
    BY <1>1, <2>1, PlaceReached
  <2>3. AtPlace("counted")' = AtPlace("counted")
    BY <1>1, <2>1, PlacePassed
  <2> QED
    BY <1>1, <1>2, <1>3, <1>4, <2>2, <2>3 DEF DailyInv
<1>6. CASE ~(dailyCredit' > MAX_DAILY_CREDIT)
  <2>1. Move(r, "counted")
    BY <1>1, <1>6
  <2>2. Cardinality(AtPlace("counted")') = counted + 1
    BY <1>1, <2>1, PlaceReached
  <2>3. AtPlace("over")' = AtPlace("over")
    BY <1>1, <2>1, PlacePassed
  <2> QED
    BY <1>1, <1>2, <1>3, <1>4, <1>6, <2>2, <2>3 DEF DailyInv
<1> QED
  BY <1>5, <1>6

LEMMA RefuseDaily ==
  ASSUME StoreInv, DailyInv, NEW r \in Requests, RefuseCredit(r)
  PROVE  DailyInv'
<1> DEFINE credited == Credited(store[WALLET])
           counted == Cardinality(AtPlace("counted"))
           over == Cardinality(AtPlace("over"))
<1>1. /\ store' = store /\ pc[r] = "over" /\ dailyCredit' = dailyCredit - 1
      /\ Move(r, "finishing") /\ DOMAIN pc = Requests /\ store[WALLET] \in Wallets
  BY DEF RefuseCredit, At, RevertDailyCredit, CREDIT_AMOUNT, ServerKeeps, StoreInv
<1>2. counted \in Nat /\ over \in Nat /\ credited \in Int /\ dailyCredit \in Int
      /\ MAX_DAILY_CREDIT \in Nat
  BY <1>1, Places, CreditedFacts, BackendAssumption DEF DailyInv
<1>3. credited + counted <= MAX_DAILY_CREDIT /\ credited + counted + over <= dailyCredit
  BY DEF DailyInv
<1>4. Credited(store[WALLET])' = credited
  BY <1>1 DEF Credited
<1>5. Cardinality(AtPlace("over")') = over - 1
  BY <1>1, PlaceLeft
<1>6. AtPlace("counted")' = AtPlace("counted")
  BY <1>1, PlacePassed
<1> QED
  BY <1>1, <1>2, <1>3, <1>4, <1>5, <1>6 DEF DailyInv

\* A restart forgets who was on the way; the wallet goes back to what was saved.
LEMMA RestartDaily ==
  ASSUME StoreInv, DailyInv, Restart
  PROVE  DailyInv'
<1>1. /\ store' = db /\ dailyCredit' = dailyCredit
      /\ pc' = [q \in Requests |-> IF pc[q] = "idle" THEN "idle" ELSE "done"]
  BY DEF Restart, load, loadPendingFromRedis
<1>2. /\ AtPlace("counted")' = {} /\ AtPlace("over")' = {}
      /\ Cardinality({}) = 0
  BY <1>1, FS_EmptySet DEF AtPlace
<1>3. /\ Credited(db[WALLET]) <= Credited(store[WALLET])
      /\ Credited(db[WALLET]) \in Int /\ Credited(store[WALLET]) \in Int
  BY CreditedGrows, CreditedFacts DEF StoreInv
<1>4. Credited(store[WALLET])' = Credited(db[WALLET])
  BY <1>1 DEF Credited
<1>5. /\ Cardinality(AtPlace("counted")) \in Nat /\ Cardinality(AtPlace("over")) \in Nat
      /\ dailyCredit \in Int /\ MAX_DAILY_CREDIT \in Nat
  BY Places, BackendAssumption DEF DailyInv, StoreInv
<1>6. /\ Credited(store[WALLET]) + Cardinality(AtPlace("counted")) <= MAX_DAILY_CREDIT
      /\ Credited(store[WALLET]) + Cardinality(AtPlace("counted")) + Cardinality(AtPlace("over"))
           <= dailyCredit
  BY DEF DailyInv
<1>7. Cardinality(AtPlace("counted")') = 0 /\ Cardinality(AtPlace("over")') = 0
  BY <1>2
<1> DEFINE c == Credited(store[WALLET])
           d == Credited(db[WALLET])
           m == Cardinality(AtPlace("counted"))
           n == Cardinality(AtPlace("over"))
<1>8. d + 0 <= MAX_DAILY_CREDIT /\ d + 0 + 0 <= dailyCredit
  <2> HIDE DEF c, d, m, n
  <2>1. d \in Int /\ c \in Int /\ d <= c /\ m \in Nat /\ n \in Nat
    BY <1>3, <1>5 DEF c, d, m, n
  <2>2. c + m <= MAX_DAILY_CREDIT /\ c + m + n <= dailyCredit
    BY <1>6 DEF c, d, m, n
  <2> QED
    BY <1>5, <2>1, <2>2
<1> HIDE DEF c, d, m, n
<1> QED
  BY <1>1, <1>4, <1>5, <1>7, <1>8 DEF DailyInv, d

LEMMA DailyKept == StoreInv /\ DailyInv /\ [Next]_vars => DailyInv'
<1> SUFFICES ASSUME StoreInv, DailyInv, [Next]_vars PROVE DailyInv'
  OBVIOUS
<1>1. DOMAIN pc = Requests
  BY DEF StoreInv
<1>2. ASSUME NEW r \in Requests, NEW to, Passes(r, to) PROVE DailyInv'
  <2>1. Move(r, to) /\ pc[r] \notin {"counted", "over"} /\ to \notin {"counted", "over"}
        /\ dailyCredit' = dailyCredit /\ store'[WALLET] = store[WALLET]
    BY <1>2, WalletIsARow DEF Passes
  <2> QED
    BY <1>1, <2>1, PlacePassed, DailyStands
<1>3. ASSUME NEW r \in Requests, SendWithdrawal(r) PROVE DailyInv'
  <2>1. \E to \in {"sent", "unsent"} : Move(r, to)
    BY <1>3 DEF SendWithdrawal
  <2>2. pc[r] = "sending" /\ dailyCredit' = dailyCredit /\ store'[WALLET] = store[WALLET]
    BY <1>3 DEF SendWithdrawal, At, approvalVars
  <2> QED
    BY <1>1, <2>1, <2>2, PlacePassed, DailyStands
<1>4. CASE SaveReturns
  <2>1. store' = store /\ dailyCredit' = dailyCredit
    BY <1>4 DEF SaveReturns, CommitSave, FinishSave, FailSave, approvalVars
  <2>2. \A q \in Requests : pc'[q] = pc[q] \/ (pc[q] \in Later /\ pc'[q] \in Later)
    <3> PICK s \in saves : UNCHANGED pc \/ \E ok : Wake(s.by, ok)
      BY <1>4 DEF SaveReturns
    <3>1. s.by \in Requests /\ pc[s.by] \in Later
      BY DEF StoreInv, SaveFits
    <3>2. CASE UNCHANGED pc
      BY <3>2
    <3>3. CASE \E ok : Wake(s.by, ok)
      <4> PICK ok : Wake(s.by, ok)
        BY <3>3
      <4>1. /\ \A q \in Requests \ {s.by} : pc'[q] = pc[q]
            /\ pc'[s.by] \in {"sending", "finishing"}
        BY WakeMoves
      <4> QED
        BY <3>1, <4>1 DEF Later
    <3> QED
      BY <3>2, <3>3
  <2>3. AtPlace("counted")' = AtPlace("counted") /\ AtPlace("over")' = AtPlace("over")
    BY <2>2, PlacesStand DEF Later
  <2> QED
    BY <2>1, <2>3, DailyStands
<1>5. CASE Stands
  BY <1>5, PlacesStand, DailyStands DEF Stands
<1> QED
  BY <1>2, <1>3, <1>4, <1>5, StoreStep, BodyDaily, CountDaily, RefuseDaily, RestartDaily

LEMMA DailyStarts == BackendInit => DailyInv
<1> SUFFICES ASSUME BackendInit PROVE DailyInv
  OBVIOUS
<1>1. /\ dailyCredit = 0 /\ pc = [r \in Requests |-> "idle"]
      /\ store[WALLET] = EmptyWallet
  BY WalletIsARow DEF BackendInit, ApprovalsInit
<1>2. AtPlace("counted") = {} /\ AtPlace("over") = {} /\ Cardinality({}) = 0
  BY <1>1, FS_EmptySet DEF AtPlace
<1> DEFINE C == Items \cap Credits
           f == EmptyWallet.gets
<1>3. IsFiniteSet(C) /\ \A i \in C : f[i] = 0
  BY BackendAssumption, FS_Subset DEF EmptyWallet
<1>4. Credited(store[WALLET]) = SumFunctionOnSet(f, C)
  BY <1>1 DEF Credited
<1> HIDE DEF C, f
<1>5. SumFunctionOnSet(f, C) = 0
  BY ONLY <1>3, SumZero
<1> QED
  BY <1>1, <1>2, <1>4, <1>5, BackendAssumption DEF DailyInv

\* The credits of a wallet never exceed the day's limit, in whatever order
\* executions that run at once, or after their locks lapsed, raise the counter
\* and move the money, and whatever a crash lets them forget (server.ts,
\* checkAndRecordDailyCredit and the route that executes a credit).
THEOREM DailyLimitIsHeld == Spec => []DailyLimitHeld
<1>1. StoreInv /\ DailyInv => DailyLimitHeld
  <2> SUFFICES ASSUME StoreInv, DailyInv PROVE DailyLimitHeld
    OBVIOUS
  <2> DEFINE C == Items \cap Credits
             f == store[WALLET].gets
             g == [i \in C |-> f[i]]
  <2>1. store[WALLET] \in Wallets
    BY DEF StoreInv
  <2>2. IsFiniteSet(C) /\ \A i \in C : g[i] = f[i]
    BY <2>1, CreditedFacts
  <2>3. SumFunction(g) = SumFunctionOnSet(g, C)
    BY DEF SumFunction
  <2>4. Credited(store[WALLET]) = SumFunctionOnSet(f, C)
    BY DEF Credited
  <2>5. Credited(store[WALLET]) \in Int /\ Cardinality(AtPlace("counted")) \in Nat
        /\ Credited(store[WALLET]) + Cardinality(AtPlace("counted")) <= MAX_DAILY_CREDIT
        /\ MAX_DAILY_CREDIT \in Nat
    BY <2>1, CreditedFacts, Places, BackendAssumption DEF StoreInv, DailyInv
  <2> HIDE DEF C, f, g
  <2>6. SumFunctionOnSet(g, C) = SumFunctionOnSet(f, C)
    BY ONLY <2>2, SumSame
  <2>7. SumFunction(g) <= MAX_DAILY_CREDIT
    BY <2>3, <2>4, <2>5, <2>6
  <2> QED
    BY <2>7 DEF DailyLimitHeld, g, f, C
<1> QED
  BY <1>1, StoreStarts, StoreKept, DailyStarts, DailyKept, PTL DEF Spec


-----------------------------------------------------------------------------
\* While no two saves were ever in flight together, what a snapshot calls
\* written is known of the save there is, or of none.
LEMMA OnlySave ==
  ASSUME WrittenInv, ~overlapped, NEW s \in saves
  PROVE  SaveAlone(s)
<1>1. PICK t \in saves : SaveAlone(t)
  BY DEF WrittenInv
<1>2. s = t
  BY <1>1 DEF SaveAlone
<1> QED
  BY <1>1, <1>2

LEMMA BodyWritten ==
  ASSUME StoreInv, WrittenInv, NEW r \in Requests, NEW where, NEW s, Body(r, where, s)
  PROVE  WrittenInv'
<1>1. persistAfterMutation(r, s) /\ UNCHANGED <<db, lastWritten, loaded>>
  BY DEF Body, SaveAs, persistAfterMutation
<1>2. CASE persistMutexBusy
  <2>1. UNCHANGED <<saves, overlapped>>
    BY <1>1, <1>2 DEF persistAfterMutation
  <2> QED
    BY <1>1, <2>1 DEF WrittenInv, SaveAlone, Agrees, Advanced
<1>3. CASE ~persistMutexBusy
  <2> SUFFICES ASSUME ~overlapped' PROVE WrittenInv'
    BY DEF WrittenInv
  <2> PICK t : t = Save(r, FALSE, s, lastWritten)
    OBVIOUS
  <2>1. saves' = saves \cup {t} /\ saves = {} /\ ~overlapped
    BY <1>1, <1>3 DEF persistAfterMutation, Start
  <2>2. Agrees(lastWritten)'
    BY <1>1, <2>1 DEF WrittenInv, Agrees
  <2>3. s[WALLET] \in Wallets /\ AtLeast(s[WALLET], store[WALLET])
    BY DEF Body, Grown
  <2>4. AtLeast(s[WALLET], db[WALLET])
    BY <2>3, AtLeastChain DEF StoreInv
  <2>5. NewSave(t, r, s, lastWritten)
    BY <2>3, SaveStarts
  <2>6. SaveAlone(t)'
    BY <1>1, <2>1, <2>2, <2>4, <2>5 DEF NewSave, SaveAlone, AtLeast
  <2> QED
    BY <2>1, <2>6 DEF WrittenInv
<1> QED
  BY <1>2, <1>3

\* What a save writes is what its snapshots will say.
LEMMA CommitWritten ==
  ASSUME StoreInv, WrittenInv, NEW s \in saves, CommitSave(s), UNCHANGED <<pc, calls>>
  PROVE  WrittenInv'
<1> SUFFICES ASSUME ~overlapped' PROVE WrittenInv'
  BY DEF WrittenInv
<1> PICK t : t = [s EXCEPT !.committed = TRUE]
  OBVIOUS
<1>1. /\ saves' = (saves \ {s}) \cup {t} /\ ~s.committed
      /\ UNCHANGED <<store, lastWritten, overlapped, loaded>>
      /\ \A r \in Rows :
           db'[r] = IF r \in s.deleted THEN Absent
                    ELSE IF r \in s.changed /\ ~(/\ r \in BatchedRows /\ lastWritten[r] = Absent
                                                 /\ db[r] # Absent)
                         THEN Written(r, s.rows[r])
                         ELSE db[r]
  BY DEF CommitSave
<1>2. SaveFits(s) /\ SaveAlone(s)
  BY <1>1, OnlySave DEF StoreInv
<1>3. /\ IsSave(t) /\ t.by = s.by /\ t.rows = s.rows /\ t.changed = s.changed
      /\ t.deleted = s.deleted /\ t.committed = TRUE
  BY <1>2, CommittedSave DEF SaveFits
<1>4. saves' = {t}
  BY <1>1, <1>2 DEF SaveAlone
<1>5. Agrees(lastWritten)
  BY <1>1, <1>2 DEF SaveAlone
<1>6. \A r \in s.changed : s.rows[r] # Absent
  BY <1>2 DEF SaveFits
<1>7. Agrees(Advanced(t))'
  <2> SUFFICES ASSUME NEW r \in Rows \ (BatchedRows \cap loaded)
               PROVE  IF Advanced(t)'[r] # Absent THEN db'[r] = Written(r, Advanced(t)'[r])
                      ELSE r \in loaded \/ db'[r] = Absent
    BY <1>1 DEF Agrees, Written
  <2>1. Advanced(t)'[r] = IF r \in s.changed THEN s.rows[r]
                          ELSE IF r \in s.deleted THEN Absent ELSE lastWritten[r]
    BY <1>1, <1>3 DEF Advanced
  <2>2. IF lastWritten[r] # Absent THEN db[r] = Written(r, lastWritten[r])
        ELSE r \in loaded \/ db[r] = Absent
    BY <1>5 DEF Agrees
  <2>3. CASE r \in s.deleted /\ r \notin s.changed
    BY <1>1, <2>1, <2>3
  <2>4. CASE r \in s.changed /\ r \notin s.deleted
    BY <1>1, <1>6, <2>1, <2>2, <2>4
  <2>5. CASE r \notin s.changed /\ r \notin s.deleted
    BY <1>1, <2>1, <2>2, <2>5
  <2>6. ~(r \in s.changed /\ r \in s.deleted)
    BY <1>2 DEF SaveFits
  <2> QED
    BY <2>3, <2>4, <2>5, <2>6
<1>8. /\ t.committed \in BOOLEAN
      /\ \A r \in Rows \ (t.changed \cup t.deleted) : t.rows[r] = lastWritten[r]
      /\ AtLeast(t.rows[WALLET], db'[WALLET])
  <2>1. db'[WALLET] = IF WALLET \in s.changed THEN s.rows[WALLET] ELSE db[WALLET]
    BY CommitStores
  <2>2. AtLeast(s.rows[WALLET], s.rows[WALLET]) /\ AtLeast(s.rows[WALLET], db[WALLET])
    BY <1>2, WalletFacts DEF SaveFits, SaveAlone
  <2> QED
    BY <1>2, <1>3, <2>1, <2>2 DEF SaveAlone
<1>9. SaveAlone(t)'
  BY <1>1, <1>3, <1>4, <1>7, <1>8 DEF SaveAlone, AtLeast
<1> QED
  BY <1>4, <1>9 DEF WrittenInv

\* The save that was alone is over, and the next one compares with its snapshots.
LEMMA DrainWritten ==
  ASSUME StoreInv, ~overlapped', NEW s \in saves, SaveAlone(s), Drain(s),
         UNCHANGED <<store, db, loaded>>, Agrees(lastWritten)'
  PROVE  WrittenInv'
<1>1. saves = {s}
  BY DEF SaveAlone
<1>2. CASE s.queued \/ persistMutexQueue = << >>
  <2>1. saves' = {}
    BY <1>1, <1>2 DEF Drain
  <2> QED
    BY <2>1 DEF WrittenInv
<1>3. CASE ~(s.queued \/ persistMutexQueue = << >>)
  <2> PICK newest, snapshot, t : /\ newest = Last(persistMutexQueue) /\ snapshot = lastWritten'
                                 /\ t = Save(newest, TRUE, store, snapshot)
    OBVIOUS
  <2>1. saves' = {t}
    BY <1>1, <1>3 DEF Drain, Start
  <2>2. store[WALLET] \in Wallets /\ AtLeast(store[WALLET], db[WALLET])
    BY DEF StoreInv
  <2>3. NewSave(t, newest, store, snapshot)
    BY <2>2, SaveStarts
  <2>4. SaveAlone(t)'
    BY <2>1, <2>2, <2>3 DEF NewSave, SaveAlone, AtLeast
  <2> QED
    BY <2>1, <2>4 DEF WrittenInv
<1> QED
  BY <1>2, <1>3

\* A save ends: what its snapshots say after it is in the database.
LEMMA EndWritten ==
  ASSUME StoreInv, WrittenInv, NEW s \in saves, FinishSave(s) \/ FailSave(s)
  PROVE  WrittenInv'
<1> SUFFICES ASSUME ~overlapped' PROVE WrittenInv'
  BY DEF WrittenInv
<1>1. ~overlapped /\ Drain(s) /\ UNCHANGED <<store, db, loaded>>
  BY DEF FinishSave, FailSave, Drain, Start
<1>2. SaveAlone(s)
  BY <1>1, OnlySave
<1>3. Agrees(lastWritten)'
  <2>1. CASE FinishSave(s)
    <3>1. s.committed /\ lastWritten' = Advanced(s)
      BY <2>1 DEF FinishSave
    <3>2. Agrees(Advanced(s))
      BY <1>2, <3>1 DEF SaveAlone
    <3> QED
      BY <1>1, <3>1, <3>2 DEF Agrees
  <2>2. CASE FailSave(s)
    <3>1. ~s.committed /\ lastWritten' = lastWritten
      BY <2>2 DEF FailSave, SnapshotsAfterFailure
    <3>2. Agrees(lastWritten)
      BY <1>2, <3>1 DEF SaveAlone
    <3> QED
      BY <1>1, <3>1, <3>2 DEF Agrees
  <2> QED
    BY <2>1, <2>2
<1> QED
  BY <1>1, <1>2, <1>3, DrainWritten

LEMMA WrittenKept == StoreInv /\ WrittenInv /\ [Next]_vars => WrittenInv'
<1> SUFFICES ASSUME StoreInv, WrittenInv, [Next]_vars PROVE WrittenInv'
  OBVIOUS
<1>1. CASE UNCHANGED persistVars
  <2>1. UNCHANGED <<db, lastWritten, saves, overlapped, loaded>>
    BY <1>1 DEF persistVars
  <2> QED
    BY <2>1 DEF WrittenInv, SaveAlone, Agrees, Advanced
<1>2. ASSUME NEW r \in Requests,
             \/ \E to : Passes(r, to)
             \/ CountCredit(r) \/ RefuseCredit(r) \/ SendWithdrawal(r)
      PROVE  UNCHANGED persistVars
  BY <1>2 DEF Passes, CountCredit, RefuseCredit, SendWithdrawal, ServerKeeps
<1>3. CASE SaveReturns
  <2>1. PICK s \in saves : (CommitSave(s) /\ UNCHANGED <<pc, calls>>) \/ FinishSave(s) \/ FailSave(s)
    BY <1>3 DEF SaveReturns
  <2> QED
    BY <2>1, CommitWritten, EndWritten
<1>4. CASE Restart
  <2>1. /\ saves' = {} /\ db' = db /\ loaded' = {r \in Rows : db[r] # Absent}
        /\ lastWritten' = [r \in Rows |-> Absent]
    BY <1>4 DEF Restart, load
  <2> QED
    BY <2>1 DEF WrittenInv, Agrees
<1>5. CASE Stands
  BY <1>1, <1>5 DEF Stands
<1> QED
  BY <1>1, <1>2, <1>3, <1>4, <1>5, StoreStep, BodyWritten

LEMMA WrittenStarts == BackendInit => WrittenInv
<1> SUFFICES ASSUME BackendInit PROVE WrittenInv
  OBVIOUS
<1>1. db = store /\ lastWritten = store /\ saves = {} /\ loaded = {}
  BY DEF BackendInit, PersistInit
<1>2. \A r \in DuelRows \cap Rows : store[r] = OpenStatus \/ store[r] = Absent
  BY WalletIsARow DEF BackendInit
<1>3. \A r \in Rows : store[r] # Absent => db[r] = Written(r, store[r])
  BY <1>1, <1>2 DEF Written
<1> QED
  BY <1>1, <1>3 DEF WrittenInv, Agrees

\* While saves follow one another, no row is believed written that is not in the
\* database, but for a transaction's row found at boot: neither a failed save, nor
\* one taken from the queue, nor a restart makes a later save skip a change
\* (persistence.ts, diffRows and the snapshots it compares with).
THEOREM NothingIsForgotten == Spec => []NothingForgotten
<1>1. StoreInv /\ WrittenInv => NothingForgotten
  <2> SUFFICES ASSUME StoreInv, WrittenInv, saves = {}, ~overlapped,
                      NEW r \in Rows \ (BatchedRows \cap loaded), lastWritten[r] = store[r]
               PROVE  db[r] = Written(r, store[r])
    BY DEF NothingForgotten
  <2>1. IF store[r] # Absent THEN db[r] = Written(r, store[r]) ELSE r \in loaded \/ db[r] = Absent
    BY DEF WrittenInv, Agrees
  <2>2. CASE store[r] = Absent
    <3>1. r \notin loaded
      BY <2>2 DEF StoreInv
    <3> QED
      BY <2>1, <2>2, <3>1 DEF Written
  <2> QED
    BY <2>1, <2>2
<1> QED
  BY <1>1, StoreStarts, StoreKept, WrittenStarts, WrittenKept, PTL DEF Spec


-----------------------------------------------------------------------------
\* The wallet that is saved, and the requests that wait for it, stay as they are.
LEMMA DebitStands ==
  ASSUME StoreInv, DebitInv, store'[WALLET] = store[WALLET],
         UNCHANGED <<persistVars, calls, paid>>,
         \A q \in Requests :
           pc'[q] \in {"savingDebit", "sending", "sent", "unsent"} => pc'[q] = pc[q]
  PROVE  DebitInv'
<1>1. UNCHANGED <<db, saves, persistMutexQueue, swallowed, overlapped>>
  BY DEF persistVars
<1>2. \A s \in saves : s.by \in Requests
  BY DEF StoreInv, SaveFits
<1>3. \A i \in DOMAIN persistMutexQueue : persistMutexQueue[i] \in Requests
  BY DEF StoreInv
<1> QED
  BY <1>1, <1>2, <1>3 DEF DebitInv, Durable, Debited, Item

LEMMA BodyDebits ==
  ASSUME StoreInv, DebitInv, NEW r \in Requests, NEW where, NEW s, Body(r, where, s)
  PROVE  DebitInv'
<1>1. /\ store' = s /\ persistAfterMutation(r, s) /\ Move(r, where)
      /\ UNCHANGED <<calls, paid, db, swallowed>>
      /\ where \in {"saving", "savingDebit"}
      /\ where = "savingDebit" => pc[r] \notin Later /\ Debited(s[WALLET], r)
  BY DEF Body, SaveAs, persistAfterMutation, Later
<1>2. pc'[r] = where /\ \A q \in Requests \ {r} : pc'[q] = pc[q]
  BY <1>1, MoveLater DEF StoreInv
<1>3. \A wallet, q : Debited(wallet, q)' <=> Debited(wallet', q)
  BY <1>1 DEF Debited, Item
<1>4. overlapped => overlapped'
  BY <1>1 DEF persistAfterMutation, Start
<1>5. ASSUME NEW t \in saves, pc'[t.by] = "savingDebit" PROVE Debited(t.rows[WALLET], t.by)
  <2>1. t.by \in Requests /\ pc[t.by] \in Later
    BY DEF StoreInv, SaveFits
  <2>2. pc[t.by] = "savingDebit"
    BY <1>1, <1>2, <1>5, <2>1
  <2> QED
    BY <2>2 DEF DebitInv
<1>6. ASSUME NEW i \in DOMAIN persistMutexQueue, pc'[persistMutexQueue[i]] = "savingDebit"
      PROVE  Debited(s[WALLET], persistMutexQueue[i])
  <2> DEFINE q == persistMutexQueue[i]
  <2>1. q \in Requests /\ pc[q] \in Later
    BY DEF StoreInv
  <2>2. Debited(store[WALLET], q)
    <3>1. pc[q] = "savingDebit"
      BY <1>1, <1>2, <1>6, <2>1
    <3> QED
      BY <3>1 DEF DebitInv
  <2>3. AtLeast(s[WALLET], store[WALLET]) /\ s[WALLET] \in Wallets /\ store[WALLET] \in Wallets
    BY DEF Body, Grown, StoreInv
  <2>4. Item(q) \in Items
    BY <2>1, CallFacts DEF StoreInv
  <2>5. store[WALLET].gives[Item(q)] \in Nat /\ s[WALLET].gives[Item(q)] \in Nat
        /\ store[WALLET].gives[Item(q)] <= s[WALLET].gives[Item(q)]
    BY <2>3, <2>4, WalletFacts DEF AtLeast
  <2> QED
    BY <2>2, <2>5 DEF Debited
<1>7. /\ \A t \in saves' : pc'[t.by] = "savingDebit" => Debited(t.rows[WALLET], t.by)
      /\ \A i \in DOMAIN persistMutexQueue' :
           pc'[persistMutexQueue'[i]] = "savingDebit" => Debited(s[WALLET], persistMutexQueue'[i])
  <2>1. CASE persistMutexBusy
    <3>1. saves' = saves /\ persistMutexQueue' = Append(persistMutexQueue, r)
      BY <1>1, <2>1 DEF persistAfterMutation
    <3>2. \A i \in DOMAIN persistMutexQueue' :
            \/ i \in DOMAIN persistMutexQueue /\ persistMutexQueue'[i] = persistMutexQueue[i]
            \/ persistMutexQueue'[i] = r
      BY <3>1 DEF StoreInv
    <3> QED
      BY <1>1, <1>2, <1>5, <1>6, <3>1, <3>2
  <2>2. CASE ~persistMutexBusy
    <3> PICK t : t = Save(r, FALSE, s, lastWritten)
      OBVIOUS
    <3>1. saves' = saves \cup {t} /\ persistMutexQueue' = persistMutexQueue
      BY <1>1, <2>2 DEF persistAfterMutation, Start
    <3>2. s[WALLET] \in Wallets
      BY DEF Body, Grown
    <3>3. NewSave(t, r, s, lastWritten)
      BY <3>2, SaveStarts
    <3>4. t.by = r /\ t.rows = s
      BY <3>3 DEF NewSave
    <3> QED
      BY <1>1, <1>2, <1>5, <1>6, <3>1, <3>4
  <2> QED
    BY <2>1, <2>2
<1>8. overlapped' \/ \A q \in Requests : pc'[q] \in {"sending", "sent", "unsent"} => Durable(q)
  BY <1>1, <1>2, <1>4 DEF DebitInv
<1>9. paid \subseteq Requests /\ (overlapped' \/ \A q \in paid : Durable(q))
  BY <1>4 DEF DebitInv
<1> QED
  BY <1>1, <1>7, <1>8, <1>9 DEF DebitInv, Durable, Debited, Item

LEMMA SendDebits ==
  ASSUME StoreInv, DebitInv, NEW r \in Requests, SendWithdrawal(r)
  PROVE  DebitInv'
<1>1. /\ UNCHANGED <<persistVars, calls, store>> /\ pc[r] = "sending"
      /\ paid' \subseteq paid \cup {r}
      /\ \E to \in {"sent", "unsent"} : Move(r, to)
  BY DEF SendWithdrawal, At
<1>2. pc'[r] \in {"sent", "unsent"} /\ \A q \in Requests \ {r} : pc'[q] = pc[q]
  BY <1>1, MoveLater DEF StoreInv
<1>3. UNCHANGED <<db, saves, persistMutexQueue, swallowed, overlapped>>
  BY <1>1 DEF persistVars
<1>4. \A q : Durable(q)' <=> Durable(q)
  BY <1>1, <1>3 DEF Durable, Debited, Item
<1>5. overlapped \/ Durable(r)
  BY <1>1 DEF DebitInv
<1>6. \A s \in saves : s.by \in Requests
  BY DEF StoreInv, SaveFits
<1>7. \A i \in DOMAIN persistMutexQueue : persistMutexQueue[i] \in Requests
  BY DEF StoreInv
<1>8. /\ \A s \in saves : pc'[s.by] = "savingDebit" => Debited(s.rows[WALLET], s.by)
      /\ \A i \in DOMAIN persistMutexQueue :
           pc'[persistMutexQueue[i]] = "savingDebit" => Debited(store[WALLET], persistMutexQueue[i])
  BY <1>2, <1>6, <1>7 DEF DebitInv
<1>9. overlapped \/ \A q \in Requests : pc'[q] \in {"sending", "sent", "unsent"} => Durable(q)
  BY <1>2, <1>5 DEF DebitInv
<1>10. paid' \subseteq Requests /\ (overlapped \/ \A q \in paid' : Durable(q))
  BY <1>1, <1>5 DEF DebitInv
<1>11. \A wallet, q : Debited(wallet, q)' <=> Debited(wallet', q)
  BY <1>1 DEF Debited, Item
<1> QED
  BY <1>1, <1>3, <1>4, <1>8, <1>9, <1>10 DEF DebitInv, Debited, Item

\* A save that is alone writes no less of the wallet than the database has.
LEMMA CommitDebits ==
  ASSUME StoreInv, WrittenInv, DebitInv, NEW s \in saves, CommitSave(s), UNCHANGED <<pc, calls, paid>>
  PROVE  DebitInv'
<1> PICK t : t = [s EXCEPT !.committed = TRUE]
  OBVIOUS
<1>1. /\ saves' = (saves \ {s}) \cup {t}
      /\ UNCHANGED <<store, persistMutexQueue, swallowed, overlapped>>
  BY DEF CommitSave
<1>2. SaveFits(s)
  BY DEF StoreInv
<1>3. t.by = s.by /\ t.rows = s.rows
  BY <1>2, CommittedSave DEF SaveFits
<1>4. \A u \in saves' : pc[u.by] = "savingDebit" => Debited(u.rows[WALLET], u.by)
  BY <1>1, <1>3 DEF DebitInv
<1>5. ASSUME ~overlapped, NEW q \in Requests, Durable(q) PROVE Durable(q)'
  <2>1. SaveAlone(s)
    BY <1>5, OnlySave
  <2>2. db'[WALLET] = IF WALLET \in s.changed THEN s.rows[WALLET] ELSE db[WALLET]
    BY CommitStores
  <2>3. s.rows[WALLET] \in Wallets /\ db[WALLET] \in Wallets /\ AtLeast(s.rows[WALLET], db[WALLET])
    BY <1>2, <2>1 DEF SaveFits, SaveAlone, StoreInv
  <2>4. Item(q) \in Items
    BY CallFacts DEF StoreInv
  <2>5. /\ s.rows[WALLET].gives[Item(q)] \in Nat /\ db[WALLET].gives[Item(q)] \in Nat
        /\ db[WALLET].gives[Item(q)] <= s.rows[WALLET].gives[Item(q)]
    BY <2>3, <2>4, WalletFacts DEF AtLeast
  <2>6. Debited(db[WALLET], q) => Debited(db'[WALLET], q)
    BY <2>2, <2>5 DEF Debited
  <2> QED
    BY <1>1, <1>5, <2>6 DEF Durable, Debited, Item
<1>6. paid \subseteq Requests
  BY DEF DebitInv
<1>7. overlapped \/ \A q \in Requests : pc[q] \in {"sending", "sent", "unsent"} => Durable(q)'
  BY <1>5 DEF DebitInv
<1>8. overlapped \/ \A q \in paid : Durable(q)'
  BY <1>5, <1>6 DEF DebitInv
<1>9. \A i \in DOMAIN persistMutexQueue :
        pc[persistMutexQueue[i]] = "savingDebit" => Debited(store[WALLET], persistMutexQueue[i])
  BY DEF DebitInv
<1> QED
  BY <1>1, <1>4, <1>6, <1>7, <1>8, <1>9 DEF DebitInv, Debited, Item

\* What is in flight or queued after a save was there before it, or is made of
\* the store as it is.
LEMMA DrainDebits ==
  ASSUME StoreInv, DebitInv, NEW s \in saves, Drain(s), UNCHANGED <<store, calls>>,
         \A q \in Requests : pc'[q] = "savingDebit" => pc[q] = "savingDebit"
  PROVE  /\ \A t \in saves' : pc'[t.by] = "savingDebit" => Debited(t.rows[WALLET], t.by)
         /\ \A i \in DOMAIN persistMutexQueue' :
              pc'[persistMutexQueue'[i]] = "savingDebit" =>
                Debited(store[WALLET], persistMutexQueue'[i])
<1>1. \A t \in saves : t.by \in Requests
  BY DEF StoreInv, SaveFits
<1>2. persistMutexQueue \in Seq(Requests)
  BY DEF StoreInv
<1>3. \A t \in saves : pc'[t.by] = "savingDebit" => Debited(t.rows[WALLET], t.by)
  BY <1>1 DEF DebitInv
<1>4. \A i \in DOMAIN persistMutexQueue :
        /\ persistMutexQueue[i] \in Requests
        /\ pc'[persistMutexQueue[i]] = "savingDebit" => Debited(store[WALLET], persistMutexQueue[i])
  BY <1>2 DEF DebitInv
<1>5. CASE s.queued \/ persistMutexQueue = << >>
  <2>1. saves' = saves \ {s} /\ persistMutexQueue' = persistMutexQueue
    BY <1>5 DEF Drain
  <2> QED
    BY <1>3, <1>4, <2>1
<1>6. CASE ~(s.queued \/ persistMutexQueue = << >>)
  <2> PICK newest, snapshot, t : /\ newest = Last(persistMutexQueue) /\ snapshot = lastWritten'
                                 /\ t = Save(newest, TRUE, store, snapshot)
    OBVIOUS
  <2>1. saves' = (saves \ {s}) \cup {t} /\ persistMutexQueue' = << >>
    BY <1>6 DEF Drain, Start
  <2>2. Len(persistMutexQueue) \in DOMAIN persistMutexQueue
        /\ newest = persistMutexQueue[Len(persistMutexQueue)]
    BY <1>2, <1>6 DEF Last
  <2>3. store[WALLET] \in Wallets
    BY DEF StoreInv
  <2>4. NewSave(t, newest, store, snapshot)
    BY <2>3, SaveStarts
  <2>5. t.by = newest /\ t.rows = store
    BY <2>4 DEF NewSave
  <2>6. pc'[t.by] = "savingDebit" => Debited(t.rows[WALLET], t.by)
    BY <1>4, <2>2, <2>5
  <2>7. \A u \in saves' : pc'[u.by] = "savingDebit" => Debited(u.rows[WALLET], u.by)
    BY <1>3, <2>1, <2>6
  <2>8. DOMAIN << >> = {}
    OBVIOUS
  <2> QED
    BY <2>1, <2>7, <2>8
<1> QED
  BY <1>5, <1>6

\* The caller of a save goes on to send only what is written, or what it was told
\* is.
LEMMA EndDebits ==
  ASSUME StoreInv, WrittenInv, DebitInv, NEW s \in saves, UNCHANGED <<calls, paid>>,
         \/ FinishSave(s) /\ Wake(s.by, TRUE)
         \/ FailSave(s) /\ Wake(s.by, s.queued)
  PROVE  DebitInv'
<1>1. Drain(s) /\ UNCHANGED <<store, db>> /\ swallowed \subseteq swallowed'
      /\ (overlapped => overlapped')
  BY DEF FinishSave, FailSave, Drain, Start
<1>2. PICK ok : Wake(s.by, ok)
  OBVIOUS
<1>3. /\ s.by \in Requests
      /\ \A q \in Requests \ {s.by} : pc'[q] = pc[q]
      /\ pc'[s.by] \in {"sending", "finishing"}
  BY <1>2, WakeMoves
<1>4. /\ \A t \in saves' : pc'[t.by] = "savingDebit" => Debited(t.rows[WALLET], t.by)
      /\ \A i \in DOMAIN persistMutexQueue' :
           pc'[persistMutexQueue'[i]] = "savingDebit" => Debited(store[WALLET], persistMutexQueue'[i])
  <2>1. \A q \in Requests : pc'[q] = "savingDebit" => pc[q] = "savingDebit"
    BY <1>3
  <2> QED
    BY <1>1, <2>1, DrainDebits
<1>5. \A q : Durable(q) => Durable(q)'
  BY <1>1 DEF Durable, Debited, Item
<1>6. ASSUME ~overlapped', pc'[s.by] = "sending" PROVE Durable(s.by)'
  <2>1. CASE FinishSave(s) /\ Wake(s.by, TRUE)
    <3>1. pc[s.by] = "savingDebit" /\ s.committed
      BY <1>6, <2>1, WakeMoves DEF FinishSave
    <3>2. Debited(s.rows[WALLET], s.by)
      BY <3>1 DEF DebitInv
    <3>3. SaveAlone(s) /\ SaveFits(s)
      BY <1>1, <1>6, OnlySave DEF StoreInv
    <3>4. Agrees(Advanced(s))
      BY <3>1, <3>3 DEF SaveAlone
    <3>5. Advanced(s)[WALLET] = s.rows[WALLET] /\ s.rows[WALLET] # Absent
      BY <3>3, WalletIsARow DEF Advanced, SaveAlone, SaveFits
    <3>6. db[WALLET] = s.rows[WALLET]
      BY <3>4, <3>5, WalletIsARow DEF Agrees, Written
    <3> QED
      BY <1>1, <3>2, <3>6 DEF Durable, Debited, Item
  <2>2. CASE FailSave(s) /\ Wake(s.by, s.queued)
    <3>1. s.queued
      BY <1>6, <2>2, WakeMoves
    <3>2. s.by \in swallowed'
      BY <2>2, <3>1 DEF FailSave
    <3> QED
      BY <3>2 DEF Durable
  <2> QED
    BY <2>1, <2>2
<1>7. overlapped' \/ \A q \in Requests : pc'[q] \in {"sending", "sent", "unsent"} => Durable(q)'
  BY <1>1, <1>3, <1>5, <1>6 DEF DebitInv
<1>8. paid \subseteq Requests /\ (overlapped' \/ \A q \in paid : Durable(q)')
  BY <1>1, <1>5 DEF DebitInv
<1> QED
  BY <1>1, <1>4, <1>7, <1>8 DEF DebitInv, Debited, Item

LEMMA DebitKept == StoreInv /\ WrittenInv /\ DebitInv /\ [Next]_vars => DebitInv'
<1> SUFFICES ASSUME StoreInv, WrittenInv, DebitInv, [Next]_vars PROVE DebitInv'
  OBVIOUS
<1>1. DOMAIN pc = Requests
  BY DEF StoreInv
<1>2. ASSUME NEW r \in Requests, NEW to, Passes(r, to) PROVE DebitInv'
  <2>1. /\ UNCHANGED <<persistVars, calls, paid>> /\ store'[WALLET] = store[WALLET]
        /\ Move(r, to) /\ to \notin {"savingDebit", "sending", "sent", "unsent"}
    BY <1>2, WalletIsARow DEF Passes
  <2> QED
    BY <1>1, <2>1, MoveLater, DebitStands
<1>3. ASSUME NEW r \in Requests, CountCredit(r) \/ RefuseCredit(r) PROVE DebitInv'
  <2>1. /\ UNCHANGED <<persistVars, calls, paid>> /\ store'[WALLET] = store[WALLET]
        /\ \E to \in {"over", "counted", "finishing"} : Move(r, to)
    BY <1>3 DEF CountCredit, RefuseCredit, ServerKeeps
  <2> QED
    BY <1>1, <2>1, MoveLater, DebitStands
<1>4. CASE SaveReturns
  <2>1. UNCHANGED <<calls, paid>>
    BY <1>4 DEF SaveReturns
  <2>2. PICK s \in saves :
          \/ CommitSave(s) /\ UNCHANGED pc
          \/ FinishSave(s) /\ Wake(s.by, TRUE)
          \/ FailSave(s) /\ Wake(s.by, s.queued)
    BY <1>4 DEF SaveReturns
  <2> QED
    BY <2>1, <2>2, CommitDebits, EndDebits
<1>5. CASE Restart
  <2>1. /\ store' = db /\ saves' = {} /\ persistMutexQueue' = << >>
        /\ UNCHANGED <<db, swallowed, overlapped, calls, paid>>
        /\ pc' = [q \in Requests |-> IF pc[q] = "idle" THEN "idle" ELSE "done"]
    BY <1>5 DEF Restart, load
  <2>2. \A q : Durable(q)' <=> Durable(q)
    BY <2>1 DEF Durable, Debited, Item
  <2>3. DOMAIN << >> = {}
    OBVIOUS
  <2> QED
    BY <2>1, <2>2, <2>3 DEF DebitInv
<1>6. CASE Stands
  <2>1. UNCHANGED <<persistVars, calls, paid, store, pc>>
    BY <1>6 DEF Stands
  <2> QED
    BY <2>1, DebitStands
<1> QED
  BY <1>2, <1>3, <1>4, <1>5, <1>6, StoreStep, BodyDebits, SendDebits

LEMMA DebitStarts == BackendInit => DebitInv
BY DEF BackendInit, PersistInit, DebitInv

\* Whatever fails, waits in the queue or restarts, no withdrawal is on chain whose
\* debit a restart could give back, but for the two causes the property names
\* (server.ts, the route of withdrawals and persistAfterMutation).
THEOREM PaidStaysDebited == Spec => []PaidIsDurable
<1>1. DebitInv => PaidIsDurable
  BY DEF DebitInv, Durable, Debited, PaidIsDurable
<1> QED
  BY <1>1, StoreStarts, StoreKept, WrittenStarts, WrittenKept, DebitStarts, DebitKept, PTL DEF Spec
-----------------------------------------------------------------------------
\* Rows of the store, of the database or of a save, in which item i counts once,
\* and not at all as long as its row has the status it began with.
Initial(i) == IF i \in BatchedRows THEN Absent ELSE OpenStatus
Marks(i) == IF i \in BatchedRows THEN {Absent, "DEPOSIT_PENDING", "DEPOSIT"}
            ELSE {OpenStatus, "DONE"}
Single(wallet, i) == wallet.gets[i] <= 1 /\ wallet.gives[i] <= 1
Untouched(wallet, i) == wallet.gets[i] = 0 /\ wallet.gives[i] = 0
Fresh(rows, i) ==
  /\ rows[i] \in Marks(i) /\ Single(rows[WALLET], i)
  /\ rows[i] = Initial(i) => Untouched(rows[WALLET], i)

\* What is or will be in the database.
Saved(i) == Fresh(db, i) /\ \A s \in saves : Fresh(s.rows, i)

\* The items of some routes, and the requests for an item at some place.
Of(routes, i) == \E r \in Requests : Route(r) \in routes /\ Item(r) = i
Waits(i, places) == {r \in Requests : Item(r) = i /\ pc[r] \in places}

Restarted == loaded # {}
Present(rows) == \A i \in Rows \ BatchedRows : rows[i] # Absent

\* A row that is no transaction's is never deleted.
PresentInv == Present(store) /\ Present(db) /\ \A s \in saves : Present(s.rows)

\* What a row remembers, with the money, in one save.
RowOnce(i) ==
  (Of(RowRoutes, i) /\ (Of({"resolve"}, i) => i \notin reused)
     /\ i \notin DuelRows \cap loaded /\ ~(overlapped /\ Restarted))
  => Fresh(store, i) /\ (overlapped \/ i \in DuelRows \/ Saved(i))

\* A signature: marked from before its verification, and by one request.
Marked(i) ==
  /\ Fresh(store, i)
  /\ store[i] # Absent => i \in moneySignatures
  /\ \A r \in Waits(i, {"verifying"}) :
       /\ Waits(i, {"verifying"}) = {r} /\ i \notin loaded
       /\ store[i] = "DEPOSIT_PENDING" /\ Untouched(store[WALLET], i)
  /\ i \in loaded => store[i] # Absent
Kept(i) ==
  /\ overlapped \/ Saved(i)
  /\ i \in loaded => db[i] # Absent /\ \A s \in saves : s.rows[i] # Absent
DepositOnce(i) ==
  (Of({"deposit"}, i) /\ i \notin reused /\ ~(overlapped /\ Restarted)) => Marked(i) /\ Kept(i)

\* A vote: its row comes before the weight, and lets one request pass.
VoteBound(wallet, i, spent) ==
  wallet.gives[i] = 0 /\ wallet.gets[i] <= 1 /\ (~spent => wallet.gets[i] = 0)
Voted(i) == i \in proposalVotes /\ Waits(i, {"recorded"}) = {}
VoteOnce(i) ==
  Of({"vote"}, i)
  => /\ VoteBound(store[WALLET], i, Voted(i)) /\ VoteBound(db[WALLET], i, Voted(i))
     /\ \A s \in saves : VoteBound(s.rows[WALLET], i, Voted(i))
     /\ \A r \in Waits(i, {"recorded"}) : i \in proposalVotes /\ Waits(i, {"recorded"}) = {r}

\* A lock that did not lapse: whoever passed the checks of its route holds it
\* until the effect, and nobody passes them after it while the id of a trade is
\* remembered.
Locked == {"asked", "locked", "counted"}
Holding == Locked \cup {"over", "finishing"}
Lapsed(i) == \E r \in Requests : Item(r) = i /\ LockKey(calls[r]) \in lapsed
NoMore(i) ==
  /\ Of({"trades"}, i) => i \in tradeIdempotencyCache
  /\ Of({"credit"}, i) => i \notin DOMAIN requests
Silent(i) ==
  /\ \A s \in saves : Item(s.by) # i
  /\ \A n \in DOMAIN persistMutexQueue : Item(persistMutexQueue[n]) # i
Serial(i) ==
  /\ Single(store[WALLET], i)
  /\ IF Untouched(store[WALLET], i)
     THEN Silent(i) /\ \A r \in Waits(i, Holding) : locks[LockKey(calls[r])] = r
     ELSE NoMore(i) /\ Waits(i, Locked) = {}
  /\ (Of({"credit"}, i) /\ (Waits(i, Locked) # {} \/ ~Untouched(store[WALLET], i)))
       => agreed[i] # {}
LockOnce(i) ==
  (/\ Of({"trades", "credit"}, i) /\ ~Lapsed(i) /\ ~Restarted
   /\ Of({"trades"}, i) => i \notin reused)
  => Serial(i)

OnceInv ==
  PresentInv /\ \A i \in Items : RowOnce(i) /\ DepositOnce(i) /\ VoteOnce(i) /\ LockOnce(i)
-----------------------------------------------------------------------------
LEMMA KinRoutes ==
  ASSUME CallsFit, NEW q \in Requests
  PROVE  /\ Of(RowRoutes, Item(q)) => Route(q) \in RowRoutes \cup {"markets"}
         /\ Of(RowRoutes, Item(q)) /\ Route(q) = "markets" => Of({"resolve"}, Item(q))
         /\ Of({"deposit"}, Item(q)) => Route(q) \in {"deposit", "transactions"}
         /\ Of({"vote"}, Item(q)) => Route(q) = "vote"
         /\ Of({"trades"}, Item(q)) => Route(q) = "trades"
         /\ Of({"credit"}, Item(q)) => Route(q) = "credit"
<1>1. ASSUME NEW r \in Requests, Route(r) \in OnceRoutes, Item(r) = Item(q)
      PROVE  \/ Route(q) = Route(r)
             \/ Route(r) = "deposit" /\ Route(q) = "transactions"
             \/ Route(r) = "resolve" /\ Route(q) = "markets"
             \/ Route(r) \in {"accept", "cancelDuel"} /\ Route(q) \in {"accept", "cancelDuel"}
  <2>1. PICK s \in Scenarios : calls = s.calls
    BY DEF CallsFit
  <2>2. Route(q) = Route(r) \/ {Route(r), Route(q)} \in Companions
    BY <1>1, <2>1, ItemsAssumption DEF Route, Item
  <2>3. CASE {Route(r), Route(q)} \in Companions
    <3>1. \/ {Route(r), Route(q)} = {"deposit", "transactions"}
          \/ {Route(r), Route(q)} = {"resolve", "markets"}
          \/ {Route(r), Route(q)} = {"accept", "cancelDuel"}
      BY <2>3 DEF Companions
    <3>2. CASE {Route(r), Route(q)} = {"deposit", "transactions"}
      BY <1>1, <3>2 DEF OnceRoutes
    <3>3. CASE {Route(r), Route(q)} = {"resolve", "markets"}
      BY <1>1, <3>3 DEF OnceRoutes
    <3>4. CASE {Route(r), Route(q)} = {"accept", "cancelDuel"}
      BY <3>4
    <3> QED
      BY <3>1, <3>2, <3>3, <3>4
  <2> QED
    BY <2>2, <2>3
<1>2. RowRoutes \subseteq OnceRoutes /\ {"deposit", "vote", "trades", "credit"} \subseteq OnceRoutes
  BY DEF RowRoutes, OnceRoutes
<1>3. \A r \in {"deposit", "vote", "trades", "credit"} : r \notin RowRoutes
  BY DEF RowRoutes
<1>4. {"resolve", "accept", "cancelDuel"} \subseteq RowRoutes /\ "markets" \notin RowRoutes
  BY DEF RowRoutes
<1> QED
  BY <1>1, <1>2, <1>3, <1>4 DEF Of

LEMMA ItemFacts ==
  ASSUME CallsFit, NEW i \in Items
  PROVE  /\ Of(RowRoutes, i) => i \in Rows \ BatchedRows /\ i # WALLET
         /\ Of(RowRoutes \ {"accept", "cancelDuel"}, i) => i \notin DuelRows
         /\ Of({"deposit"}, i) => i \in Rows /\ i \in BatchedRows /\ i \notin DuelRows /\ i # WALLET
BY ItemsAssumption, CallFacts DEF CallsFit, Of, Item, Route

LEMMA LockKeyFacts ==
  ASSUME CallsFit, NEW r \in Requests
  PROVE  /\ LockKey(calls[r]) \in LockKeys
         /\ Route(r) \in {"trades", "credit"} =>
              LockKey(calls[r]) = <<Route(r), Item(r)>> /\ Route(r) \notin Unlocked
         /\ \A q \in Requests : Route(r) \in {"trades", "credit"} /\ Item(q) # Item(r) =>
              LockKey(calls[q]) # LockKey(calls[r])
<1>1. LockKey(calls[r]) \in LockKeys
  BY KeysAssumption DEF CallsFit
<1>2. ASSUME Route(r) \in {"trades", "credit"}
      PROVE  LockKey(calls[r]) = <<Route(r), Item(r)>> /\ Route(r) \notin Unlocked
  BY <1>2 DEF LockKey, Route, Item, Unlocked
<1>3. ASSUME NEW q \in Requests, Route(r) \in {"trades", "credit"}, Item(q) # Item(r)
      PROVE  LockKey(calls[q]) # LockKey(calls[r])
  <2>1. \/ LockKey(calls[q]) = <<"none", "none">>
        \/ LockKey(calls[q]) = <<"staking", WALLET>>
        \/ Route(q) \in {"orders", "withdraw"} /\ LockKey(calls[q]) = <<Route(q), WALLET>>
        \/ LockKey(calls[q]) = <<Route(q), Item(q)>>
    BY DEF LockKey, Route, Item
  <2> QED
    BY <1>2, <1>3, <2>1
<1> QED
  BY <1>1, <1>2, <1>3

\* Money given and taken, to the last unit.
LEMMA GetsChange ==
  ASSUME StoreInv, NEW i \in Items
  PROVE  /\ DOMAIN Gets(store, i) = Rows
         /\ Gets(store, i)[WALLET].gets[i] = store[WALLET].gets[i] + 1
         /\ \A j \in Items \ {i} : Gets(store, i)[WALLET].gets[j] = store[WALLET].gets[j]
         /\ \A j \in Items : Gets(store, i)[WALLET].gives[j] = store[WALLET].gives[j]
         /\ \A x \in Rows \ {WALLET} : Gets(store, i)[x] = store[x]
<1> DEFINE w == store[WALLET]
           g == [w.gets EXCEPT ![i] = @ + 1]
           v == [w EXCEPT !.gets = g]
           s == Gets(store, i)
<1>1. w \in Wallets /\ DOMAIN store = Rows /\ WALLET \in Rows
  BY WalletIsARow DEF StoreInv
<1>2. w.gets \in [Items -> Nat] /\ w.gives \in [Items -> Nat]
      /\ w = [gets |-> w.gets, gives |-> w.gives]
  BY <1>1, WalletFacts
<1>3. s = [store EXCEPT ![WALLET] = v]
  BY <1>1, <1>2 DEF Gets
<1>4. v.gets = g /\ v.gives = w.gives
  BY <1>2
<1>5. g[i] = w.gets[i] + 1 /\ \A j \in Items \ {i} : g[j] = w.gets[j]
  BY <1>2
<1> HIDE DEF s, g, v
<1>6. s[WALLET] = v /\ DOMAIN s = Rows /\ \A x \in Rows \ {WALLET} : s[x] = store[x]
  BY <1>1, <1>3
<1> QED
  BY <1>4, <1>5, <1>6 DEF s

LEMMA GivesChange ==
  ASSUME StoreInv, NEW i \in Items
  PROVE  /\ DOMAIN Gives(store, i) = Rows
         /\ Gives(store, i)[WALLET].gives[i] = store[WALLET].gives[i] + 1
         /\ \A j \in Items \ {i} : Gives(store, i)[WALLET].gives[j] = store[WALLET].gives[j]
         /\ \A j \in Items : Gives(store, i)[WALLET].gets[j] = store[WALLET].gets[j]
         /\ \A x \in Rows \ {WALLET} : Gives(store, i)[x] = store[x]
<1> DEFINE w == store[WALLET]
           g == [w.gives EXCEPT ![i] = @ + 1]
           v == [w EXCEPT !.gives = g]
           s == Gives(store, i)
<1>1. w \in Wallets /\ DOMAIN store = Rows /\ WALLET \in Rows
  BY WalletIsARow DEF StoreInv
<1>2. w.gets \in [Items -> Nat] /\ w.gives \in [Items -> Nat]
      /\ w = [gets |-> w.gets, gives |-> w.gives]
  BY <1>1, WalletFacts
<1>3. s = [store EXCEPT ![WALLET] = v]
  BY <1>1, <1>2 DEF Gives
<1>4. v.gives = g /\ v.gets = w.gets
  BY <1>2
<1>5. g[i] = w.gives[i] + 1 /\ \A j \in Items \ {i} : g[j] = w.gives[j]
  BY <1>2
<1> HIDE DEF s, g, v
<1>6. s[WALLET] = v /\ DOMAIN s = Rows /\ \A x \in Rows \ {WALLET} : s[x] = store[x]
  BY <1>1, <1>3
<1> QED
  BY <1>4, <1>5, <1>6 DEF s

\* Another row gets a status, and the wallet stays.
LEMMA RowChange ==
  ASSUME NEW s, DOMAIN s = Rows, NEW x, NEW v
  PROVE  /\ DOMAIN [s EXCEPT ![x] = v] = Rows
         /\ x \in Rows => [s EXCEPT ![x] = v][x] = v
         /\ \A y \in Rows \ {x} : [s EXCEPT ![x] = v][y] = s[y]
OBVIOUS
-----------------------------------------------------------------------------
\* What a step of a request leaves alone: whatever is of another item.
SameBut(new, old, i) == \A j \in Items \ {i} : j \in new <=> j \in old

Sides(r) ==
  /\ calls' = calls
  /\ SameBut(moneySignatures', moneySignatures, Item(r))
  /\ SameBut(tradeIdempotencyCache', tradeIdempotencyCache, Item(r))
  /\ SameBut(proposalVotes', proposalVotes, Item(r))
  /\ reused \subseteq reused' /\ lapsed \subseteq lapsed'
  /\ \A k \in LockKeys \ {LockKey(calls[r])} : locks'[k] = locks[k]
  /\ agreed' = agreed /\ SameBut(DOMAIN requests', DOMAIN requests, Item(r))

Local(r, s) ==
  /\ DOMAIN s = Rows
  /\ \A j \in Items \ {Item(r)} : /\ s[WALLET].gets[j] = store[WALLET].gets[j]
                                  /\ s[WALLET].gives[j] = store[WALLET].gives[j]
  /\ \A x \in Rows \ {WALLET, Item(r)} : s[x] = store[x]

Moves(r) ==
  /\ \A q \in Requests \ {r} : pc'[q] = pc[q]
  /\ UNCHANGED <<db, loaded>> /\ Local(r, store')
  /\ UNCHANGED persistVars \/ persistAfterMutation(r, store')

Acts(r) == Sides(r) /\ Moves(r)

LEMMA LocalBodies ==
  ASSUME StoreInv, NEW r \in Requests
  PROVE  /\ Local(r, store)
         /\ Local(r, Gets(store, Item(r))) /\ Local(r, Gives(store, Item(r)))
         /\ \A s, v : Local(r, s) => Local(r, [s EXCEPT ![Item(r)] = v])
<1>1. Item(r) \in Items /\ Item(r) # WALLET /\ WALLET \in Rows
  BY CallFacts, WalletIsARow DEF StoreInv
<1>2. Local(r, store)
  BY DEF Local, StoreInv
<1>3. Local(r, Gets(store, Item(r)))
  BY <1>1, GetsChange DEF Local
<1>4. Local(r, Gives(store, Item(r)))
  BY <1>1, GivesChange DEF Local
<1>5. ASSUME NEW s, NEW v, Local(r, s)
      PROVE  Local(r, [s EXCEPT ![Item(r)] = v])
  BY <1>1, <1>5, RowChange DEF Local
<1> QED
  BY <1>2, <1>3, <1>4, <1>5

LEMMA SaveAsMoves ==
  ASSUME StoreInv, NEW r \in Requests, NEW where, NEW s, Local(r, s), SaveAs(r, where, s)
  PROVE  Moves(r)
BY DEF SaveAs, Move, Moves, persistAfterMutation, StoreInv

LEMMA ThrowMoves ==
  ASSUME StoreInv, NEW r \in Requests, Throw(r)
  PROVE  Moves(r)
BY LocalBodies DEF Throw, Move, Moves, StoreInv, persistVars

\* A request that goes on, and leaves the store or the row of its item.
LEMMA MoveMoves ==
  ASSUME StoreInv, NEW r \in Requests, NEW to, Move(r, to), Local(r, store'),
         UNCHANGED persistVars
  PROVE  Moves(r)
BY DEF Move, Moves, StoreInv, persistVars

LEMMA OnceMoves ==
  ASSUME StoreInv, NEW r \in Requests, NEW s, Local(r, s), Once(r, s)
  PROVE  Moves(r)
<1>1. Local(r, [s EXCEPT ![Item(r)] = "DONE"])
  BY LocalBodies
<1> QED
  BY <1>1, SaveAsMoves, ThrowMoves DEF Once

LEMMA QuietSides ==
  ASSUME NEW r \in Requests, Quiet
  PROVE  Sides(r)
BY DEF Quiet, Sides, SameBut, lockVars, approvalVars

LEMMA BodiesAct ==
  ASSUME StoreInv, NEW r \in Requests,
         \/ PostTrades(r) \/ PostDuels(r) \/ PostOrders(r) \/ BoostPosition(r) \/ Stake(r)
         \/ AcceptDuel(r) \/ DeleteDuel(r) \/ DeleteOrder(r) \/ ClaimPosition(r)
         \/ Unstake(r) \/ ClaimRewards(r) \/ ExecuteResolution(r)
  PROVE  Acts(r)
<1>1. ASSUME Spend(r) PROVE Moves(r)
  BY <1>1, LocalBodies, SaveAsMoves, ThrowMoves DEF Spend
<1>2. CASE PostTrades(r)
  <2>1. Sides(r)
    BY <1>2 DEF PostTrades, Sides, SameBut, lockVars, approvalVars
  <2>2. Spend(r)
    BY <1>2 DEF PostTrades
  <2> QED
    BY <1>1, <2>1, <2>2 DEF Acts
<1>3. CASE PostDuels(r) \/ PostOrders(r) \/ BoostPosition(r) \/ Stake(r)
  <2>1. Spend(r) /\ Quiet
    BY <1>3 DEF PostDuels, PostOrders, BoostPosition, Stake
  <2> QED
    BY <1>1, <2>1, QuietSides DEF Acts
<1>4. CASE DeleteDuel(r) \/ DeleteOrder(r) \/ ClaimPosition(r) \/ ClaimRewards(r)
  <2>1. Once(r, Gets(store, Item(r))) /\ Quiet
    BY <1>4 DEF DeleteDuel, DeleteOrder, ClaimPosition, ClaimRewards
  <2> QED
    BY <2>1, OnceMoves, LocalBodies, QuietSides DEF Acts
<1>5. CASE AcceptDuel(r)
  <2>1. Quiet /\ IF Balance > 0 THEN Once(r, Gives(store, Item(r))) ELSE Throw(r)
    BY <1>5 DEF AcceptDuel
  <2> QED
    BY <2>1, OnceMoves, ThrowMoves, LocalBodies, QuietSides DEF Acts
<1>6. CASE Unstake(r)
  <2>1. Quiet /\ (SaveAs(r, "saving", Gets(store, Item(r))) \/ Throw(r))
    BY <1>6 DEF Unstake
  <2> QED
    BY <2>1, SaveAsMoves, ThrowMoves, LocalBodies, QuietSides DEF Acts
<1>7. CASE ExecuteResolution(r)
  <2>1. Once(r, Gets(store, Item(r)))
    BY <1>7 DEF ExecuteResolution
  <2>2. Sides(r)
    BY <1>7 DEF ExecuteResolution, MarkExecuted, Without, Sides, SameBut, lockVars, approvalVars
  <2> QED
    BY <2>1, <2>2, OnceMoves, LocalBodies DEF Acts
<1> QED
  BY <1>2, <1>3, <1>4, <1>5, <1>6, <1>7

LEMMA OthersAct ==
  ASSUME StoreInv, NEW r \in Requests,
         \/ CountCredit(r) \/ RefuseCredit(r) \/ ExecuteCredit(r) \/ RecordVote(r) \/ CountVote(r)
         \/ CreditDeposit(r) \/ RejectDeposit(r) \/ MarkDeposit(r)
         \/ DebitWithdrawal(r) \/ SendWithdrawal(r) \/ RecordWithdrawal(r) \/ ReverseWithdrawal(r)
         \/ PostTransactions(r) \/ PostMarkets(r) \/ PeriodicPersist(r) \/ GracefulShutdown(r)
  PROVE  Acts(r)
<1> USE DEF Acts
<1>1. CASE CountCredit(r) \/ RefuseCredit(r)
  <2>1. Sides(r)
    BY <1>1 DEF CountCredit, RefuseCredit, ServerKeeps, Sides, SameBut, lockVars
  <2>2. (\E to : Move(r, to)) /\ UNCHANGED <<store, persistVars>>
    BY <1>1 DEF CountCredit, RefuseCredit, ServerKeeps
  <2> QED
    BY <2>1, <2>2, LocalBodies, MoveMoves
<1>2. CASE ExecuteCredit(r)
  <2>1. Sides(r)
    BY <1>2 DEF ExecuteCredit, MarkExecuted, Without, Sides, SameBut, lockVars
  <2> QED
    BY <1>2, <2>1, LocalBodies, SaveAsMoves DEF ExecuteCredit
<1>3. CASE RecordVote(r)
  <2>1. Sides(r)
    BY <1>3 DEF RecordVote, Sides, SameBut, lockVars, approvalVars
  <2>2. (\E to : Move(r, to)) /\ UNCHANGED <<store, persistVars>>
    BY <1>3 DEF RecordVote
  <2> QED
    BY <2>1, <2>2, LocalBodies, MoveMoves
<1>4. CASE CountVote(r)
  BY <1>4, LocalBodies, SaveAsMoves, QuietSides DEF CountVote
<1>5. CASE CreditDeposit(r)
  BY <1>5, LocalBodies, SaveAsMoves, QuietSides DEF CreditDeposit
<1>6. CASE MarkDeposit(r) \/ RejectDeposit(r)
  <2>1. Sides(r)
    BY <1>6 DEF MarkDeposit, RejectDeposit, Sides, SameBut, lockVars, approvalVars
  <2>2. UNCHANGED persistVars /\ \E to : Move(r, to)
    BY <1>6 DEF MarkDeposit, RejectDeposit
  <2>3. store' = store \/ \E v : store' = [store EXCEPT ![Item(r)] = v]
    BY <1>6 DEF MarkDeposit, RejectDeposit
  <2>4. Local(r, store')
    BY <2>3, LocalBodies
  <2> QED
    BY <2>1, <2>2, <2>4, MoveMoves
<1>7. CASE DebitWithdrawal(r)
  <2>1. Quiet /\ (SaveAs(r, "savingDebit", Gives(store, Item(r))) \/ Throw(r))
    BY <1>7 DEF DebitWithdrawal
  <2> QED
    BY <2>1, SaveAsMoves, ThrowMoves, LocalBodies, QuietSides
<1>8. CASE SendWithdrawal(r)
  <2>1. Sides(r)
    BY <1>8 DEF SendWithdrawal, Sides, SameBut, lockVars, approvalVars
  <2>2. (\E to : Move(r, to)) /\ UNCHANGED <<store, persistVars>>
    BY <1>8 DEF SendWithdrawal
  <2> QED
    BY <2>1, <2>2, LocalBodies, MoveMoves
<1>9. CASE RecordWithdrawal(r)
  BY <1>9, LocalBodies, SaveAsMoves, QuietSides DEF RecordWithdrawal
<1>10. CASE ReverseWithdrawal(r)
  BY <1>10, LocalBodies, SaveAsMoves, QuietSides DEF ReverseWithdrawal
<1>11. CASE PostTransactions(r) \/ PostMarkets(r)
  <2>1. Sides(r)
    BY <1>11 DEF PostTransactions, PostMarkets, Sides, SameBut, lockVars, approvalVars
  <2>2. \E s : SaveAs(r, "saving", s) /\ (s = store \/ \E v : s = [store EXCEPT ![Item(r)] = v])
    BY <1>11 DEF PostTransactions, PostMarkets
  <2> QED
    BY <2>1, <2>2, LocalBodies, SaveAsMoves
<1>12. CASE PeriodicPersist(r) \/ GracefulShutdown(r)
  BY <1>12, LocalBodies, SaveAsMoves, QuietSides DEF PeriodicPersist, GracefulShutdown
<1> QED
  BY <1>1, <1>2, <1>3, <1>4, <1>5, <1>6, <1>7, <1>8, <1>9, <1>10, <1>11, <1>12

\* The lock of a request: asked for, got and released.
LEMMA LocksAct ==
  ASSUME StoreInv, DOMAIN locks = LockKeys, NEW r \in Requests,
         AskForLock(r) \/ GetLock(r) \/ Finish(r)
  PROVE  Acts(r) \/ Restart
<1>1. CASE AskForLock(r)
  <2>1. Sides(r)
    BY <1>1, LockKeyFacts DEF AskForLock, acquireLock, acquireInMemory, Sides, SameBut,
       lockVars, approvalVars
  <2>2. (\E to : Move(r, to)) /\ UNCHANGED <<store, persistVars>>
    BY <1>1 DEF AskForLock
  <2> QED
    BY <2>1, <2>2, LocalBodies, MoveMoves DEF Acts
<1>2. CASE GetLock(r)
  <2>1. Sides(r)
    BY <1>2 DEF GetLock, LockAnswered, Sides, SameBut, lockVars, approvalVars
  <2>2. (\E to : Move(r, to)) /\ UNCHANGED <<store, persistVars>>
    BY <1>2 DEF GetLock
  <2> QED
    BY <2>1, <2>2, LocalBodies, MoveMoves DEF Acts
<1>3. CASE Finish(r) /\ Route(r) # "shutdown"
  <2>1. Sides(r)
    BY <1>3 DEF Finish, releaseLock, Sides, SameBut, lockVars, approvalVars
  <2>2. (\E to : Move(r, to)) /\ UNCHANGED <<store, persistVars>>
    BY <1>3 DEF Finish
  <2> QED
    BY <2>1, <2>2, LocalBodies, MoveMoves DEF Acts
<1>4. CASE Finish(r) /\ Route(r) = "shutdown"
  BY <1>4 DEF Finish
<1> QED
  BY <1>1, <1>2, <1>3, <1>4

LEMMA RequestsAct ==
  ASSUME StoreInv, DOMAIN locks = LockKeys, NEW r \in Requests, Arrive(r) \/ Proceed(r)
  PROVE  Acts(r) \/ Restart
BY BodiesAct, OthersAct, LocksAct DEF Arrive, Proceed
-----------------------------------------------------------------------------
\* A step of the admins, of the clock or of nobody.
Rests ==
  /\ UNCHANGED <<calls, pc, store, persistVars, moneySignatures, proposalVotes>>
  /\ reused \subseteq reused' /\ tradeIdempotencyCache \subseteq tradeIdempotencyCache' \cup reused'
  /\ lapsed \subseteq lapsed' /\ \A k \in LockKeys : k \in lapsed' \/ locks'[k] = locks[k]
  /\ \A i \in Credits : agreed[i] # {} =>
       agreed'[i] # {} /\ (i \in DOMAIN requests' => i \in DOMAIN requests)

LEMMA PutRests ==
  ASSUME ApprovalsInv, NEW id \in RequestIds, NEW admin, NEW request, Put(id, request, admin),
         agreed[id] = {} \/ id \in DOMAIN requests
  PROVE  \A i \in Credits : agreed[i] # {} =>
           agreed'[i] # {} /\ (i \in DOMAIN requests' => i \in DOMAIN requests)
<1>1. DOMAIN agreed = RequestIds /\ Credits \subseteq RequestIds
  BY DEF ApprovalsInv, SpokeTyped, RequestIds
<1>2. agreed' = [agreed EXCEPT ![id] = @ \cup {admin}]
      /\ DOMAIN requests' = DOMAIN requests \cup {id}
  BY DEF Put, With
<1> QED
  BY <1>1, <1>2

LEMMA ApprovingRests ==
  ASSUME ApprovalsInv, Approving
  PROVE  Rests
<1>1. /\ UNCHANGED <<calls, pc, store, persistVars, moneySignatures, tradeIdempotencyCache,
                     proposalVotes, reused>>
      /\ lapsed \subseteq lapsed' /\ \A k \in LockKeys : k \in lapsed' \/ locks'[k] = locks[k]
  BY DEF Approving, ServerKeeps, lockVars
<1>2. \A i \in Credits : agreed[i] # {} =>
        agreed'[i] # {} /\ (i \in DOMAIN requests' => i \in DOMAIN requests)
  <2>1. \/ \E r \in Requests, a \in Admins : Proposed(Item(r), a) \/ Approved(Item(r), a)
        \/ \E id \in RequestIds : purgeExpired(id)
        \/ SendCommand \/ LoseCommand
    BY DEF Approving
  <2>2. CASE \E r \in Requests, a \in Admins : Proposed(Item(r), a) \/ Approved(Item(r), a)
    <3>1. PICK r \in Requests, a \in Admins : Proposed(Item(r), a) \/ Approved(Item(r), a)
      BY <2>2
    <3>2. Item(r) \in RequestIds
      BY <3>1 DEF Proposed, Approved, proposeCredit, proposeMarketResolution, approveCredit,
         approveMarketResolution, RequestIds
    <3>3. (agreed[Item(r)] = {} \/ Item(r) \in DOMAIN requests)
          /\ \E request : Put(Item(r), request, a)
      BY <3>1 DEF Proposed, Approved, proposeCredit, proposeMarketResolution, approveCredit,
         approveMarketResolution, Propose, Approve
    <3> QED
      BY <3>2, <3>3, PutRests
  <2>3. CASE \E id \in RequestIds : purgeExpired(id)
    BY <2>3 DEF purgeExpired, Without
  <2>4. CASE SendCommand \/ LoseCommand
    BY <2>4 DEF SendCommand, LoseCommand
  <2> QED
    BY <2>1, <2>2, <2>3, <2>4
<1> QED
  BY <1>1, <1>2 DEF Rests

LEMMA OnceStep ==
  ASSUME StoreInv, ApprovalsInv, DOMAIN locks = LockKeys, [Next]_vars
  PROVE  \/ \E r \in Requests : (Arrive(r) \/ Proceed(r)) /\ Acts(r)
         \/ SaveReturns \/ Restart \/ Rests
<1>1. CASE Approving
  BY <1>1, ApprovingRests
<1>2. CASE Expire
  BY <1>2 DEF Expire, LockExpires, Rests, approvalVars
<1>3. CASE ExpireTradeId
  BY <1>3 DEF ExpireTradeId, Rests, lockVars, approvalVars
<1>4. CASE UNCHANGED vars
  BY <1>4 DEF vars, serverVars, lockVars, approvalVars, Rests
<1> QED
  BY <1>1, <1>2, <1>3, <1>4, RequestsAct DEF Next, Crash

LEMMA LockKeysStay ==
  ASSUME DOMAIN locks = LockKeys, [Next]_vars
  PROVE  DOMAIN locks' = LockKeys
<1>1. CASE \E r \in Requests : Arrive(r) \/ Proceed(r)
  <2> PICK r \in Requests : Arrive(r) \/ Proceed(r)
    BY <1>1
  <2>1. CASE AskForLock(r)
    BY <2>1 DEF AskForLock, acquireLock, acquireInMemory, lockVars
  <2>2. CASE Finish(r)
    BY <2>2 DEF Finish, Restart, LocksRestart, releaseLock, lockVars
  <2>3. CASE ~AskForLock(r) /\ ~Finish(r)
    <3>1. locks' = locks
      BY <2>3 DEF Arrive, Proceed, GetLock, LockAnswered, PostTrades, PostDuels, PostOrders,
         BoostPosition, Stake, AcceptDuel, DeleteDuel, DeleteOrder, ClaimPosition, Unstake,
         ClaimRewards, CountCredit, RefuseCredit, ExecuteCredit, ExecuteResolution, RecordVote,
         CountVote, CreditDeposit, RejectDeposit, DebitWithdrawal, SendWithdrawal,
         RecordWithdrawal, ReverseWithdrawal, MarkDeposit, PostTransactions, PostMarkets,
         PeriodicPersist, GracefulShutdown, Quiet, ServerKeeps, lockVars
    <3> QED
      BY <3>1
  <2> QED
    BY <2>1, <2>2, <2>3
<1>2. CASE SaveReturns \/ Approving \/ UNCHANGED vars
  BY <1>2 DEF SaveReturns, Approving, ServerKeeps, vars, lockVars
<1>3. CASE Expire \/ ExpireTradeId \/ Crash
  BY <1>3 DEF Expire, ExpireTradeId, LockExpires, Crash, Restart, LocksRestart, lockVars
<1> QED
  BY <1>1, <1>2, <1>3 DEF Next
-----------------------------------------------------------------------------
\* What a save in flight holds was in the store or is in it now.
Follow == \A t \in saves' : t.rows = store' \/ \E s \in saves : t.rows = s.rows

LEMMA ActsFollow ==
  ASSUME NEW r \in Requests, Acts(r)
  PROVE  Follow /\ (overlapped => overlapped')
<1>1. CASE UNCHANGED persistVars
  BY <1>1 DEF persistVars, Follow
<1>2. CASE persistAfterMutation(r, store')
  <2>1. CASE persistMutexBusy
    BY <1>2, <2>1 DEF persistAfterMutation, Follow
  <2>2. CASE ~persistMutexBusy
    <3> PICK t : t = Save(r, FALSE, store', lastWritten)
      OBVIOUS
    <3>1. saves' = saves \cup {t} /\ (overlapped => overlapped')
      BY <1>2, <2>2 DEF persistAfterMutation, Start
    <3>2. t.rows = store'
      BY DEF Save
    <3> QED
      BY <3>1, <3>2 DEF Follow
  <2> QED
    BY <2>1, <2>2
<1> QED
  BY <1>1, <1>2 DEF Acts, Moves

LEMMA DrainFollows ==
  ASSUME NEW s \in saves, Drain(s), store' = store
  PROVE  Follow /\ (overlapped => overlapped')
<1>1. CASE s.queued \/ persistMutexQueue = << >>
  BY <1>1 DEF Drain, Follow
<1>2. CASE ~(s.queued \/ persistMutexQueue = << >>)
  <2> PICK t : t = Save(Last(persistMutexQueue), TRUE, store, lastWritten')
    OBVIOUS
  <2>1. saves' = (saves \ {s}) \cup {t} /\ (overlapped => overlapped')
    BY <1>2 DEF Drain, Start
  <2>2. t.rows = store
    BY DEF Save
  <2> QED
    BY <2>1, <2>2 DEF Follow
<1> QED
  BY <1>1, <1>2

\* The two ways a save comes back: it commits, or its caller goes on.
Committing(s) == CommitSave(s) /\ UNCHANGED <<pc, overlapped>>
Ending(s) ==
  /\ db' = db /\ Drain(s)
  /\ s.by \in Requests /\ \A q \in Requests \ {s.by} : pc'[q] = pc[q]
  /\ pc'[s.by] \in {"sending", "finishing"}

LEMMA Returns ==
  ASSUME StoreInv, SaveReturns
  PROVE  /\ UNCHANGED <<store, calls, loaded, moneySignatures, tradeIdempotencyCache,
                        proposalVotes, reused, locks, lapsed, requests, agreed>>
         /\ Follow /\ (overlapped => overlapped')
         /\ \E s \in saves : Committing(s) \/ Ending(s)
<1>1. PICK s \in saves : \/ CommitSave(s) /\ pc' = pc
                         \/ FinishSave(s) /\ Wake(s.by, TRUE)
                         \/ FailSave(s) /\ Wake(s.by, s.queued)
  BY DEF SaveReturns
<1>2. UNCHANGED <<calls, moneySignatures, tradeIdempotencyCache, proposalVotes, reused,
                  locks, lapsed, requests, agreed>>
  BY DEF SaveReturns, lockVars, approvalVars
<1>3. CASE CommitSave(s) /\ pc' = pc
  <2> PICK t : t = [s EXCEPT !.committed = TRUE]
    OBVIOUS
  <2>1. saves' = (saves \ {s}) \cup {t} /\ UNCHANGED <<store, loaded, overlapped>>
    BY <1>3 DEF CommitSave
  <2>2. t.rows = s.rows
    BY CommittedSave DEF StoreInv, SaveFits
  <2> QED
    BY <1>2, <1>3, <2>1, <2>2 DEF Follow, Committing
<1>4. ASSUME NEW ok, Drain(s), Wake(s.by, ok), UNCHANGED <<store, db, loaded>>
      PROVE  Ending(s) /\ Follow /\ (overlapped => overlapped')
  BY <1>4, WakeMoves, DrainFollows DEF Ending
<1>5. CASE FinishSave(s) /\ Wake(s.by, TRUE)
  BY <1>2, <1>4, <1>5 DEF FinishSave
<1>6. CASE FailSave(s) /\ Wake(s.by, s.queued)
  BY <1>2, <1>4, <1>6 DEF FailSave
<1> QED
  BY <1>1, <1>3, <1>5, <1>6

\* A new process: its store is what the database holds.
LEMMA Restarts ==
  ASSUME StoreInv, Restart
  PROVE  /\ store' = db /\ db' = db /\ saves' = {} /\ overlapped' = overlapped
         /\ loaded' = {r \in Rows : db[r] # Absent} /\ WALLET \in loaded'
         /\ UNCHANGED <<calls, proposalVotes, reused>> /\ moneySignatures' = SignaturesLoaded
         /\ \A q \in Requests : pc'[q] \in {"idle", "done"}
<1>1. WALLET \in Rows /\ db[WALLET] # Absent
  BY WalletIsARow DEF StoreInv
<1> QED
  BY <1>1 DEF Restart, load
-----------------------------------------------------------------------------
LEMMA StorePresent ==
  ASSUME StoreInv, PresentInv, [Next]_vars
  PROVE  Present(store')
<1>1. CASE \E r \in Requests : \E where, s : Body(r, where, s)
  <2> PICK r \in Requests : \E where, s : Body(r, where, s)
    BY <1>1
  <2>1. PICK where, s : Body(r, where, s)
    OBVIOUS
  <2>2. store' = s /\ Grown(s)
    BY <2>1 DEF Body, SaveAs
  <2>3. s[WALLET] # Absent
    BY <2>2, WalletIsARow DEF Grown
  <2> QED
    BY <2>2, <2>3 DEF Grown, Present, PresentInv
<1>2. CASE \E r \in Requests : \E to : Passes(r, to)
  BY <1>2 DEF Passes, Present, PresentInv
<1>3. CASE \E r \in Requests : CountCredit(r) \/ RefuseCredit(r) \/ SendWithdrawal(r)
  BY <1>3 DEF CountCredit, RefuseCredit, SendWithdrawal, ServerKeeps, Present, PresentInv
<1>4. CASE SaveReturns
  BY <1>4, Returns DEF PresentInv
<1>5. CASE Restart
  BY <1>5, Restarts DEF PresentInv
<1>6. CASE Stands
  BY <1>6 DEF Stands, PresentInv
<1> QED
  BY <1>1, <1>2, <1>3, <1>4, <1>5, <1>6, StoreStep

\* What the transaction of a save leaves in a row.
LEMMA CommitRow ==
  ASSUME StoreInv, NEW s \in saves, CommitSave(s), NEW i \in Rows
  PROVE  /\ i \in s.deleted => db'[i] = Absent /\ s.rows[i] = Absent
         /\ i \notin s.deleted => db'[i] = db[i] \/ db'[i] = Written(i, s.rows[i])
         /\ (/\ i \notin s.deleted /\ s.rows[i] # Absent
             /\ db[i] # Absent) => db'[i] # Absent
<1>1. db'[i] = IF i \in s.deleted THEN Absent
               ELSE IF i \in s.changed /\ ~(i \in BatchedRows /\ lastWritten[i] = Absent /\ db[i] # Absent)
                    THEN Written(i, s.rows[i])
                    ELSE db[i]
  BY DEF CommitSave
<1>2. i \in s.deleted => s.rows[i] = Absent
  BY DEF StoreInv, SaveFits
<1>3. s.rows[i] # Absent => Written(i, s.rows[i]) # Absent
  BY WalletIsARow DEF Written
<1> QED
  BY <1>1, <1>2, <1>3

LEMMA PresentKept ==
  ASSUME StoreInv, ApprovalsInv, DOMAIN locks = LockKeys, PresentInv, [Next]_vars
  PROVE  PresentInv'
<1>1. Present(store')
  BY StorePresent
<1>2. CASE Restart
  <2>1. db' = db /\ saves' = {}
    BY <1>2, Restarts
  <2> QED
    BY <1>1, <2>1 DEF PresentInv, Present
<1>3. CASE Rests
  BY <1>1, <1>3 DEF Rests, persistVars, PresentInv, Present
<1>4. ASSUME Follow, Present(db')
      PROVE  PresentInv'
  <2>1. \A t \in saves' : Present(t.rows)
    BY <1>1, <1>4 DEF Follow, PresentInv
  <2> QED
    BY <1>1, <1>4, <2>1 DEF PresentInv, Present
<1>5. CASE \E r \in Requests : Acts(r)
  <2>1. Follow
    BY <1>5, ActsFollow
  <2>2. db' = db
    BY <1>5 DEF Acts, Moves
  <2> QED
    BY <1>4, <2>1, <2>2 DEF PresentInv
<1>6. CASE SaveReturns
  <2>1. PICK s \in saves : Committing(s) \/ Ending(s)
    BY <1>6, Returns
  <2>2. Present(db')
    <3>1. CASE Committing(s)
      <4>1. CommitSave(s) /\ Present(s.rows)
        BY <3>1 DEF Committing, PresentInv
      <4>2. ASSUME NEW i \in Rows \ BatchedRows PROVE db'[i] # Absent
        BY <4>1, CommitRow DEF Present, PresentInv
      <4> QED
        BY <4>2 DEF Present
    <3>2. CASE Ending(s)
      BY <3>2 DEF Ending, PresentInv
    <3> QED
      BY <2>1, <3>1, <3>2
  <2> QED
    BY <1>4, <1>6, <2>2, Returns
<1> QED
  BY <1>2, <1>3, <1>5, <1>6, OnceStep

\* While saves follow one another, the database holds the money and the row of
\* one moment.
LEMMA CommitFresh ==
  ASSUME StoreInv, WrittenInv, ~overlapped, NEW s \in saves, CommitSave(s),
         NEW i \in Items, i \in Rows, i # WALLET, i \notin DuelRows,
         Fresh(s.rows, i), Fresh(db, i),
         i \in loaded /\ i \in BatchedRows => s.rows[i] # Absent /\ db[i] # Absent
  PROVE  Fresh(db', i)
<1>1. SaveFits(s) /\ SaveAlone(s) /\ Agrees(lastWritten)
  BY OnlySave DEF StoreInv, CommitSave, SaveAlone
<1>2. \A r \in Rows :
        db'[r] = IF r \in s.deleted THEN Absent
                 ELSE IF r \in s.changed /\ ~(/\ r \in BatchedRows /\ lastWritten[r] = Absent
                                              /\ db[r] # Absent)
                      THEN Written(r, s.rows[r])
                      ELSE db[r]
  BY DEF CommitSave
<1>3. db'[WALLET] = s.rows[WALLET]
  <2>1. db'[WALLET] = IF WALLET \in s.changed THEN s.rows[WALLET] ELSE db[WALLET]
    BY <1>1, <1>2, WalletIsARow DEF SaveFits, Written
  <2>2. CASE WALLET \notin s.changed
    <3>1. s.rows[WALLET] = lastWritten[WALLET] /\ lastWritten[WALLET] # Absent
      BY <1>1, <2>2, WalletIsARow DEF SaveFits, SaveAlone
    <3>2. db[WALLET] = s.rows[WALLET]
      BY <1>1, <3>1, WalletIsARow DEF Agrees, Written
    <3> QED
      BY <2>1, <2>2, <3>2
  <2> QED
    BY <2>1, <2>2
<1>4. Written(i, s.rows[i]) = s.rows[i]
  BY DEF Written
<1>5. Initial(i) = IF i \in BatchedRows THEN Absent ELSE OpenStatus
  BY DEF Initial
<1>6. CASE i \in loaded /\ i \in BatchedRows
  <2>1. s.rows[i] # Absent /\ db[i] # Absent
    BY <1>6
  <2>2. db'[i] = s.rows[i] \/ db'[i] = db[i]
    BY <1>4, <2>1, CommitRow
  <2> QED
    BY <1>3, <1>5, <1>6, <2>1, <2>2 DEF Fresh
<1>7. CASE ~(i \in loaded /\ i \in BatchedRows)
  <2>1. IF lastWritten[i] # Absent THEN db[i] = Written(i, lastWritten[i])
        ELSE i \in loaded \/ db[i] = Absent
    BY <1>1, <1>7 DEF Agrees
  <2>2. i \notin BatchedRows => s.rows[i] # Absent /\ db[i] # Absent
    BY WalletIsARow DEF Fresh, Marks
  <2>3. db'[i] = s.rows[i]
    <3>1. CASE i \in s.deleted
      BY <3>1, CommitRow
    <3>2. CASE i \in s.changed /\ i \notin s.deleted
      BY <1>2, <1>4, <1>7, <2>1, <3>2
    <3>3. CASE i \notin s.changed /\ i \notin s.deleted
      <4>1. s.rows[i] = lastWritten[i] /\ db'[i] = db[i]
        BY <1>1, <1>2, <3>3 DEF SaveAlone
      <4> QED
        BY <1>4, <1>7, <2>1, <2>2, <4>1
    <3> QED
      BY <3>1, <3>2, <3>3
  <2> QED
    BY <1>3, <2>3 DEF Fresh
<1> QED
  BY <1>6, <1>7
-----------------------------------------------------------------------------
\* Where neither the money of an item nor its row moves.
Aside(i) ==
  /\ store'[WALLET].gets[i] = store[WALLET].gets[i]
  /\ store'[WALLET].gives[i] = store[WALLET].gives[i]
  /\ i \in Rows => store'[i] = store[i]

LEMMA ElsewhereAside ==
  ASSUME NEW r \in Requests, Acts(r), NEW i \in Items, i # WALLET, Item(r) # i
  PROVE  Aside(i)
BY DEF Acts, Moves, Local, Aside

LEMMA SameAside ==
  ASSUME NEW i, store' = store
  PROVE  Aside(i)
BY DEF Aside

LEMMA FreshAside ==
  ASSUME NEW i, Aside(i), i \in Rows, Fresh(store, i)
  PROVE  Fresh(store', i)
BY DEF Aside, Fresh, Single, Untouched

\* A step that keeps the database, and adds at most what the store holds to
\* what is on its way there.
LEMMA SavedFollows ==
  ASSUME NEW i, Saved(i), db' = db, Follow, Fresh(store', i)
  PROVE  Saved(i)'
BY DEF Saved, Follow, Fresh

LEMMA SavedReturns ==
  ASSUME StoreInv, WrittenInv, SaveReturns, ~overlapped,
         NEW i \in Items, i \in Rows, i # WALLET, i \notin DuelRows,
         Saved(i), Fresh(store, i),
         i \in loaded /\ i \in BatchedRows =>
           db[i] # Absent /\ \A s \in saves : s.rows[i] # Absent
  PROVE  Saved(i)'
<1>1. PICK s \in saves : Committing(s) \/ Ending(s)
  BY Returns
<1>2. store' = store /\ Follow
  BY Returns
<1>3. CASE Committing(s)
  <2>1. CommitSave(s) /\ Fresh(s.rows, i) /\ Fresh(db, i)
    BY <1>3 DEF Committing, Saved
  <2>2. Fresh(db', i)
    BY <2>1, CommitFresh
  <2>3. \A t \in saves' : Fresh(t.rows, i)
    BY <1>2 DEF Saved, Follow
  <2> QED
    BY <2>2, <2>3 DEF Saved, Fresh
<1>4. CASE Ending(s)
  BY <1>2, <1>4, SavedFollows DEF Ending
<1> QED
  BY <1>1, <1>3, <1>4

\* What a request does to the row it once takes: nothing, or its effect.
LEMMA RowSteps ==
  ASSUME StoreInv, NEW r \in Requests, Arrive(r) \/ Proceed(r), Route(r) \in RowRoutes,
         Acts(r), Item(r) \in Rows
  PROVE  \/ store' = store
         \/ /\ store[Item(r)] = OpenStatus /\ store'[Item(r)] = "DONE"
            /\ \/ /\ store'[WALLET].gets[Item(r)] = store[WALLET].gets[Item(r)] + 1
                  /\ store'[WALLET].gives[Item(r)] = store[WALLET].gives[Item(r)]
               \/ /\ store'[WALLET].gets[Item(r)] = store[WALLET].gets[Item(r)]
                  /\ store'[WALLET].gives[Item(r)] = store[WALLET].gives[Item(r)] + 1
<1>1. Item(r) \in Items /\ Item(r) # WALLET /\ WALLET \in Rows
  BY CallFacts, WalletIsARow DEF StoreInv
<1>2. \/ AskForLock(r) \/ GetLock(r) \/ Finish(r)
      \/ AcceptDuel(r) \/ DeleteDuel(r) \/ DeleteOrder(r) \/ ClaimPosition(r) \/ ClaimRewards(r)
      \/ ExecuteResolution(r)
  BY DEF Arrive, Proceed, At, RowRoutes, MarkDeposit, PostTransactions, PostMarkets,
     PeriodicPersist, GracefulShutdown, PostTrades, PostDuels, PostOrders, BoostPosition, Stake,
     Unstake, CountCredit, RefuseCredit, ExecuteCredit, RecordVote, CountVote, CreditDeposit,
     RejectDeposit, DebitWithdrawal, SendWithdrawal, RecordWithdrawal, ReverseWithdrawal
<1>3. CASE AskForLock(r) \/ GetLock(r) \/ Finish(r)
  <2>1. Route(r) # "shutdown"
    BY DEF RowRoutes
  <2> QED
    BY <1>3, <2>1 DEF AskForLock, GetLock, Finish
<1>4. ASSUME Once(r, Gets(store, Item(r)))
      PROVE  \/ store' = store
             \/ /\ store[Item(r)] = OpenStatus /\ store'[Item(r)] = "DONE"
                /\ store'[WALLET].gets[Item(r)] = store[WALLET].gets[Item(r)] + 1
                /\ store'[WALLET].gives[Item(r)] = store[WALLET].gives[Item(r)]
  <2> PICK g : g = Gets(store, Item(r))
    OBVIOUS
  <2>1. /\ DOMAIN g = Rows
        /\ g[WALLET].gets[Item(r)] = store[WALLET].gets[Item(r)] + 1
        /\ g[WALLET].gives[Item(r)] = store[WALLET].gives[Item(r)]
    BY <1>1, GetsChange
  <2>2. store' = store \/ (store[Item(r)] = OpenStatus /\ store' = [g EXCEPT ![Item(r)] = "DONE"])
    BY <1>4 DEF Once, SaveAs, Throw
  <2> QED
    BY <1>1, <2>1, <2>2, RowChange
<1>5. ASSUME Once(r, Gives(store, Item(r)))
      PROVE  \/ store' = store
             \/ /\ store[Item(r)] = OpenStatus /\ store'[Item(r)] = "DONE"
                /\ store'[WALLET].gets[Item(r)] = store[WALLET].gets[Item(r)]
                /\ store'[WALLET].gives[Item(r)] = store[WALLET].gives[Item(r)] + 1
  <2> PICK g : g = Gives(store, Item(r))
    OBVIOUS
  <2>1. /\ DOMAIN g = Rows
        /\ g[WALLET].gives[Item(r)] = store[WALLET].gives[Item(r)] + 1
        /\ g[WALLET].gets[Item(r)] = store[WALLET].gets[Item(r)]
    BY <1>1, GivesChange
  <2>2. store' = store \/ (store[Item(r)] = OpenStatus /\ store' = [g EXCEPT ![Item(r)] = "DONE"])
    BY <1>5 DEF Once, SaveAs, Throw
  <2> QED
    BY <1>1, <2>1, <2>2, RowChange
<1>6. CASE DeleteDuel(r) \/ DeleteOrder(r) \/ ClaimPosition(r) \/ ClaimRewards(r)
           \/ ExecuteResolution(r)
  BY <1>4, <1>6 DEF DeleteDuel, DeleteOrder, ClaimPosition, ClaimRewards, ExecuteResolution
<1>7. CASE AcceptDuel(r)
  BY <1>5, <1>7 DEF AcceptDuel, Throw
<1> QED
  BY <1>2, <1>3, <1>6, <1>7

\* The only routes that may follow one another on a row are those of its kind,
\* and the creation of a market again.
LEMMA RowActs ==
  ASSUME StoreInv, NEW r \in Requests, Arrive(r) \/ Proceed(r), Acts(r), NEW i \in Items,
         Item(r) = i, Of(RowRoutes, i), Of({"resolve"}, i) => i \notin reused', Fresh(store, i)
  PROVE  Fresh(store', i)
<1>1. i \in Rows /\ i \notin BatchedRows /\ i # WALLET
  BY ItemFacts DEF StoreInv
<1>2. Route(r) \in RowRoutes \cup {"markets"}
  BY KinRoutes DEF StoreInv
<1>3. CASE Route(r) \in RowRoutes
  <2>1. Initial(i) = OpenStatus /\ "DONE" \in Marks(i) /\ OpenStatus # "DONE"
    BY <1>1, ItemsAssumption DEF Initial, Marks
  <2>2. CASE store' = store
    BY <2>2
  <2>3. CASE store' # store
    <3>1. /\ store[i] = OpenStatus /\ store'[i] = "DONE"
          /\ \/ /\ store'[WALLET].gets[i] = store[WALLET].gets[i] + 1
                /\ store'[WALLET].gives[i] = store[WALLET].gives[i]
             \/ /\ store'[WALLET].gets[i] = store[WALLET].gets[i]
                /\ store'[WALLET].gives[i] = store[WALLET].gives[i] + 1
      BY <1>1, <1>3, <2>3, RowSteps
    <3>2. store[WALLET].gets[i] = 0 /\ store[WALLET].gives[i] = 0
      BY <2>1, <3>1 DEF Fresh, Untouched
    <3> QED
      BY <2>1, <3>1, <3>2 DEF Fresh, Single
  <2> QED
    BY <2>2, <2>3
<1>4. CASE Route(r) = "markets"
  <2>1. AskForLock(r) \/ GetLock(r) \/ Finish(r) \/ PostMarkets(r)
    BY <1>4 DEF Arrive, Proceed, At, MarkDeposit, PostTransactions, PeriodicPersist,
       GracefulShutdown, PostTrades, PostDuels, PostOrders, BoostPosition, Stake, AcceptDuel,
       DeleteDuel, DeleteOrder, ClaimPosition, ClaimRewards, ExecuteResolution,
       Unstake, CountCredit, RefuseCredit, ExecuteCredit, RecordVote, CountVote, CreditDeposit,
       RejectDeposit, DebitWithdrawal, SendWithdrawal, RecordWithdrawal, ReverseWithdrawal
  <2>2. ~PostMarkets(r)
    BY <1>4, KinRoutes DEF PostMarkets, StoreInv
  <2>3. store' = store
    BY <1>4, <2>1, <2>2 DEF AskForLock, GetLock, Finish
  <2> QED
    BY <2>3
<1> QED
  BY <1>2, <1>3, <1>4

LEMMA RowKept ==
  ASSUME StoreInv, WrittenInv, ApprovalsInv, DOMAIN locks = LockKeys, PresentInv, [Next]_vars,
         NEW i \in Items, RowOnce(i)
  PROVE  RowOnce(i)'
<1> DEFINE Taken == Of(RowRoutes, i) /\ (Of({"resolve"}, i) => i \notin reused)
                      /\ i \notin DuelRows \cap loaded /\ ~(overlapped /\ loaded # {})
           Good == Fresh(store, i) /\ (overlapped \/ i \in DuelRows \/ Saved(i))
<1>1. RowOnce(i) = (Taken => Good)
  BY DEF RowOnce, Restarted
<1> SUFFICES ASSUME Taken' PROVE Good'
  BY <1>1 DEF RowOnce, Restarted
<1>2. ASSUME calls' = calls
      PROVE  /\ Of(RowRoutes, i) /\ i \in Rows /\ i \notin BatchedRows /\ i # WALLET
             /\ Of({"resolve"}, i)' = Of({"resolve"}, i)
  <2>1. Of(RowRoutes, i) /\ Of({"resolve"}, i)' = Of({"resolve"}, i)
    BY <1>2 DEF Of, Item, Route
  <2> QED
    BY <2>1, ItemFacts DEF StoreInv
<1>3. ASSUME NEW r \in Requests, Arrive(r) \/ Proceed(r), Acts(r) PROVE Good'
  <2>1. /\ calls' = calls /\ loaded' = loaded /\ db' = db /\ reused \subseteq reused'
        /\ Follow /\ (overlapped => overlapped')
    BY <1>3, ActsFollow DEF Acts, Sides, Moves
  <2>2. /\ Good /\ i \in Rows /\ i # WALLET /\ Of(RowRoutes, i)
        /\ Of({"resolve"}, i) => i \notin reused'
    BY <1>1, <1>2, <2>1
  <2>3. Fresh(store', i)
    <3>1. CASE Item(r) = i
      BY <1>3, <2>2, <3>1, RowActs
    <3>2. CASE Item(r) # i
      BY <1>3, <2>2, <3>2, ElsewhereAside, FreshAside
    <3> QED
      BY <3>1, <3>2
  <2>4. Saved(i) => Saved(i)'
    BY <2>1, <2>3, SavedFollows
  <2> QED
    BY <2>1, <2>2, <2>3, <2>4 DEF Fresh
<1>4. CASE SaveReturns
  <2>1. /\ UNCHANGED <<store, calls, loaded, reused>> /\ (overlapped => overlapped')
    BY <1>4, Returns
  <2>2. Good /\ i \in Rows /\ i \notin BatchedRows /\ i # WALLET
    BY <1>1, <1>2, <2>1
  <2>3. ~overlapped /\ i \notin DuelRows => Saved(i)'
    BY <1>4, <2>2, SavedReturns
  <2> QED
    BY <2>1, <2>2, <2>3 DEF Fresh
<1>5. CASE Restart
  <2>1. /\ store' = db /\ db' = db /\ saves' = {} /\ overlapped' = overlapped
        /\ UNCHANGED <<calls, reused>>
        /\ loaded' = {r \in Rows : db[r] # Absent} /\ WALLET \in loaded'
    BY <1>5, Restarts
  <2>2. i \in Rows /\ i \notin BatchedRows
    BY <1>2, <2>1
  <2>3. db[i] # Absent
    BY <2>2 DEF PresentInv, Present
  <2>4. ~overlapped /\ i \notin DuelRows
    BY <2>1, <2>2, <2>3
  <2>5. Good
    BY <1>1, <1>2, <2>1, <2>4
  <2>6. Fresh(db, i)
    BY <2>4, <2>5 DEF Saved
  <2> QED
    BY <2>1, <2>6 DEF Saved, Fresh
<1>6. CASE Rests
  BY <1>1, <1>6 DEF Rests, persistVars, Of, Item, Route, Fresh, Saved
<1> QED
  BY <1>3, <1>4, <1>5, <1>6, OnceStep
-----------------------------------------------------------------------------
LEMMA DepositSteps ==
  ASSUME StoreInv, NEW r \in Requests, Arrive(r) \/ Proceed(r), Acts(r),
         Route(r) \in {"deposit", "transactions"}, Item(r) \notin reused'
  PROVE  \/ MarkDeposit(r) \/ CreditDeposit(r) \/ RejectDeposit(r)
         \/ /\ UNCHANGED <<store, moneySignatures>>
            /\ pc[r] # "verifying" /\ pc'[r] # "verifying"
<1>1. \/ AskForLock(r) \/ GetLock(r) \/ Finish(r) \/ PostTransactions(r)
      \/ MarkDeposit(r) \/ CreditDeposit(r) \/ RejectDeposit(r)
  BY DEF Arrive, Proceed, At, PostMarkets, PeriodicPersist,
     GracefulShutdown, PostTrades, PostDuels, PostOrders, BoostPosition, Stake, AcceptDuel,
     DeleteDuel, DeleteOrder, ClaimPosition, ClaimRewards, ExecuteResolution,
     Unstake, CountCredit, RefuseCredit, ExecuteCredit, RecordVote, CountVote,
     DebitWithdrawal, SendWithdrawal, RecordWithdrawal, ReverseWithdrawal
<1>2. ~PostTransactions(r) /\ ~AskForLock(r) /\ DOMAIN pc = Requests
  BY DEF PostTransactions, AskForLock, Unlocked, StoreInv
<1>3. CASE GetLock(r) \/ Finish(r)
  BY <1>2, <1>3 DEF GetLock, Finish, Move
<1> QED
  BY <1>1, <1>2, <1>3

LEMMA MarkMarks ==
  ASSUME StoreInv, NEW r \in Requests, MarkDeposit(r), NEW i \in Items, Item(r) = i, i \in Rows,
         i \in BatchedRows, i # WALLET, Marked(i)
  PROVE  Marked(i)'
<1>1. /\ pc[r] = "idle" /\ loaded' = loaded /\ calls' = calls /\ DOMAIN pc = Requests
      /\ DOMAIN store = Rows /\ WALLET \in Rows
  BY WalletIsARow DEF MarkDeposit, At, StoreInv, persistVars
<1>2. Absent # "DEPOSIT_PENDING"
  BY BackendAssumption
<1>3. CASE i \in moneySignatures
  <2>1. UNCHANGED <<store, moneySignatures>> /\ Move(r, "done")
    BY <1>3 DEF MarkDeposit
  <2>2. Waits(i, {"verifying"})' = Waits(i, {"verifying"})
    BY <1>1, <2>1 DEF Waits, Item, Move
  <2> QED
    BY <1>1, <2>1, <2>2 DEF Marked, Fresh
<1>4. CASE i \notin moneySignatures
  <2>1. store[i] = Absent /\ i \notin loaded
    BY <1>4 DEF Marked
  <2>2. /\ store' = [store EXCEPT ![i] = "DEPOSIT_PENDING"] /\ i \in moneySignatures'
        /\ Move(r, "verifying")
    BY <1>4, <2>1 DEF MarkDeposit
  <2>3. store'[i] = "DEPOSIT_PENDING" /\ store'[WALLET] = store[WALLET]
    BY <1>1, <2>2
  <2>4. Waits(i, {"verifying"}) = {}
    BY <1>2, <2>1 DEF Marked
  <2>5. Waits(i, {"verifying"})' = {r}
    BY <1>1, <2>2, <2>4 DEF Waits, Item, Move
  <2>6. Untouched(store[WALLET], i)
    BY <2>1 DEF Marked, Fresh, Initial
  <2>7. Fresh(store, i)'
    BY <2>3, <2>6 DEF Fresh, Marks, Single, Untouched
  <2> QED
    BY <1>1, <1>2, <2>1, <2>2, <2>3, <2>5, <2>6, <2>7 DEF Marked
<1> QED
  BY <1>3, <1>4

LEMMA CreditMarks ==
  ASSUME StoreInv, NEW r \in Requests, CreditDeposit(r), NEW i \in Items, Item(r) = i, i \in Rows,
         i \in BatchedRows, i # WALLET, Marked(i)
  PROVE  Marked(i)'
<1>1. /\ pc[r] = "verifying" /\ loaded' = loaded /\ calls' = calls /\ DOMAIN pc = Requests
      /\ moneySignatures' = moneySignatures /\ WALLET \in Rows
  BY WalletIsARow DEF CreditDeposit, At, Quiet, SaveAs, persistAfterMutation, StoreInv
<1>2. Absent # "DEPOSIT_PENDING" /\ Absent # "DEPOSIT"
  BY BackendAssumption
<1>3. r \in Waits(i, {"verifying"})
  BY <1>1 DEF Waits
<1>4. /\ Waits(i, {"verifying"}) = {r} /\ i \notin loaded
      /\ store[i] = "DEPOSIT_PENDING" /\ Untouched(store[WALLET], i)
  BY <1>3 DEF Marked
<1>5. i \in moneySignatures
  BY <1>2, <1>4 DEF Marked
<1> PICK g : g = Gets(store, i)
  OBVIOUS
<1>6. DOMAIN g = Rows /\ g[WALLET].gets[i] = store[WALLET].gets[i] + 1
      /\ g[WALLET].gives[i] = store[WALLET].gives[i]
  BY GetsChange
<1>7. store' = [g EXCEPT ![i] = "DEPOSIT"] /\ Move(r, "saving")
  BY DEF CreditDeposit, SaveAs
<1>8. store'[i] = "DEPOSIT" /\ store'[WALLET] = g[WALLET]
  BY <1>1, <1>6, <1>7
<1>9. Waits(i, {"verifying"})' = {}
  BY <1>1, <1>4, <1>7 DEF Waits, Item, Move
<1>10. Fresh(store, i)'
  <2>1. g[WALLET].gets[i] = 1 /\ g[WALLET].gives[i] = 0
    BY <1>4, <1>6 DEF Untouched
  <2>2. Initial(i) = Absent /\ "DEPOSIT" \in Marks(i)
    BY DEF Initial, Marks
  <2> QED
    BY <1>2, <1>8, <2>1, <2>2 DEF Fresh, Single
<1> QED
  BY <1>1, <1>2, <1>4, <1>5, <1>8, <1>9, <1>10 DEF Marked

LEMMA RejectMarks ==
  ASSUME StoreInv, NEW r \in Requests, RejectDeposit(r), NEW i \in Items, Item(r) = i, i \in Rows,
         i \in BatchedRows, i # WALLET, Marked(i)
  PROVE  Marked(i)'
<1>1. /\ pc[r] = "verifying" /\ loaded' = loaded /\ calls' = calls /\ DOMAIN pc = Requests
      /\ WALLET \in Rows /\ DOMAIN store = Rows
  BY WalletIsARow DEF RejectDeposit, At, StoreInv, persistVars
<1>2. r \in Waits(i, {"verifying"})
  BY <1>1 DEF Waits
<1>3. /\ Waits(i, {"verifying"}) = {r} /\ i \notin loaded
      /\ Untouched(store[WALLET], i)
  BY <1>2 DEF Marked
<1>4. store' = [store EXCEPT ![i] = Absent] /\ Move(r, "done")
  BY DEF RejectDeposit
<1>5. store'[i] = Absent /\ store'[WALLET] = store[WALLET]
  BY <1>1, <1>4
<1>6. Waits(i, {"verifying"})' = {}
  BY <1>1, <1>3, <1>4 DEF Waits, Item, Move
<1>7. Fresh(store, i)'
  BY <1>3, <1>5 DEF Fresh, Marks, Single, Untouched
<1> QED
  BY <1>1, <1>3, <1>5, <1>6, <1>7 DEF Marked

\* Where no request for a signature starts or stops waiting for its verification.
LEMMA MarkedStands ==
  ASSUME NEW i, i \in Rows, Marked(i), Aside(i), loaded' = loaded,
         i \in moneySignatures' <=> i \in moneySignatures,
         Waits(i, {"verifying"})' = Waits(i, {"verifying"})
  PROVE  Marked(i)'
<1>1. Fresh(store, i)'
  BY FreshAside DEF Marked, Fresh
<1>2. Untouched(store[WALLET], i) => Untouched(store[WALLET], i)'
  BY DEF Untouched, Aside
<1> QED
  BY <1>1, <1>2 DEF Marked, Aside

LEMMA DepositActs ==
  ASSUME StoreInv, NEW r \in Requests, Arrive(r) \/ Proceed(r), Acts(r), NEW i \in Items,
         Of({"deposit"}, i), i \notin reused', Marked(i)
  PROVE  Marked(i)'
<1>1. i \in Rows /\ i \in BatchedRows /\ i # WALLET /\ DOMAIN pc = Requests
  BY ItemFacts DEF StoreInv
<1>2. calls' = calls /\ loaded' = loaded
  BY DEF Acts, Sides, Moves
<1>3. CASE Item(r) = i
  <2>1. Route(r) \in {"deposit", "transactions"}
    BY <1>3, KinRoutes DEF StoreInv
  <2>2. CASE /\ UNCHANGED <<store, moneySignatures>>
             /\ pc[r] # "verifying" /\ pc'[r] # "verifying"
    <3>1. Waits(i, {"verifying"})' = Waits(i, {"verifying"})
      BY <1>2, <2>2 DEF Waits, Item, Acts, Moves
    <3> QED
      BY <1>1, <1>2, <2>2, <3>1, MarkedStands, SameAside
  <2> QED
    BY <1>1, <1>3, <2>1, <2>2, DepositSteps, MarkMarks, CreditMarks, RejectMarks
<1>4. CASE Item(r) # i
  <2>1. Waits(i, {"verifying"})' = Waits(i, {"verifying"})
    BY <1>2, <1>4 DEF Waits, Item, Acts, Moves
  <2>2. i \in moneySignatures' <=> i \in moneySignatures
    BY <1>4 DEF Acts, Sides, SameBut
  <2> QED
    BY <1>1, <1>2, <1>4, <2>1, <2>2, MarkedStands, ElsewhereAside
<1> QED
  BY <1>3, <1>4

LEMMA DepositKept ==
  ASSUME StoreInv, WrittenInv, ApprovalsInv, DOMAIN locks = LockKeys, [Next]_vars,
         NEW i \in Items, DepositOnce(i)
  PROVE  DepositOnce(i)'
<1> DEFINE Taken == Of({"deposit"}, i) /\ i \notin reused /\ ~(overlapped /\ loaded # {})
<1>1. DepositOnce(i) = (Taken => Marked(i) /\ Kept(i))
  BY DEF DepositOnce, Restarted
<1>2. DepositOnce(i)' = (Taken' => Marked(i)' /\ Kept(i)')
  BY DEF DepositOnce, Marked, Kept, Restarted
<1> SUFFICES ASSUME Taken' PROVE Marked(i)' /\ Kept(i)'
  BY <1>2
<1>3. ASSUME calls' = calls
      PROVE  Of({"deposit"}, i) /\ i \in Rows /\ i \in BatchedRows /\ i \notin DuelRows /\ i # WALLET
  <2>1. Of({"deposit"}, i)
    BY <1>3 DEF Of, Item, Route
  <2> QED
    BY <2>1, ItemFacts DEF StoreInv
<1>4. ASSUME NEW r \in Requests, Arrive(r) \/ Proceed(r), Acts(r)
      PROVE  Marked(i)' /\ Kept(i)'
  <2>1. /\ calls' = calls /\ loaded' = loaded /\ db' = db /\ reused \subseteq reused'
        /\ Follow /\ (overlapped => overlapped')
    BY <1>4, ActsFollow DEF Acts, Sides, Moves
  <2>2. Marked(i) /\ Kept(i) /\ Of({"deposit"}, i)
    BY <1>1, <1>3, <2>1
  <2>3. Marked(i)'
    BY <1>4, <2>2, DepositActs
  <2>4. Saved(i) => Saved(i)'
    BY <2>1, <2>3, SavedFollows DEF Marked, Fresh
  <2>5. i \in loaded => \A t \in saves' : t.rows[i] # Absent
    BY <2>1, <2>2, <2>3 DEF Follow, Kept, Marked
  <2> QED
    BY <2>1, <2>2, <2>3, <2>4, <2>5 DEF Kept
<1>5. CASE SaveReturns
  <2>1. /\ UNCHANGED <<store, calls, loaded, reused, moneySignatures>> /\ (overlapped => overlapped')
        /\ Follow
    BY <1>5, Returns
  <2>2. Marked(i) /\ Kept(i) /\ i \in Rows /\ i \notin DuelRows /\ i # WALLET
    BY <1>1, <1>3, <2>1
  <2>3. PICK s \in saves : Committing(s) \/ Ending(s)
    BY <1>5, Returns
  <2>4. Waits(i, {"verifying"})' = Waits(i, {"verifying"})
    <3>1. CASE Committing(s)
      BY <2>1, <3>1 DEF Committing, Waits, Item
    <3>2. CASE Ending(s)
      <4>1. pc[s.by] # "verifying"
        BY DEF StoreInv, SaveFits, Later
      <4> QED
        BY <2>1, <3>2, <4>1 DEF Ending, Waits, Item
    <3> QED
      BY <2>3, <3>1, <3>2
  <2>5. Marked(i)'
    BY <2>1, <2>2, <2>4, MarkedStands, SameAside
  <2>6. ~overlapped => Saved(i)'
    BY <1>5, <2>2, SavedReturns DEF Kept, Marked
  <2>7. i \in loaded => db'[i] # Absent /\ \A t \in saves' : t.rows[i] # Absent
    <3> SUFFICES ASSUME i \in loaded
                 PROVE  db'[i] # Absent /\ \A t \in saves' : t.rows[i] # Absent
      OBVIOUS
    <3>1. store[i] # Absent /\ db[i] # Absent /\ \A t \in saves : t.rows[i] # Absent
      BY <2>2 DEF Kept, Marked
    <3>2. \A t \in saves' : t.rows[i] # Absent
      BY <2>1, <3>1 DEF Follow
    <3>3. db'[i] # Absent
      <4>1. CASE Committing(s)
        BY <2>2, <3>1, <4>1, CommitRow DEF Committing
      <4>2. CASE Ending(s)
        BY <3>1, <4>2 DEF Ending
      <4> QED
        BY <2>3, <4>1, <4>2
    <3> QED
      BY <3>2, <3>3
  <2> QED
    BY <2>1, <2>5, <2>6, <2>7 DEF Kept
<1>6. CASE Restart
  <2>1. /\ store' = db /\ db' = db /\ saves' = {} /\ overlapped' = overlapped
        /\ UNCHANGED <<calls, reused>> /\ moneySignatures' = SignaturesLoaded
        /\ loaded' = {r \in Rows : db[r] # Absent} /\ WALLET \in loaded'
        /\ \A q \in Requests : pc'[q] \in {"idle", "done"}
    BY <1>6, Restarts
  <2>2. i \in Rows /\ i \in BatchedRows
    BY <1>3, <2>1
  <2>3. ~overlapped
    BY <2>1
  <2>4. Fresh(db, i)
    BY <1>1, <1>3, <2>1, <2>3 DEF Kept, Saved
  <2>5. db[i] # Absent => i \in SignaturesLoaded
    BY <2>2, <2>4 DEF Fresh, Marks, SignaturesLoaded
  <2>6. Waits(i, {"verifying"})' = {}
    BY <2>1 DEF Waits
  <2> QED
    BY <2>1, <2>4, <2>5, <2>6 DEF Marked, Kept, Saved, Fresh
<1>7. CASE Rests
  <2>1. /\ UNCHANGED <<calls, pc, store, db, saves, loaded, overlapped, moneySignatures>>
        /\ reused \subseteq reused'
    BY <1>7 DEF Rests, persistVars
  <2>2. Marked(i) /\ Kept(i) /\ i \in Rows
    BY <1>1, <1>3, <2>1
  <2>3. Waits(i, {"verifying"})' = Waits(i, {"verifying"})
    BY <2>1 DEF Waits, Item
  <2>4. Marked(i)'
    BY <2>1, <2>2, <2>3, MarkedStands, SameAside
  <2> QED
    BY <2>1, <2>2, <2>4 DEF Kept, Saved, Fresh
<1> QED
  BY <1>4, <1>5, <1>6, <1>7, OnceStep
-----------------------------------------------------------------------------
\* What a request does to a vote: its row, its weight, or nothing.
LEMMA VoteSteps ==
  ASSUME StoreInv, NEW r \in Requests, Arrive(r) \/ Proceed(r), Acts(r), Route(r) = "vote"
  PROVE  /\ UNCHANGED store /\ UNCHANGED proposalVotes
            /\ pc[r] # "recorded" /\ pc'[r] # "recorded"
         \/ /\ UNCHANGED store /\ Item(r) \notin proposalVotes /\ Item(r) \in proposalVotes'
            /\ pc'[r] = "recorded"
         \/ CountVote(r)
<1>1. DOMAIN pc = Requests
  BY DEF StoreInv
<1>2. AskForLock(r) \/ GetLock(r) \/ Finish(r) \/ RecordVote(r) \/ CountVote(r)
  BY DEF Arrive, Proceed, At, MarkDeposit, PostTransactions, PostMarkets,
     PeriodicPersist, GracefulShutdown, PostTrades, PostDuels, PostOrders, BoostPosition, Stake,
     AcceptDuel, DeleteDuel, DeleteOrder, ClaimPosition, ClaimRewards, ExecuteResolution,
     Unstake, CountCredit, RefuseCredit, ExecuteCredit, CreditDeposit,
     RejectDeposit, DebitWithdrawal, SendWithdrawal, RecordWithdrawal, ReverseWithdrawal
<1>3. CASE AskForLock(r) \/ GetLock(r) \/ Finish(r)
  <2>1. UNCHANGED <<store, proposalVotes>>
    BY <1>3 DEF AskForLock, GetLock, Finish
  <2>2. pc[r] # "recorded" /\ \E to \in {"asked", "done", "locked"} : Move(r, to)
    BY <1>3 DEF AskForLock, GetLock, Finish
  <2> QED
    BY <1>1, <2>1, <2>2 DEF Move
<1>4. CASE RecordVote(r)
  <2>1. store' = store /\ pc[r] = "locked"
    BY <1>4 DEF RecordVote, At
  <2>2. CASE store[Item(r)] = OpenStatus /\ Item(r) \notin proposalVotes
    BY <1>1, <1>4, <2>1, <2>2 DEF RecordVote, Move
  <2>3. CASE ~(store[Item(r)] = OpenStatus /\ Item(r) \notin proposalVotes)
    <3>1. Move(r, "finishing")
      BY <1>4, <2>3 DEF RecordVote
    <3>2. proposalVotes' = proposalVotes
      BY <1>4, <2>3 DEF RecordVote
    <3> QED
      BY <1>1, <2>1, <3>1, <3>2 DEF Move
  <2> QED
    BY <2>2, <2>3
<1> QED
  BY <1>2, <1>3, <1>4

\* A bound that only grew weaker holds of what follows.
LEMMA BoundsFollow ==
  ASSUME NEW i \in Items, VoteOnce(i), Of({"vote"}, i), Follow, Voted(i) => Voted(i)',
         VoteBound(store'[WALLET], i, Voted(i)'), VoteBound(db'[WALLET], i, Voted(i)'),
         \A r \in Waits(i, {"recorded"})' :
           i \in proposalVotes' /\ Waits(i, {"recorded"})' = {r}
  PROVE  VoteOnce(i)'
<1>1. \A s \in saves : VoteBound(s.rows[WALLET], i, Voted(i)')
  BY DEF VoteOnce, VoteBound
<1>2. \A t \in saves' : VoteBound(t.rows[WALLET], i, Voted(i)')
  BY <1>1 DEF Follow
<1>3. VoteOnce(i)' = (Of({"vote"}, i)' =>
       /\ VoteBound(store'[WALLET], i, Voted(i)') /\ VoteBound(db'[WALLET], i, Voted(i)')
       /\ \A s \in saves' : VoteBound(s.rows[WALLET], i, Voted(i)')
       /\ \A r \in Waits(i, {"recorded"})' : i \in proposalVotes' /\ Waits(i, {"recorded"})' = {r})
  BY DEF VoteOnce, VoteBound
<1> QED
  BY <1>2, <1>3

LEMMA VoteStands ==
  ASSUME NEW i \in Items, VoteOnce(i), Of({"vote"}, i), Follow, Aside(i),
         db'[WALLET] = db[WALLET] \/ \E s \in saves : db'[WALLET] = s.rows[WALLET],
         i \in proposalVotes' <=> i \in proposalVotes,
         Waits(i, {"recorded"})' = Waits(i, {"recorded"})
  PROVE  VoteOnce(i)'
<1>1. Voted(i)' = Voted(i)
  BY DEF Voted
<1>2. VoteBound(store'[WALLET], i, Voted(i)')
  BY <1>1 DEF VoteOnce, VoteBound, Aside
<1>3. VoteBound(db'[WALLET], i, Voted(i)')
  BY <1>1 DEF VoteOnce, VoteBound
<1>4. \A r \in Waits(i, {"recorded"})' : i \in proposalVotes' /\ Waits(i, {"recorded"})' = {r}
  BY DEF VoteOnce
<1> QED
  BY <1>1, <1>2, <1>3, <1>4, BoundsFollow

LEMMA VoteActs ==
  ASSUME StoreInv, NEW r \in Requests, Arrive(r) \/ Proceed(r), Acts(r), NEW i \in Items,
         Of({"vote"}, i), VoteOnce(i), i # WALLET
  PROVE  VoteOnce(i)'
<1>1. /\ calls' = calls /\ db' = db /\ Follow /\ DOMAIN pc = Requests
      /\ \A q \in Requests \ {r} : pc'[q] = pc[q]
  BY ActsFollow DEF Acts, Sides, Moves, StoreInv
<1>2. CASE Item(r) # i
  <2>1. Waits(i, {"recorded"})' = Waits(i, {"recorded"})
    BY <1>1, <1>2 DEF Waits, Item
  <2>2. i \in proposalVotes' <=> i \in proposalVotes
    BY <1>2 DEF Acts, Sides, SameBut
  <2> QED
    BY <1>1, <1>2, <2>1, <2>2, ElsewhereAside, VoteStands
<1>3. CASE Item(r) = i
  <2>1. Route(r) = "vote"
    BY <1>3, KinRoutes DEF StoreInv
  <2>2. CASE /\ UNCHANGED store /\ UNCHANGED proposalVotes
             /\ pc[r] # "recorded" /\ pc'[r] # "recorded"
    <3>1. Waits(i, {"recorded"})' = Waits(i, {"recorded"})
      BY <1>1, <2>2 DEF Waits, Item
    <3> QED
      BY <1>1, <2>2, <3>1, SameAside, VoteStands
  <2>3. CASE UNCHANGED store /\ i \notin proposalVotes /\ i \in proposalVotes' /\ pc'[r] = "recorded"
    <3>1. Waits(i, {"recorded"}) = {} /\ ~Voted(i)
      BY <2>3 DEF VoteOnce, Voted
    <3>2. Waits(i, {"recorded"})' = {r}
      BY <1>1, <1>3, <2>3, <3>1 DEF Waits, Item
    <3>3. ~Voted(i)'
      BY <3>2 DEF Voted
    <3>4. VoteBound(store'[WALLET], i, Voted(i)') /\ VoteBound(db'[WALLET], i, Voted(i)')
      BY <1>1, <2>3, <3>1, <3>3 DEF VoteOnce, VoteBound
    <3> QED
      BY <1>1, <2>3, <3>1, <3>2, <3>3, <3>4, BoundsFollow
  <2>4. CASE CountVote(r)
    <3>1. pc[r] = "recorded" /\ Move(r, "saving") /\ proposalVotes' = proposalVotes
      BY <2>4 DEF CountVote, At, SaveAs, Quiet
    <3>2. r \in Waits(i, {"recorded"})
      BY <1>3, <3>1 DEF Waits
    <3>3. Waits(i, {"recorded"}) = {r} /\ i \in proposalVotes /\ ~Voted(i)
      BY <3>2 DEF VoteOnce, Voted
    <3>4. Waits(i, {"recorded"})' = {}
      BY <1>1, <3>1, <3>3 DEF Waits, Item, Move
    <3>5. Voted(i)'
      BY <3>1, <3>3, <3>4 DEF Voted
    <3> PICK g : g = Gets(store, i)
      OBVIOUS
    <3>6. DOMAIN g = Rows /\ g[WALLET].gets[i] = store[WALLET].gets[i] + 1
          /\ g[WALLET].gives[i] = store[WALLET].gives[i]
      BY GetsChange
    <3>7. store' = [g EXCEPT ![i] = "DONE"]
      BY <1>3, <2>4 DEF CountVote, SaveAs
    <3>8. store'[WALLET] = g[WALLET]
      BY <3>6, <3>7, WalletIsARow
    <3>9. store[WALLET].gets[i] = 0 /\ store[WALLET].gives[i] = 0
      BY <3>3 DEF VoteOnce, VoteBound
    <3>10. VoteBound(store'[WALLET], i, Voted(i)')
      BY <3>5, <3>6, <3>8, <3>9 DEF VoteBound
    <3>11. VoteBound(db'[WALLET], i, Voted(i)')
      BY <1>1, <3>5 DEF VoteOnce, VoteBound
    <3> QED
      BY <1>1, <3>4, <3>5, <3>10, <3>11, BoundsFollow
  <2> QED
    BY <1>3, <2>1, <2>2, <2>3, <2>4, VoteSteps
<1> QED
  BY <1>2, <1>3

\* No save in flight waits for what a request does before it saves.
LEMMA ReturnsLater ==
  ASSUME StoreInv, SaveReturns, NEW i, NEW places, places \cap {"sending", "finishing"} = {},
         places \cap Later = {}
  PROVE  Waits(i, places)' = Waits(i, places)
<1>1. PICK s \in saves : Committing(s) \/ Ending(s)
  BY Returns
<1>2. calls' = calls
  BY Returns
<1>3. CASE Committing(s)
  BY <1>2, <1>3 DEF Committing, Waits, Item
<1>4. CASE Ending(s)
  <2>1. pc[s.by] \notin places
    BY DEF StoreInv, SaveFits
  <2> QED
    BY <1>2, <1>4, <2>1 DEF Ending, Waits, Item
<1> QED
  BY <1>1, <1>3, <1>4

LEMMA VoteKept ==
  ASSUME StoreInv, ApprovalsInv, DOMAIN locks = LockKeys, [Next]_vars, NEW i \in Items, VoteOnce(i)
  PROVE  VoteOnce(i)'
<1> SUFFICES ASSUME Of({"vote"}, i)' PROVE VoteOnce(i)'
  BY DEF VoteOnce
<1>1. ASSUME calls' = calls PROVE Of({"vote"}, i) /\ i # WALLET
  <2>1. Of({"vote"}, i)
    BY <1>1 DEF Of, Item, Route
  <2> QED
    BY <2>1, CallFacts DEF Of, StoreInv
<1>2. ASSUME NEW r \in Requests, Arrive(r) \/ Proceed(r), Acts(r) PROVE VoteOnce(i)'
  BY <1>1, <1>2, VoteActs DEF Acts, Sides
<1>3. CASE SaveReturns
  <2>1. UNCHANGED <<store, calls, proposalVotes>> /\ Follow
    BY <1>3, Returns
  <2>2. Waits(i, {"recorded"})' = Waits(i, {"recorded"})
    BY <1>3, ReturnsLater DEF Later
  <2>3. PICK s \in saves : Committing(s) \/ Ending(s)
    BY <1>3, Returns
  <2>4. db'[WALLET] = db[WALLET] \/ db'[WALLET] = s.rows[WALLET]
    <3>1. CASE Committing(s)
      BY <3>1, CommitRow, WalletIsARow DEF Committing, Written, StoreInv, SaveFits
    <3>2. CASE Ending(s)
      BY <3>2 DEF Ending
    <3> QED
      BY <2>3, <3>1, <3>2
  <2> QED
    BY <1>1, <2>1, <2>2, <2>4, SameAside, VoteStands
<1>4. CASE Restart
  <2>1. /\ store' = db /\ db' = db /\ saves' = {} /\ UNCHANGED <<calls, proposalVotes>>
        /\ \A q \in Requests : pc'[q] \in {"idle", "done"}
    BY <1>4, Restarts
  <2>2. Waits(i, {"recorded"})' = {}
    BY <2>1 DEF Waits
  <2>3. Of({"vote"}, i) /\ Follow
    BY <1>1, <2>1 DEF Follow
  <2>4. Voted(i) => Voted(i)'
    BY <2>1, <2>2 DEF Voted
  <2>5. VoteBound(db[WALLET], i, Voted(i)')
    BY <2>3, <2>4 DEF VoteOnce, VoteBound
  <2> QED
    BY <2>1, <2>2, <2>3, <2>4, <2>5, BoundsFollow
<1>5. CASE Rests
  <2>1. UNCHANGED <<calls, pc, store, db, saves, proposalVotes>>
    BY <1>5 DEF Rests, persistVars
  <2>2. Follow /\ Waits(i, {"recorded"})' = Waits(i, {"recorded"})
    BY <2>1 DEF Follow, Waits, Item
  <2> QED
    BY <1>1, <2>1, <2>2, SameAside, VoteStands
<1> QED
  BY <1>2, <1>3, <1>4, <1>5, OnceStep
-----------------------------------------------------------------------------
\* The requests of an item with a lock of its own share the lock.
LEMMA SharedKey ==
  ASSUME CallsFit, NEW r \in Requests, NEW q \in Requests, Item(q) = Item(r),
         Route(r) \in {"trades", "credit"}
  PROVE  LockKey(calls[q]) = LockKey(calls[r])
<1>1. Route(q) = Route(r)
  BY KinRoutes DEF Of
<1> QED
  BY <1>1, LockKeyFacts

LEMMA LockItems ==
  ASSUME CallsFit, NEW i \in Items, Of({"trades", "credit"}, i), NEW r \in Requests, Item(r) = i
  PROVE  /\ i # WALLET
         /\ Route(r) \in {"trades", "credit"}
         /\ Of({"credit"}, i) <=> Route(r) = "credit"
         /\ Of({"trades"}, i) <=> Route(r) = "trades"
         /\ Of({"credit"}, i) => i \in Credits
<1>1. Of({"trades"}, i) \/ Of({"credit"}, i)
  BY DEF Of
<1>2. i # WALLET /\ (Route(r) = "credit" => i \in Credits)
  BY CallFacts
<1>3. /\ Of({"trades"}, i) => Route(r) = "trades"
      /\ Of({"credit"}, i) => Route(r) = "credit"
  BY KinRoutes
<1>4. /\ Route(r) = "trades" => Of({"trades"}, i)
      /\ Route(r) = "credit" => Of({"credit"}, i)
  BY DEF Of
<1> QED
  BY <1>1, <1>2, <1>3, <1>4

\* As long as the item has had no effect, one request at most has its lock.
LEMMA OneHolder ==
  ASSUME StoreInv, NEW i \in Items, Of({"trades", "credit"}, i), Serial(i),
         Untouched(store[WALLET], i), NEW r \in Waits(i, Holding)
  PROVE  Waits(i, Holding) = {r} /\ Waits(i, Locked) \subseteq {r}
<1>1. ASSUME NEW q \in Waits(i, Holding) PROVE q = r
  <2>1. r \in Requests /\ q \in Requests /\ Item(r) = i /\ Item(q) = i
    BY DEF Waits
  <2>2. LockKey(calls[q]) = LockKey(calls[r])
    BY <2>1, LockItems, SharedKey DEF StoreInv
  <2>3. locks[LockKey(calls[q])] = q /\ locks[LockKey(calls[r])] = r
    BY DEF Serial
  <2> QED
    BY <2>2, <2>3
<1>2. Waits(i, Locked) \subseteq Waits(i, Holding)
  BY DEF Waits, Holding
<1> QED
  BY <1>1, <1>2

LEMMA LockStands ==
  ASSUME NEW i, Serial(i), Aside(i), calls' = calls,
         Waits(i, Holding)' \subseteq Waits(i, Holding),
         Waits(i, Locked)' \subseteq Waits(i, Locked),
         \A q \in Waits(i, Holding)' : locks'[LockKey(calls[q])] = locks[LockKey(calls[q])],
         Silent(i) => Silent(i)',
         NoMore(i) /\ (Of({"credit"}, i) => agreed[i] # {}) => NoMore(i)',
         Of({"credit"}, i) /\ agreed[i] # {} => agreed'[i] # {}
  PROVE  Serial(i)'
<1>1. Of({"credit"}, i)' = Of({"credit"}, i)
  BY DEF Of, Item, Route
<1>2. /\ Single(store[WALLET], i) = Single(store[WALLET], i)'
      /\ Untouched(store[WALLET], i) = Untouched(store[WALLET], i)'
  BY DEF Aside, Single, Untouched
<1>3. CASE Untouched(store[WALLET], i)
  <2>1. \A q \in Waits(i, Holding)' : locks'[LockKey(calls'[q])] = q
    BY <1>3 DEF Serial
  <2>2. Waits(i, Locked)' # {} => Waits(i, Locked) # {}
    OBVIOUS
  <2> QED
    BY <1>1, <1>2, <1>3, <2>1, <2>2 DEF Serial
<1>4. CASE ~Untouched(store[WALLET], i)
  <2>1. Waits(i, Locked)' = {} /\ NoMore(i) /\ (Of({"credit"}, i) => agreed[i] # {})
    BY <1>4 DEF Serial
  <2> QED
    BY <1>1, <1>2, <1>4, <2>1 DEF Serial
<1> QED
  BY <1>3, <1>4

\* Who saves, and who waits to: the caller, or who waited.
LEMMA ActsSilent ==
  ASSUME NEW r \in Requests, Acts(r), StoreInv, NEW i, Item(r) # i, Silent(i)
  PROVE  Silent(i)'
<1>1. calls' = calls /\ persistMutexQueue \in Seq(Requests)
  BY DEF Acts, Sides, StoreInv
<1>2. CASE UNCHANGED persistVars
  BY <1>1, <1>2 DEF persistVars, Silent, Item
<1>3. CASE persistAfterMutation(r, store')
  <2>1. CASE persistMutexBusy
    <3>1. saves' = saves /\ persistMutexQueue' = Append(persistMutexQueue, r)
      BY <1>3, <2>1 DEF persistAfterMutation
    <3>2. \A n \in DOMAIN persistMutexQueue' :
            \/ persistMutexQueue'[n] = r
            \/ (n \in DOMAIN persistMutexQueue) /\ (persistMutexQueue'[n] = persistMutexQueue[n])
      BY <1>1, <3>1
    <3> QED
      BY <1>1, <3>1, <3>2 DEF Silent, Item
  <2>2. CASE ~persistMutexBusy
    <3> PICK t : t = Save(r, FALSE, store', lastWritten)
      OBVIOUS
    <3>1. saves' = saves \cup {t} /\ persistMutexQueue' = persistMutexQueue
      BY <1>3, <2>2 DEF persistAfterMutation, Start
    <3>2. t.by = r
      BY DEF Save
    <3> QED
      BY <1>1, <3>1, <3>2 DEF Silent, Item
  <2> QED
    BY <2>1, <2>2
<1> QED
  BY <1>2, <1>3 DEF Acts, Moves

LEMMA ReturnsSilent ==
  ASSUME StoreInv, SaveReturns, NEW i, Silent(i)
  PROVE  Silent(i)'
<1>1. calls' = calls /\ persistMutexQueue \in Seq(Requests)
  BY Returns DEF StoreInv
<1>2. PICK s \in saves : Committing(s) \/ Ending(s)
  BY Returns
<1>3. CASE Committing(s)
  <2> PICK t : t = [s EXCEPT !.committed = TRUE]
    OBVIOUS
  <2>1. saves' = (saves \ {s}) \cup {t} /\ persistMutexQueue' = persistMutexQueue
    BY <1>3 DEF Committing, CommitSave
  <2>2. t.by = s.by
    BY CommittedSave DEF StoreInv, SaveFits
  <2> QED
    BY <1>1, <2>1, <2>2 DEF Silent, Item
<1>4. CASE Ending(s)
  <2>1. CASE s.queued \/ persistMutexQueue = << >>
    BY <1>1, <1>4, <2>1 DEF Ending, Drain, Silent, Item
  <2>2. CASE ~(s.queued \/ persistMutexQueue = << >>)
    <3> PICK t : t = Save(Last(persistMutexQueue), TRUE, store, lastWritten')
      OBVIOUS
    <3>1. saves' = (saves \ {s}) \cup {t} /\ persistMutexQueue' = << >>
      BY <1>4, <2>2 DEF Ending, Drain, Start
    <3>2. t.by = Last(persistMutexQueue)
      BY DEF Save
    <3>3. Item(t.by) # i
      <4>1. Len(persistMutexQueue) \in DOMAIN persistMutexQueue
        BY <1>1, <2>2
      <4> QED
        BY <3>2, <4>1 DEF Last, Silent
    <3>4. DOMAIN persistMutexQueue' = {}
      BY <3>1
    <3> QED
      BY <1>1, <3>1, <3>3, <3>4 DEF Silent, Item
  <2> QED
    BY <2>1, <2>2
<1> QED
  BY <1>2, <1>3, <1>4
-----------------------------------------------------------------------------
\* A request under its lock that only goes on.
LEMMA LockQuiet ==
  ASSUME StoreInv, NEW r \in Requests, NEW i, Item(r) = i, Serial(i), NEW to, Move(r, to),
         UNCHANGED <<calls, store, persistVars, locks, tradeIdempotencyCache, requests, agreed>>,
         to \in Holding => pc[r] \in Holding, to \in Locked => pc[r] \in Locked
  PROVE  Serial(i)'
<1>1. DOMAIN pc = Requests /\ calls' = calls /\ saves' = saves
      /\ persistMutexQueue' = persistMutexQueue
  BY DEF StoreInv, persistVars
<1>2. \A q \in Requests : pc'[q] = IF q = r THEN to ELSE pc[q]
  BY <1>1 DEF Move
<1>3. Waits(i, Holding)' \subseteq Waits(i, Holding) /\ Waits(i, Locked)' \subseteq Waits(i, Locked)
  BY <1>1, <1>2 DEF Waits, Item
<1>4. Silent(i) => Silent(i)'
  BY <1>1 DEF Silent, Item
<1>5. NoMore(i) => NoMore(i)'
  BY DEF NoMore, Of, Item, Route
<1> QED
  BY <1>1, <1>3, <1>4, <1>5, SameAside, LockStands

LEMMA LockAsked ==
  ASSUME StoreInv, ApprovalsInv, DOMAIN locks = LockKeys, NEW r \in Requests, AskForLock(r),
         NEW i \in Items, Item(r) = i, Of({"trades", "credit"}, i), Serial(i), ~Lapsed(i)'
  PROVE  Serial(i)'
<1> DEFINE k == LockKey(calls[r])
<1>1. /\ UNCHANGED <<calls, store, persistVars, tradeIdempotencyCache, requests, agreed>>
      /\ pc[r] = "idle" /\ DOMAIN pc = Requests /\ k \in LockKeys /\ "idle" \notin Locked \cup Holding
  BY LockKeyFacts DEF AskForLock, approvalVars, StoreInv, Locked, Holding
<1>2. "done" \notin Locked \cup Holding
  BY DEF Locked, Holding
<1>3. CASE ~PassesChecks(r)
  <2>1. Move(r, "done") /\ locks' = locks
    BY <1>3 DEF AskForLock, lockVars
  <2> QED
    BY <1>1, <1>2, <2>1, LockQuiet
<1>4. CASE PassesChecks(r)
  <2>1. k \notin lapsed'
    BY <1>1 DEF Lapsed, Item
  <2>2. PICK won \in BOOLEAN : acquireLock(r, k, won) /\ Move(r, IF won THEN "asked" ELSE "done")
    BY <1>4, <2>1 DEF AskForLock, acquireInMemory
  <2>3. CASE won = FALSE
    <3>1. Move(r, "done") /\ locks' = locks
      BY <2>2, <2>3 DEF acquireLock
    <3> QED
      BY <1>1, <1>2, <3>1, LockQuiet
  <2>4. CASE won = TRUE
    <3>1. locks[k] = Free /\ locks' = [locks EXCEPT ![k] = r] /\ Move(r, "asked")
      BY <2>2, <2>4 DEF acquireLock
    <3>2. ~NoMore(i) /\ (Of({"credit"}, i) => i \in DOMAIN requests)
      BY <1>4, LockItems DEF PassesChecks, NoMore, StoreInv
    <3>3. Untouched(store[WALLET], i) /\ Single(store[WALLET], i) /\ Silent(i)
      BY <3>2 DEF Serial
    <3>4. Waits(i, Holding) = {}
      <4> SUFFICES ASSUME NEW q \in Waits(i, Holding) PROVE FALSE
        OBVIOUS
      <4>1. q \in Requests /\ Item(q) = i
        BY DEF Waits
      <4>2. LockKey(calls[q]) = k
        BY <4>1, LockItems, SharedKey DEF StoreInv
      <4>3. locks[k] = q
        BY <3>3, <4>2 DEF Serial
      <4> QED
        BY <3>1, <4>1, <4>3, ItemsAssumption
    <3>5. Waits(i, Holding)' \subseteq {r}
      BY <1>1, <3>1, <3>4 DEF Waits, Item, Move
    <3>6. \A q \in Waits(i, Holding)' : locks'[LockKey(calls'[q])] = q
      BY <1>1, <3>1, <3>5
    <3>7. Of({"credit"}, i)' => agreed'[i] # {}
      <4> SUFFICES ASSUME Of({"credit"}, i) PROVE agreed[i] # {}
        BY <1>1 DEF Of, Item, Route
      <4>1. Honest(i, requests[i], agreed)
        BY <3>2 DEF ApprovalsInv, AllHonest
      <4> QED
        BY <4>1 DEF Honest
    <3>8. Silent(i)'
      BY <1>1, <3>3 DEF Silent, Item, persistVars
    <3> QED
      BY <1>1, <3>3, <3>6, <3>7, <3>8 DEF Serial
  <2> QED
    BY <2>3, <2>4
<1> QED
  BY <1>3, <1>4

LEMMA LockFreed ==
  ASSUME StoreInv, DOMAIN locks = LockKeys, NEW r \in Requests, Finish(r),
         NEW i \in Items, Item(r) = i, Of({"trades", "credit"}, i), Serial(i)
  PROVE  Serial(i)'
<1>1. Route(r) \in {"trades", "credit"} /\ Route(r) \notin Unlocked /\ Route(r) # "shutdown"
  BY LockItems, LockKeyFacts DEF StoreInv
<1>2. /\ UNCHANGED <<calls, store, persistVars, tradeIdempotencyCache, requests, agreed>>
      /\ Move(r, "done") /\ pc[r] = "finishing" /\ DOMAIN pc = Requests
      /\ releaseLock(LockKey(calls[r]))
  BY <1>1 DEF Finish, approvalVars, StoreInv
<1>3. \A q \in Requests : pc'[q] = IF q = r THEN "done" ELSE pc[q]
  BY <1>2 DEF Move
<1>4. /\ Waits(i, Holding)' = Waits(i, Holding) \ {r} /\ r \in Waits(i, Holding)
      /\ Waits(i, Locked)' = Waits(i, Locked)
  BY <1>2, <1>3 DEF Waits, Item, Holding, Locked
<1>5. (Silent(i) => Silent(i)') /\ (NoMore(i) => NoMore(i)')
  BY <1>2 DEF Silent, NoMore, Of, Route, Item, persistVars
<1>6. CASE Untouched(store[WALLET], i)
  <2>1. Waits(i, Holding) = {r}
    BY <1>4, <1>6, OneHolder
  <2>2. Waits(i, Holding)' = {}
    BY <1>4, <2>1
  <2> QED
    BY <1>2, <1>4, <1>5, <1>6, <2>2 DEF Serial, Of, Route, Item
<1>7. CASE ~Untouched(store[WALLET], i)
  BY <1>2, <1>4, <1>5, <1>7 DEF Serial, Of, Route, Item
<1> QED
  BY <1>6, <1>7

\* The effect of a request, which was the only one to hold the lock.
LEMMA LockSpent ==
  ASSUME StoreInv, NEW r \in Requests, Acts(r), NEW i \in Items, Item(r) = i,
         Of({"trades", "credit"}, i), Serial(i), pc[r] \in Locked, pc'[r] = "saving", NoMore(i)',
         \/ store' = Gets(store, i)
         \/ store' = Gives(store, i)
  PROVE  Serial(i)'
<1>1. calls' = calls /\ agreed' = agreed /\ DOMAIN pc = Requests
      /\ \A q \in Requests \ {r} : pc'[q] = pc[q]
  BY DEF Acts, Sides, Moves, StoreInv
<1>2. r \in Waits(i, Locked) /\ r \in Waits(i, Holding)
  BY DEF Waits, Holding
<1>3. Untouched(store[WALLET], i) /\ (Of({"credit"}, i) => agreed[i] # {})
  BY <1>2 DEF Serial
<1>4. Waits(i, Locked) \subseteq {r}
  BY <1>2, <1>3, OneHolder
<1>5. "saving" \notin Locked
  BY DEF Locked
<1>6. Waits(i, Locked)' = {}
  BY <1>1, <1>4, <1>5 DEF Waits, Item
<1>7. /\ store[WALLET].gets[i] = 0 /\ store[WALLET].gives[i] = 0
  BY <1>3 DEF Untouched
<1>8. \/ store'[WALLET].gets[i] = 1 /\ store'[WALLET].gives[i] = 0
      \/ store'[WALLET].gets[i] = 0 /\ store'[WALLET].gives[i] = 1
  BY <1>7, GetsChange, GivesChange
<1>9. Single(store'[WALLET], i) /\ ~Untouched(store'[WALLET], i)
  BY <1>8 DEF Single, Untouched
<1> QED
  BY <1>1, <1>3, <1>6, <1>9 DEF Serial, Single, Untouched, Of, Route, Item

LEMMA LockActs ==
  ASSUME StoreInv, ApprovalsInv, DOMAIN locks = LockKeys, NEW r \in Requests,
         Arrive(r) \/ Proceed(r), Acts(r), NEW i \in Items, Item(r) = i,
         Of({"trades", "credit"}, i), Serial(i), ~Lapsed(i)'
  PROVE  Serial(i)'
<1>1. /\ Route(r) \in {"trades", "credit"} /\ DOMAIN pc = Requests
      /\ Of({"credit"}, i) <=> Route(r) = "credit"
      /\ Of({"trades"}, i) <=> Route(r) = "trades"
  BY LockItems DEF StoreInv
<1>2. \/ AskForLock(r) \/ GetLock(r) \/ Finish(r) \/ PostTrades(r)
      \/ CountCredit(r) \/ RefuseCredit(r) \/ ExecuteCredit(r)
  BY <1>1 DEF Arrive, Proceed, At, MarkDeposit, PostTransactions, PostMarkets, PeriodicPersist,
     GracefulShutdown, PostDuels, PostOrders, BoostPosition, Stake, AcceptDuel, DeleteDuel,
     DeleteOrder, ClaimPosition, ClaimRewards, ExecuteResolution, Unstake, RecordVote, CountVote,
     CreditDeposit, RejectDeposit, DebitWithdrawal, SendWithdrawal, RecordWithdrawal,
     ReverseWithdrawal
<1>3. CASE GetLock(r)
  <2>1. Move(r, "locked") /\ pc[r] = "asked"
        /\ UNCHANGED <<calls, store, persistVars, locks, tradeIdempotencyCache, requests, agreed>>
    BY <1>3 DEF GetLock, LockAnswered, approvalVars
  <2> QED
    BY <2>1, LockQuiet DEF Locked, Holding
<1>4. CASE CountCredit(r)
  <2>1. PICK to \in {"over", "counted"} : Move(r, to)
    BY <1>4 DEF CountCredit
  <2>2. pc[r] = "locked"
        /\ UNCHANGED <<calls, store, persistVars, locks, tradeIdempotencyCache, requests, agreed>>
    BY <1>4 DEF CountCredit, At, ServerKeeps, lockVars
  <2> QED
    BY <2>1, <2>2, LockQuiet DEF Locked, Holding
<1>5. CASE RefuseCredit(r)
  <2>1. Move(r, "finishing") /\ pc[r] = "over"
        /\ UNCHANGED <<calls, store, persistVars, locks, tradeIdempotencyCache, requests, agreed>>
    BY <1>5 DEF RefuseCredit, At, ServerKeeps, lockVars
  <2> QED
    BY <2>1, LockQuiet DEF Locked, Holding
<1>6. CASE ExecuteCredit(r)
  <2>1. /\ pc[r] \in Locked /\ Route(r) = "credit" /\ calls' = calls
        /\ store' = Gets(store, i) /\ pc'[r] = "saving"
    BY <1>1, <1>6 DEF ExecuteCredit, At, SaveAs, Move, Locked
  <2>2. i \notin DOMAIN requests'
    BY <1>6 DEF ExecuteCredit, MarkExecuted, Without
  <2>3. NoMore(i)'
    BY <1>1, <2>1, <2>2 DEF NoMore, Of, Route, Item
  <2> QED
    BY <2>1, <2>3, LockSpent
<1>7. CASE PostTrades(r)
  <2>1. pc[r] = "locked" /\ Route(r) = "trades"
        /\ UNCHANGED <<calls, locks, requests, agreed>>
    BY <1>7 DEF PostTrades, At, lockVars, approvalVars
  <2>2. CASE Balance > 0
    <3>1. store' = Gives(store, i) /\ pc'[r] = "saving" /\ i \in tradeIdempotencyCache'
      BY <1>1, <1>7, <2>2 DEF PostTrades, Spend, SaveAs, Move
    <3>2. NoMore(i)'
      BY <1>1, <2>1, <3>1 DEF NoMore, Of, Route, Item
    <3> QED
      BY <2>1, <3>1, <3>2, LockSpent DEF Locked
  <2>3. CASE ~(Balance > 0)
    <3>1. Move(r, "finishing")
          /\ UNCHANGED <<calls, store, persistVars, locks, tradeIdempotencyCache, requests, agreed>>
      BY <1>7, <2>1, <2>3 DEF PostTrades, Spend, Throw
    <3> QED
      BY <2>1, <3>1, LockQuiet DEF Locked, Holding
  <2> QED
    BY <2>2, <2>3
<1> QED
  BY <1>2, <1>3, <1>4, <1>5, <1>6, <1>7, LockAsked, LockFreed

LEMMA LockKept ==
  ASSUME StoreInv, ApprovalsInv, DOMAIN locks = LockKeys, [Next]_vars, NEW i \in Items, LockOnce(i)
  PROVE  LockOnce(i)'
<1> SUFFICES ASSUME Of({"trades", "credit"}, i)', ~Lapsed(i)', ~Restarted',
                    Of({"trades"}, i)' => i \notin reused'
             PROVE  Serial(i)'
  BY DEF LockOnce
<1>1. ASSUME UNCHANGED <<calls, loaded>>, lapsed \subseteq lapsed', reused \subseteq reused'
      PROVE  Of({"trades", "credit"}, i) /\ Serial(i)
  BY <1>1 DEF LockOnce, Of, Item, Route, Lapsed, Restarted
<1>2. ASSUME NEW r \in Requests, Arrive(r) \/ Proceed(r), Acts(r) PROVE Serial(i)'
  <2>1. UNCHANGED <<calls, loaded, agreed>> /\ lapsed \subseteq lapsed' /\ reused \subseteq reused'
    BY <1>2 DEF Acts, Sides, Moves
  <2>2. Of({"trades", "credit"}, i) /\ Serial(i)
    BY <1>1, <2>1
  <2>3. CASE Item(r) = i
    BY <1>2, <2>2, <2>3, LockActs
  <2>4. CASE Item(r) # i
    <3>1. \A q \in Requests : Item(q) = i => pc'[q] = pc[q]
      BY <1>2, <2>4 DEF Acts, Moves
    <3>2. \A places : Waits(i, places)' = Waits(i, places)
      BY <2>1, <3>1 DEF Waits, Item
    <3>3. \A q \in Waits(i, Holding)' : locks'[LockKey(calls[q])] = locks[LockKey(calls[q])]
      <4> SUFFICES ASSUME NEW q \in Requests, Item(q) = i
                   PROVE  locks'[LockKey(calls[q])] = locks[LockKey(calls[q])]
        BY <3>2 DEF Waits
      <4>1. /\ LockKey(calls[q]) \in LockKeys
            /\ LockKey(calls[q]) # LockKey(calls[r])
        BY <2>2, <2>4, LockItems, LockKeyFacts DEF StoreInv
      <4> QED
        BY <1>2, <4>1 DEF Acts, Sides
    <3>4. NoMore(i) => NoMore(i)'
      BY <1>2, <2>1, <2>4 DEF NoMore, Of, Item, Route, Acts, Sides, SameBut
    <3>5. Aside(i)
      <4>1. i # WALLET
        BY <2>2, LockItems DEF Of, StoreInv
      <4> QED
        BY <1>2, <2>4, <4>1, ElsewhereAside
    <3>6. Silent(i) => Silent(i)'
      BY <1>2, <2>4, ActsSilent
    <3> QED
      BY <2>1, <2>2, <3>2, <3>3, <3>4, <3>5, <3>6, LockStands
  <2> QED
    BY <2>3, <2>4
<1>3. CASE SaveReturns
  <2>1. /\ UNCHANGED <<store, calls, loaded, lapsed, locks, requests, agreed, reused>>
        /\ UNCHANGED tradeIdempotencyCache
    BY <1>3, Returns
  <2>2. Serial(i)
    BY <1>1, <2>1
  <2>3. Waits(i, Locked)' = Waits(i, Locked)
    BY <1>3, ReturnsLater DEF Locked, Later
  <2>4. Silent(i) => Waits(i, Holding)' = Waits(i, Holding)
    <3> SUFFICES ASSUME Silent(i) PROVE Waits(i, Holding)' = Waits(i, Holding)
      OBVIOUS
    <3>1. PICK s \in saves : Committing(s) \/ Ending(s)
      BY <1>3, Returns
    <3>2. CASE Committing(s)
      BY <2>1, <3>2 DEF Committing, Waits, Item
    <3>3. CASE Ending(s)
      BY <2>1, <3>3 DEF Ending, Waits, Item, Silent
    <3> QED
      BY <3>1, <3>2, <3>3
  <2>5. Silent(i) => Silent(i)'
    BY <1>3, ReturnsSilent
  <2>6. NoMore(i) => NoMore(i)'
    BY <2>1 DEF NoMore, Of, Item, Route
  <2>7. CASE Untouched(store[WALLET], i)
    <3>1. Silent(i)
      BY <2>2, <2>7 DEF Serial
    <3> QED
      BY <2>1, <2>2, <2>3, <2>4, <2>5, <2>6, <3>1, SameAside, LockStands
  <2>8. CASE ~Untouched(store[WALLET], i)
    BY <2>1, <2>2, <2>3, <2>6, <2>8 DEF Serial, Of, Item, Route
  <2> QED
    BY <2>7, <2>8
<1>4. CASE Restart
  BY <1>4, Restarts DEF Restarted
<1>5. CASE Rests
  <2>1. /\ UNCHANGED <<calls, pc, store, loaded, saves, persistMutexQueue>>
        /\ lapsed \subseteq lapsed' /\ reused \subseteq reused'
        /\ tradeIdempotencyCache \subseteq tradeIdempotencyCache' \cup reused'
    BY <1>5 DEF Rests, persistVars
  <2>2. Of({"trades", "credit"}, i) /\ Serial(i)
    BY <1>1, <2>1
  <2>3. \A places : Waits(i, places)' = Waits(i, places)
    BY <2>1 DEF Waits, Item
  <2>4. \A q \in Waits(i, Holding)' : locks'[LockKey(calls[q])] = locks[LockKey(calls[q])]
    <3> SUFFICES ASSUME NEW q \in Requests, Item(q) = i
                 PROVE  locks'[LockKey(calls[q])] = locks[LockKey(calls[q])]
      BY <2>3 DEF Waits
    <3>1. LockKey(calls[q]) \in LockKeys /\ LockKey(calls[q]) \notin lapsed'
      BY <2>1, LockKeyFacts DEF StoreInv, Lapsed, Item
    <3> QED
      BY <1>5, <3>1 DEF Rests
  <2>5. Of({"credit"}, i) /\ agreed[i] # {} =>
          agreed'[i] # {} /\ (i \in DOMAIN requests' => i \in DOMAIN requests)
    <3>1. Of({"credit"}, i) => i \in Credits
      BY <2>2, LockItems DEF Of, StoreInv
    <3> QED
      BY <1>5, <3>1 DEF Rests
  <2>6. NoMore(i) /\ (Of({"credit"}, i) => agreed[i] # {}) => NoMore(i)'
    <3>1. Of({"trades"}, i) = Of({"trades"}, i)' /\ Of({"credit"}, i) = Of({"credit"}, i)'
      BY <2>1 DEF Of, Item, Route
    <3>2. Of({"trades"}, i) /\ i \in tradeIdempotencyCache => i \in tradeIdempotencyCache'
      BY <2>1, <3>1
    <3> QED
      BY <2>5, <3>1, <3>2 DEF NoMore
  <2>7. Silent(i) => Silent(i)'
    BY <2>1 DEF Silent, Item
  <2> QED
    BY <2>1, <2>2, <2>3, <2>4, <2>5, <2>6, <2>7, SameAside, LockStands
<1> QED
  BY <1>2, <1>3, <1>4, <1>5, OnceStep
-----------------------------------------------------------------------------
LEMMA OnceStarts == BackendInit => OnceInv /\ DOMAIN locks = LockKeys
<1> SUFFICES ASSUME BackendInit PROVE OnceInv /\ DOMAIN locks = LockKeys
  OBVIOUS
<1>1. StoreInv
  BY StoreStarts
<1>2. /\ db = store /\ saves = {} /\ persistMutexQueue = << >> /\ loaded = {} /\ overlapped = FALSE
      /\ \A r \in Requests : pc[r] = "idle"
      /\ proposalVotes = {} /\ DOMAIN locks = LockKeys
  BY DEF BackendInit, PersistInit, LocksInit
<1>3. store[WALLET] = EmptyWallet
      /\ \A x \in Rows \ {WALLET} : store[x] = IF x \in BatchedRows THEN Absent ELSE OpenStatus
  BY WalletIsARow DEF BackendInit
<1>4. PresentInv
  <2>1. EmptyWallet # Absent
    BY <1>1, <1>3, WalletIsARow DEF StoreInv
  <2> QED
    BY <1>2, <1>3, <2>1, WalletIsARow DEF PresentInv, Present
<1> SUFFICES ASSUME NEW i \in Items PROVE RowOnce(i) /\ DepositOnce(i) /\ VoteOnce(i) /\ LockOnce(i)
  BY <1>2, <1>4 DEF OnceInv
<1>5. store[WALLET].gets[i] = 0 /\ store[WALLET].gives[i] = 0
  BY <1>3 DEF EmptyWallet
<1>6. Untouched(store[WALLET], i) /\ Single(store[WALLET], i)
  BY <1>5 DEF Untouched, Single
<1>7. \A places : places \subseteq Holding \cup {"verifying", "recorded"} => Waits(i, places) = {}
  BY <1>2 DEF Waits, Holding, Locked
<1>8. i \in Rows /\ i # WALLET => Fresh(store, i) /\ Saved(i)
  BY <1>2, <1>3, <1>6 DEF Fresh, Saved, Marks, Initial
<1>9. RowOnce(i)
  BY <1>1, <1>8, ItemFacts DEF RowOnce, StoreInv
<1>10. DepositOnce(i)
  <2> SUFFICES ASSUME Of({"deposit"}, i) PROVE Marked(i) /\ Kept(i)
    BY DEF DepositOnce
  <2>1. i \in Rows /\ i # WALLET /\ i \in BatchedRows
    BY <1>1, ItemFacts DEF StoreInv
  <2>2. store[i] = Absent
    BY <1>3, <2>1
  <2> QED
    BY <1>2, <1>7, <1>8, <2>1, <2>2 DEF Marked, Kept
<1>11. VoteOnce(i)
  BY <1>2, <1>5, <1>7 DEF VoteOnce, VoteBound, Voted
<1>12. LockOnce(i)
  <2>1. Silent(i)
    BY <1>2 DEF Silent
  <2>2. Waits(i, Holding) = {} /\ Waits(i, Locked) = {}
    BY <1>7 DEF Holding
  <2> QED
    BY <1>6, <2>1, <2>2 DEF LockOnce, Serial
<1> QED
  BY <1>9, <1>10, <1>11, <1>12

LEMMA OnceKept ==
  StoreInv /\ WrittenInv /\ ApprovalsInv /\ DOMAIN locks = LockKeys /\ OnceInv /\ [Next]_vars
  => OnceInv' /\ DOMAIN locks' = LockKeys
<1> SUFFICES ASSUME StoreInv, WrittenInv, ApprovalsInv, DOMAIN locks = LockKeys, OnceInv,
                    [Next]_vars
             PROVE  OnceInv' /\ DOMAIN locks' = LockKeys
  OBVIOUS
<1>1. PresentInv /\ \A i \in Items : RowOnce(i) /\ DepositOnce(i) /\ VoteOnce(i) /\ LockOnce(i)
  BY DEF OnceInv
<1>2. PresentInv' /\ DOMAIN locks' = LockKeys
  BY <1>1, PresentKept, LockKeysStay
<1>3. ASSUME NEW i \in Items PROVE RowOnce(i)' /\ DepositOnce(i)' /\ VoteOnce(i)' /\ LockOnce(i)'
  BY <1>1, RowKept, DepositKept, VoteKept, LockKept
<1> QED
  BY <1>2, <1>3 DEF OnceInv

LEMMA OnceFollows == StoreInv /\ OnceInv => AppliedOnce
<1> SUFFICES ASSUME StoreInv, OnceInv, NEW r \in Requests, NEW i, i = Item(r),
                    Route(r) \in OnceRoutes, ~Excused(i)
             PROVE  Single(store[WALLET], i)
  BY DEF AppliedOnce, Single
<1> DEFINE routes == {Route(q) : q \in {p \in Requests : Item(p) = i}}
<1>1. /\ "deposit" \in routes => i \notin reused
      /\ "resolve" \in routes => i \notin reused
      /\ "credit" \in routes => ~Lapsed(i) /\ ~Restarted
      /\ "trades" \in routes => ~Lapsed(i) /\ ~Restarted /\ i \notin reused
      /\ routes \cap {"accept", "cancelDuel"} # {} => i \notin DuelRows \cap loaded
      /\ "vote" \notin routes => ~(overlapped /\ Restarted)
  BY DEF Excused, Lapsed, Restarted
<1>2. \A route : route \in routes <=> Of({route}, i)
  BY DEF Of
<1> HIDE DEF routes
<1>3. i \in Items /\ Of({Route(r)}, i)
  BY CallFacts DEF StoreInv, Of
<1>4. RowOnce(i) /\ DepositOnce(i) /\ VoteOnce(i) /\ LockOnce(i)
  BY <1>3 DEF OnceInv
<1>5. CASE Route(r) = "vote"
  <2>1. VoteBound(store[WALLET], i, Voted(i))
    BY <1>3, <1>4, <1>5 DEF VoteOnce
  <2> QED
    BY <2>1 DEF VoteBound, Single
<1>6. CASE Route(r) \in {"trades", "credit"}
  <2>1. /\ Of({"trades", "credit"}, i) /\ ~Lapsed(i) /\ ~Restarted
        /\ Of({"trades"}, i) => i \notin reused
    BY <1>1, <1>2, <1>3, <1>6 DEF Of
  <2> QED
    BY <1>4, <2>1 DEF LockOnce, Serial
<1>7. ASSUME Route(r) \in RowRoutes \cup {"deposit"}
      PROVE  ~(overlapped /\ Restarted)
  <2>1. ~Of({"vote"}, i)
    BY <1>7, KinRoutes DEF StoreInv, RowRoutes
  <2> QED
    BY <1>1, <1>2, <2>1
<1>8. CASE Route(r) = "deposit"
  BY <1>1, <1>2, <1>3, <1>4, <1>7, <1>8 DEF DepositOnce, Marked, Fresh
<1>9. CASE Route(r) \in RowRoutes
  <2>1. Of(RowRoutes, i)
    BY <1>9 DEF Of
  <2>2. Of({"resolve"}, i) => i \notin reused
    BY <1>1, <1>2
  <2>3. i \notin DuelRows \cap loaded
    <3>1. CASE Route(r) \in {"accept", "cancelDuel"}
      BY <1>1, <1>2, <1>3, <3>1
    <3>2. CASE Route(r) \notin {"accept", "cancelDuel"}
      <4>1. Of(RowRoutes \ {"accept", "cancelDuel"}, i)
        BY <1>9, <3>2 DEF Of
      <4> QED
        BY <1>3, <4>1, ItemFacts DEF StoreInv
    <3> QED
      BY <3>1, <3>2
  <2> QED
    BY <1>4, <1>7, <1>9, <2>1, <2>2, <2>3 DEF RowOnce, Fresh
<1>10. Route(r) \in RowRoutes \cup {"deposit", "vote", "trades", "credit"}
  BY DEF OnceRoutes, RowRoutes
<1> QED
  BY <1>5, <1>6, <1>8, <1>9, <1>10

\* For any calls, rows and locks, whatever fails, expires or restarts, what may
\* happen once happens once: a deposit, a manual credit, a trade with a client's
\* id, a refund, a claim, a resolution or a vote, but for the causes the property
\* names (server.ts, the routes that change the store; state.ts, moneySignatures,
\* tradeIdempotencyCache and the statuses of what is closed; persistence.ts, what
\* a boot loads of them).
THEOREM HappensOnce == Spec => []AppliedOnce
<1> DEFINE Inv == /\ StoreInv /\ WrittenInv /\ ApprovalsInv /\ DOMAIN locks = LockKeys
                  /\ OnceInv
<1>1. BackendInit => Inv
  BY StoreStarts, WrittenStarts, ApprovalsStart, OnceStarts DEF BackendInit
<1>2. Inv /\ [Next]_vars => Inv'
  BY StoreKept, WrittenKept, BackendKeeps, OnceKept
<1>3. Inv => AppliedOnce
  BY OnceFollows
<1> QED
  BY <1>1, <1>2, <1>3, PTL DEF Spec
=============================================================================
