------------------------------ MODULE Backend ------------------------------
(* The HTTP routes of server.ts that change the store, between their awaits: *)
(* what each checks and assigns before and after a lock, an RPC call, a vote *)
(* row or a save.  A request is one call of a route on one item; the store's *)
(* operations are OffchainMarket's, and come down to what they take from and *)
(* give to the wallet and to the row that remembers they were done.          *)
EXTENDS Locks, Approvals, Persistence

CONSTANTS
  Scenarios,         \* bound: the calls of a behaviour and the faults it may see
  Opening            \* the units of money the wallet starts with

VARIABLES
  calls,             \* the [route, item, admin] of each request
  pc,                \* where each request is
  moneySignatures,   \* the replay guard of deposits
  tradeIdempotencyCache,
  proposalVotes,     \* the rows of ProposalVote: the proposals voted on
  paid,              \* the withdrawals that landed on chain
  reused,            \* signatures a client registered, markets created again,
                     \* ids of trades that expired
  faults             \* the faults of each kind that may still happen

serverVars == <<calls, pc, moneySignatures, tradeIdempotencyCache, proposalVotes,
                paid, reused, faults>>
vars == <<serverVars, lockVars, approvalVars, store, persistVars>>

WALLET == "wallet"
Items == {s.calls[r].item : s \in Scenarios, r \in Requests}
Wallets == [gets : [Items -> Nat], gives : [Items -> Nat]]
EmptyWallet == [gets |-> [i \in Items |-> 0], gives |-> [i \in Items |-> 0]]
Balance == Opening + SumFunction(store[WALLET].gets) - SumFunction(store[WALLET].gives)

\* An id names one thing: a request for a credit is no row, a signature is that
\* of a transaction, and none of them is the wallet.
ASSUME BackendAssumption ==
  /\ IsFiniteSet(Requests) /\ IsFiniteSet(Items)
  /\ \A s \in Scenarios, r \in Requests :
       /\ s.calls[r].route = "credit" <=> s.calls[r].item \in Credits
       /\ s.calls[r].route = "deposit" => s.calls[r].item \in BatchedRows
       /\ s.calls[r].item # WALLET
  /\ WALLET \in Rows \ (BatchedRows \cup DuelRows)
  /\ Absent \notin Wallets \cup {OpenStatus, "DONE", "DEPOSIT_PENDING", "DEPOSIT",
                               "WITHDRAWAL", "CLIENT"}
  /\ MAX_DAILY_CREDIT \in Nat

\* What may happen once, and what is remembered by the status of a row.
OnceRoutes == {"trades", "deposit", "credit", "resolve", "vote", "claim", "rewards",
               "cancelOrder", "cancelDuel", "accept"}
RowRoutes == {"claim", "rewards", "cancelOrder", "resolve", "cancelDuel", "accept"}
Companions == {{"deposit", "transactions"}, {"resolve", "markets"}, {"accept", "cancelDuel"}}

\* An item is of one kind, and its row is of the table of that kind.
ASSUME ItemsAssumption ==
  /\ BatchedRows \cap DuelRows = {} /\ BatchedRows \cup DuelRows \subseteq Rows
  /\ OpenStatus # "DONE" /\ Free \notin Requests
  /\ \A s \in Scenarios, r, q \in Requests :
       s.calls[r].route \in OnceRoutes /\ s.calls[q].item = s.calls[r].item =>
         \/ s.calls[q].route = s.calls[r].route
         \/ {s.calls[r].route, s.calls[q].route} \in Companions
  /\ \A s \in Scenarios, r \in Requests : s.calls[r].route \in RowRoutes =>
       /\ s.calls[r].item \in Rows \ BatchedRows
       /\ s.calls[r].route \in {"accept", "cancelDuel"} \/ s.calls[r].item \notin DuelRows

Route(r) == calls[r].route
Item(r) == calls[r].item

\* The key a route locks: per wallet, or per item of the route.
Unlocked == {"deposit", "transactions", "markets", "timer", "shutdown"}
LockKey(call) ==
  CASE call.route \in Unlocked -> <<"none", "none">>
    [] call.route \in {"stake", "unstake", "rewards"} -> <<"staking", WALLET>>
    [] call.route \in {"orders", "withdraw"} -> <<call.route, WALLET>>
    [] OTHER -> <<call.route, call.item>>

ASSUME KeysAssumption ==
  \A s \in Scenarios, r \in Requests : LockKey(s.calls[r]) \in LockKeys

BackendInit ==
  /\ LocksInit /\ ApprovalsInit
  /\ \E s \in Scenarios : calls = s.calls /\ faults = s.faults
  /\ pc = [r \in Requests |-> "idle"]
  /\ store = [r \in Rows |-> IF r = WALLET THEN EmptyWallet
                             ELSE IF r \in BatchedRows THEN Absent ELSE OpenStatus]
  /\ PersistInit
  /\ moneySignatures = {} /\ tradeIdempotencyCache = {} /\ proposalVotes = {}
  /\ paid = {} /\ reused = {}

Fault(k) == faults[k] > 0 /\ faults' = [faults EXCEPT ![k] = @ - 1]

Move(r, to) == pc' = [pc EXCEPT ![r] = to]
At(r, route, where) == Route(r) = route /\ pc[r] = where

Gets(s, i) == [s EXCEPT ![WALLET].gets[i] = @ + 1]
Gives(s, i) == [s EXCEPT ![WALLET].gives[i] = @ + 1]

\* The store changes, and the request waits for it to be saved.
SaveAs(r, where, s) ==
  /\ store' = s
  /\ persistAfterMutation(r, s)
  /\ Move(r, where)

\* The operation throws: nothing changed, and the lock is released.
Throw(r) == Move(r, "finishing") /\ UNCHANGED <<store, persistVars>>

-----------------------------------------------------------------------------
(* The lock of a route, and the bodies that run under it                     *)

\* What a route checks before it asks for its lock.
PassesChecks(r) ==
  /\ Route(r) \in {"credit", "resolve"} =>
       Item(r) \in DOMAIN requests /\ isReadyToExecute(requests[Item(r)])
  /\ Route(r) = "trades" => Item(r) \notin tradeIdempotencyCache

AskForLock(r) ==
  /\ pc[r] = "idle" /\ Route(r) \notin Unlocked
  /\ IF PassesChecks(r)
     THEN \E won \in BOOLEAN :
            /\ \/ acquireLock(r, LockKey(calls[r]), won) /\ UNCHANGED faults
               \/ Fault("redis") /\ acquireInMemory(r, LockKey(calls[r]), won)
            /\ Move(r, IF won THEN "asked" ELSE "done")
     ELSE Move(r, "done") /\ UNCHANGED <<lockVars, faults>>
  /\ UNCHANGED <<calls, moneySignatures, tradeIdempotencyCache, proposalVotes, paid, reused,
                 approvalVars, store, persistVars>>

GetLock(r) ==
  /\ pc[r] = "asked"
  /\ LockAnswered(r, LockKey(calls[r]))
  /\ Move(r, "locked")
  /\ UNCHANGED <<calls, moneySignatures, tradeIdempotencyCache, proposalVotes, paid, reused,
                 faults, approvalVars, store, persistVars>>

Quiet == UNCHANGED <<calls, moneySignatures, tradeIdempotencyCache, proposalVotes, paid,
                     reused, faults, lockVars, approvalVars>>

\* A body that takes money from the wallet, as often as it is called.
Spend(r) ==
  IF Balance > 0 THEN SaveAs(r, "saving", Gives(store, Item(r))) ELSE Throw(r)

\* A body that runs once in the life of a row, which remembers it: a duel, an
\* order, a position or a market that leaves its open status.
Once(r, s) ==
  IF store[Item(r)] = OpenStatus
  THEN SaveAs(r, "saving", [s EXCEPT ![Item(r)] = "DONE"]) ELSE Throw(r)

PostTrades(r) ==
  /\ At(r, "trades", "locked")
  /\ Spend(r)
  /\ tradeIdempotencyCache' = IF Balance > 0 THEN tradeIdempotencyCache \cup {Item(r)}
                              ELSE tradeIdempotencyCache
  /\ UNCHANGED <<calls, moneySignatures, proposalVotes, paid, reused, faults,
                 lockVars, approvalVars>>

PostDuels(r) == At(r, "duels", "locked") /\ Spend(r) /\ Quiet
PostOrders(r) == At(r, "orders", "locked") /\ Spend(r) /\ Quiet
BoostPosition(r) == At(r, "boost", "locked") /\ Spend(r) /\ Quiet
Stake(r) == At(r, "stake", "locked") /\ Spend(r) /\ Quiet

AcceptDuel(r) ==
  /\ At(r, "accept", "locked")
  /\ IF Balance > 0 THEN Once(r, Gives(store, Item(r))) ELSE Throw(r)
  /\ Quiet

DeleteDuel(r) == At(r, "cancelDuel", "locked") /\ Once(r, Gets(store, Item(r))) /\ Quiet
DeleteOrder(r) == At(r, "cancelOrder", "locked") /\ Once(r, Gets(store, Item(r))) /\ Quiet
ClaimPosition(r) == At(r, "claim", "locked") /\ Once(r, Gets(store, Item(r))) /\ Quiet

\* What was staked comes back; rewards are given while there are any.
Unstake(r) ==
  /\ At(r, "unstake", "locked")
  /\ IF store[WALLET].gives[Item(r)] > store[WALLET].gets[Item(r)]
     THEN SaveAs(r, "saving", Gets(store, Item(r))) ELSE Throw(r)
  /\ Quiet

ClaimRewards(r) == At(r, "rewards", "locked") /\ Once(r, Gets(store, Item(r))) /\ Quiet

-----------------------------------------------------------------------------
(* Two-admin requests                                                        *)

ServerKeeps == UNCHANGED <<calls, moneySignatures, tradeIdempotencyCache, proposalVotes,
                           paid, reused, lockVars, store, persistVars>>

\* The routes of the admins, on the ids that some request will execute.
Proposed(id, a) == proposeCredit(id, a) \/ proposeMarketResolution(id, a)
Approved(id, a) == approveCredit(id, a) \/ approveMarketResolution(id, a)

Approving ==
  /\ \/ /\ \E r \in Requests, a \in Admins : Proposed(Item(r), a) \/ Approved(Item(r), a)
        /\ UNCHANGED faults
     \/ Fault("expiry") /\ \E id \in RequestIds : purgeExpired(id)
     \/ SendCommand /\ UNCHANGED faults
     \/ Fault("redis") /\ LoseCommand
  /\ UNCHANGED pc /\ ServerKeeps

\* The execution of a credit: the daily cap, then the deposit.  Nothing looks
\* again whether the request was executed meanwhile.
CountCredit(r) ==
  /\ At(r, "credit", "locked")
  /\ IncreaseDailyCredit
  /\ Move(r, IF OverDailyLimit(dailyCredit') THEN "over" ELSE "counted")
  /\ UNCHANGED <<requests, copies, commands, agreed, faults>> /\ ServerKeeps

RefuseCredit(r) ==
  /\ At(r, "credit", "over")
  /\ RevertDailyCredit
  /\ Move(r, "finishing")
  /\ UNCHANGED <<requests, copies, commands, agreed, faults>> /\ ServerKeeps

ExecuteCredit(r) ==
  /\ At(r, "credit", "counted")
  /\ MarkExecuted(Item(r))
  /\ SaveAs(r, "saving", Gets(store, Item(r)))
  /\ UNCHANGED <<calls, moneySignatures, tradeIdempotencyCache, proposalVotes, paid, reused,
                 faults, lockVars, dailyCredit>>

\* resolveMarket throws on a market that is resolved, before the request is
\* marked.  The request's id stands for its market too.
ExecuteResolution(r) ==
  /\ At(r, "resolve", "locked")
  /\ Once(r, Gets(store, Item(r)))
  /\ IF store[Item(r)] = OpenStatus THEN MarkExecuted(Item(r)) /\ UNCHANGED dailyCredit
     ELSE UNCHANGED approvalVars
  /\ UNCHANGED <<calls, moneySignatures, tradeIdempotencyCache, proposalVotes, paid, reused,
                 faults, lockVars>>

-----------------------------------------------------------------------------
(* Votes: a row of their own, written before the weight is counted           *)

RecordVote(r) ==
  /\ At(r, "vote", "locked")
  /\ IF store[Item(r)] = OpenStatus
     THEN /\ Move(r, IF Item(r) \in proposalVotes THEN "finishing" ELSE "recorded")
          /\ proposalVotes' = proposalVotes \cup {Item(r)}
     ELSE Move(r, "finishing") /\ UNCHANGED proposalVotes
  /\ UNCHANGED <<calls, moneySignatures, tradeIdempotencyCache, paid, reused, faults,
                 lockVars, approvalVars, store, persistVars>>

CountVote(r) ==
  /\ At(r, "vote", "recorded")
  /\ SaveAs(r, "saving", [Gets(store, Item(r)) EXCEPT ![Item(r)] = "DONE"])
  /\ Quiet

-----------------------------------------------------------------------------
(* Deposits                                                                  *)

\* The signature is marked and the transaction registered, before the RPC.
MarkDeposit(r) ==
  LET sig == Item(r)
  IN  /\ At(r, "deposit", "idle")
      /\ IF sig \in moneySignatures
         THEN Move(r, "done") /\ UNCHANGED <<store, moneySignatures>>
         ELSE /\ moneySignatures' = moneySignatures \cup {sig}
              /\ store' = IF store[sig] = Absent THEN [store EXCEPT ![sig] = "DEPOSIT_PENDING"]
                          ELSE store
              /\ Move(r, "verifying")
      /\ UNCHANGED <<calls, tradeIdempotencyCache, proposalVotes, paid, reused, faults,
                     lockVars, approvalVars, persistVars>>

CreditDeposit(r) ==
  /\ At(r, "deposit", "verifying")
  /\ SaveAs(r, "saving", [Gets(store, Item(r)) EXCEPT ![Item(r)] = "DEPOSIT"])
  /\ Quiet

\* Not finalized, not the amount, or no answer: the registration is removed.
RejectDeposit(r) ==
  /\ At(r, "deposit", "verifying")
  /\ Fault("rpc")
  /\ moneySignatures' = moneySignatures \ {Item(r)}
  /\ store' = [store EXCEPT ![Item(r)] = Absent]
  /\ Move(r, "done")
  /\ UNCHANGED <<calls, tradeIdempotencyCache, proposalVotes, paid, reused,
                 lockVars, approvalVars, persistVars>>

\* A client registers a transaction of its own, which carries no money.
PostTransactions(r) ==
  LET sig == Item(r)
  IN  /\ At(r, "transactions", "idle")
      /\ SaveAs(r, "saving", IF store[sig] = Absent THEN [store EXCEPT ![sig] = "CLIENT"] ELSE store)
      /\ reused' = reused \cup {sig}
      /\ UNCHANGED <<calls, moneySignatures, tradeIdempotencyCache, proposalVotes, paid, faults,
                     lockVars, approvalVars>>

-----------------------------------------------------------------------------
(* Withdrawals: debit, save, send, and save the signature or the reversal    *)

DebitWithdrawal(r) ==
  /\ At(r, "withdraw", "locked")
  /\ IF Balance > 0 THEN SaveAs(r, "savingDebit", Gives(store, Item(r))) ELSE Throw(r)
  /\ Quiet

\* The transfer lands or not; its sender is told so, or that it is not known,
\* which the route takes for a failure.
SendWithdrawal(r) ==
  /\ At(r, "withdraw", "sending")
  /\ \/ paid' = paid \cup {r} /\ Move(r, "sent") /\ UNCHANGED faults
     \/ Fault("rpc") /\ Move(r, "unsent") /\ paid' \in {paid, paid \cup {r}}
  /\ UNCHANGED <<calls, moneySignatures, tradeIdempotencyCache, proposalVotes, reused,
                 lockVars, approvalVars, store, persistVars>>

RecordWithdrawal(r) ==
  /\ At(r, "withdraw", "sent")
  /\ SaveAs(r, "saving", [store EXCEPT ![Item(r)] = "WITHDRAWAL"])
  /\ Quiet

ReverseWithdrawal(r) ==
  /\ At(r, "withdraw", "unsent")
  /\ SaveAs(r, "saving", Gets(store, Item(r)))
  /\ Quiet

-----------------------------------------------------------------------------
(* Routes without a lock, the timer and the shutdown                         *)

\* An id the admin gives again replaces the market that had it.
PostMarkets(r) ==
  /\ At(r, "markets", "idle")
  /\ SaveAs(r, "saving", [store EXCEPT ![Item(r)] = OpenStatus])
  /\ reused' = reused \cup {Item(r)}
  /\ UNCHANGED <<calls, moneySignatures, tradeIdempotencyCache, proposalVotes, paid, faults,
                 lockVars, approvalVars>>

PeriodicPersist(r) == At(r, "timer", "idle") /\ SaveAs(r, "saving", store) /\ Quiet
GracefulShutdown(r) == At(r, "shutdown", "idle") /\ SaveAs(r, "saving", store) /\ Quiet

-----------------------------------------------------------------------------
(* The end of a save and of a request                                        *)

\* The caller of a save goes on; a save it did not queue may reject.
Wake_Anyway(r, ok) ==
  Move(r, IF pc[r] = "savingDebit" THEN "sending" ELSE "finishing")
Wake(r, ok) ==
  Move(r, IF pc[r] = "savingDebit" /\ ok THEN "sending" ELSE "finishing")

SaveReturns ==
  /\ \E s \in saves :
       \/ CommitSave(s) /\ UNCHANGED <<pc, faults>>
       \/ FinishSave(s) /\ Wake(s.by, TRUE) /\ UNCHANGED faults
       \/ Fault("db") /\ FailSave(s) /\ Wake(s.by, s.queued)
  /\ UNCHANGED <<calls, moneySignatures, tradeIdempotencyCache, proposalVotes, paid, reused,
                 lockVars, approvalVars>>

\* The replay guard is rebuilt from the transactions loaded.
SignaturesLoaded_Pending == {s \in BatchedRows : db[s] = "DEPOSIT_PENDING"}
SignaturesLoaded == {s \in BatchedRows : db[s] \in {"DEPOSIT", "DEPOSIT_PENDING"}}

Restart ==
  /\ load /\ LocksRestart /\ loadPendingFromRedis
  /\ pc' = [r \in Requests |-> IF pc[r] = "idle" THEN "idle" ELSE "done"]
  /\ moneySignatures' = SignaturesLoaded
  /\ tradeIdempotencyCache' = {}
  /\ UNCHANGED <<calls, proposalVotes, paid, reused>>

\* The lock is released and the request is over; the shutdown ends the process.
Finish(r) ==
  /\ pc[r] = "finishing"
  /\ IF Route(r) = "shutdown" THEN Restart /\ UNCHANGED faults
     ELSE /\ IF Route(r) \in Unlocked THEN UNCHANGED lockVars ELSE releaseLock(LockKey(calls[r]))
          /\ Move(r, "done")
          /\ UNCHANGED <<calls, moneySignatures, tradeIdempotencyCache, proposalVotes, paid,
                         reused, faults, approvalVars, store, persistVars>>

Crash == Fault("crash") /\ Restart

Expire ==
  /\ Fault("ttl")
  /\ \E k \in LockKeys : LockExpires(k)
  /\ UNCHANGED <<calls, pc, moneySignatures, tradeIdempotencyCache, proposalVotes, paid, reused,
                 approvalVars, store, persistVars>>

\* The id of a trade is kept for TRADE_IDEMPOTENCY_TTL_MS, five minutes, and is
\* gone when the next trade that looks for it comes later.
ExpireTradeId ==
  /\ Fault("expiry")
  /\ \E id \in tradeIdempotencyCache :
       /\ tradeIdempotencyCache' = tradeIdempotencyCache \ {id}
       /\ reused' = reused \cup {id}
  /\ UNCHANGED <<calls, pc, moneySignatures, proposalVotes, paid, lockVars, approvalVars,
                 store, persistVars>>

\* What a request does once it has arrived, and what makes it arrive.
Proceed(r) ==
  \/ GetLock(r) \/ Finish(r)
  \/ PostTrades(r) \/ PostDuels(r) \/ PostOrders(r) \/ BoostPosition(r) \/ Stake(r)
  \/ AcceptDuel(r) \/ DeleteDuel(r) \/ DeleteOrder(r) \/ ClaimPosition(r)
  \/ Unstake(r) \/ ClaimRewards(r)
  \/ CountCredit(r) \/ RefuseCredit(r) \/ ExecuteCredit(r) \/ ExecuteResolution(r)
  \/ RecordVote(r) \/ CountVote(r)
  \/ CreditDeposit(r) \/ RejectDeposit(r)
  \/ DebitWithdrawal(r) \/ SendWithdrawal(r) \/ RecordWithdrawal(r) \/ ReverseWithdrawal(r)

Arrive(r) ==
  \/ AskForLock(r) \/ MarkDeposit(r) \/ PostTransactions(r) \/ PostMarkets(r)
  \/ PeriodicPersist(r) \/ GracefulShutdown(r)

Next ==
  \/ \E r \in Requests : Arrive(r) \/ Proceed(r)
  \/ SaveReturns \/ Approving \/ Expire \/ ExpireTradeId \/ Crash

\* A promise settles: the event loop runs what waits for it, and the database
\* and the RPC node answer.
Fairness == WF_vars(SaveReturns) /\ \A r \in Requests : WF_vars(Proceed(r))

Spec == BackendInit /\ [][Next]_vars /\ Fairness

-----------------------------------------------------------------------------
(* Properties                                                                *)

\* What can make an effect happen twice.
Excused(i) ==
  LET routes == {Route(r) : r \in {q \in Requests : Item(q) = i}}
      Restarted == loaded # {}
      Lapsed == \E r \in Requests : Item(r) = i /\ LockKey(calls[r]) \in lapsed
  IN  \/ "deposit" \in routes /\ i \in reused
      \/ "resolve" \in routes /\ i \in reused
      \/ "credit" \in routes /\ (Lapsed \/ Restarted)
      \/ "trades" \in routes /\ (Lapsed \/ Restarted \/ i \in reused)
      \/ routes \cap {"accept", "cancelDuel"} # {} /\ i \in DuelRows \cap loaded
      \/ "vote" \notin routes /\ overlapped /\ Restarted

(* What may happen once happens once: a deposit, a manual credit, a trade    *)
(* with a client's id, a refund, a claim, a resolution, a vote.  Restarts    *)
(* keep it, for the money and the row that remembers it are saved together.  *)
(* What breaks it is named above: a credit's lock that lapsed or a restart   *)
(* before its copy was deleted, a trade's id that the server keeps in memory *)
(* for five minutes (server.ts:1835), or its lock that lapsed, a signature   *)
(* its owner registered too, a duel loaded at boot without its status, a     *)
(* market created again under its id, and a restart on what saves that       *)
(* overlapped left: the money of the newer one beside the row of the older   *)
(* one.                                                                      *)
AppliedOnce ==
  \A r \in Requests : LET i == Item(r) IN
    (Route(r) \in OnceRoutes /\ ~Excused(i)) =>
      store[WALLET].gets[i] <= 1 /\ store[WALLET].gives[i] <= 1

(* "Rebuild the deposit replay guard (moneySignatures) from persisted        *)
(* money-intent transactions so a deposit cannot be replayed across a        *)
(* restart" (persistence.ts:600-602), but for those registered by a client.  *)
DepositsNotReplayed ==
  \A r \in Requests :
    Route(r) = "deposit" /\ Item(r) \notin reused => store[WALLET].gets[Item(r)] <= 1

(* The manual credits of a wallet stay within the day's limit, whatever the  *)
(* order of concurrent executions and the locks that lapsed: the counter is  *)
(* raised before the money and never lowered after it.                       *)
DailyLimitHeld ==
  SumFunction([i \in Items \cap Credits |-> store[WALLET].gets[i]]) <= MAX_DAILY_CREDIT

(* No withdrawal is sent before its debit is in the database, so a restart   *)
(* cannot give the money back.  Two causes break it: a queued save that      *)
(* failed and was reported as done, and an older save that committed later.  *)
PaidIsDurable ==
  overlapped \/ \A r \in paid : r \in swallowed \/ db[WALLET].gives[Item(r)] >= 1

(* Every request that arrived is answered, unless its save was discarded     *)
(* from the queue or the process died.                                       *)
Answered ==
  \A r \in Requests : pc[r] # "idle" ~> (pc[r] = "done" \/ r \in abandoned)
=============================================================================
