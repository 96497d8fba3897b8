----------------------------- MODULE Approvals -----------------------------
(* Requests that two different admins must agree on before they run: manual  *)
(* credits and the resolution of legacy markets (creditApprovals.ts).  The   *)
(* process keeps them in a map and Redis keeps a copy for the next process;  *)
(* nobody waits for the commands that write the copy.                        *)
EXTENDS Naturals, Sequences, FiniteSets, SequencesExt

CONSTANTS
  Credits,           \* ids of credit requests
  Resolutions,       \* ids of market-resolution requests
  Admins,
  MAX_DAILY_CREDIT,  \* what a wallet may be credited in a day
  MaxCommands        \* bound: commands waiting to be sent

VARIABLES
  requests,          \* the map: [proposedBy, approvals] by id
  copies,            \* what Redis holds of it
  commands,          \* the SETs and DELs not sent yet, oldest first
  dailyCredit,       \* the counter daily_credit: of the wallet, in Redis
  agreed             \* history: the admins who ever spoke for each id

approvalVars == <<requests, copies, commands, dailyCredit, agreed>>

RequestIds == Credits \cup Resolutions
REQUIRED_APPROVALS == 2
CREDIT_AMOUNT == 1

Without(f, id) == [i \in DOMAIN f \ {id} |-> f[i]]
With(f, id, v) == [i \in DOMAIN f \cup {id} |-> IF i = id THEN v ELSE f[i]]

ApprovalsInit ==
  /\ requests = << >>
  /\ copies = << >>
  /\ commands = << >>
  /\ dailyCredit = 0
  /\ agreed = [id \in RequestIds |-> {}]

isReadyToExecute(request) == 1 + Cardinality(request.approvals) >= REQUIRED_APPROVALS

\* The request enters the map, and its SET the commands to send.
Put(id, request, admin) ==
  /\ Len(commands) < MaxCommands
  /\ requests' = With(requests, id, request)
  /\ commands' = Append(commands, [op |-> "SET", id |-> id, value |-> request])
  /\ agreed' = [agreed EXCEPT ![id] = @ \cup {admin}]
  /\ UNCHANGED copies

\* An id is drawn at random and never drawn again.
Propose(id, admin) ==
  /\ agreed[id] = {}
  /\ Put(id, [proposedBy |-> admin, approvals |-> {}], admin)

\* The dry run of the daily cap is read before the request exists.
proposeCredit(id, admin) ==
  /\ id \in Credits
  /\ dailyCredit + CREDIT_AMOUNT <= MAX_DAILY_CREDIT
  /\ Propose(id, admin)
  /\ UNCHANGED dailyCredit

proposeMarketResolution(id, admin) ==
  /\ id \in Resolutions
  /\ Propose(id, admin)
  /\ UNCHANGED dailyCredit

MayApprove_Again(request, admin) == admin \notin request.approvals
MayApprove(request, admin) == request.proposedBy # admin

Approve(id, admin) ==
  /\ id \in DOMAIN requests
  /\ MayApprove(requests[id], admin)
  /\ Put(id, [requests[id] EXCEPT !.approvals = @ \cup {admin}], admin)
  /\ UNCHANGED dailyCredit

approveCredit(id, admin) == id \in Credits /\ Approve(id, admin)
approveMarketResolution(id, admin) == id \in Resolutions /\ Approve(id, admin)

\* The request leaves the map, if it is still there, and its DEL joins the
\* commands.
MarkExecuted(id) ==
  /\ requests' = Without(requests, id)
  /\ commands' = IF id \in DOMAIN requests
                 THEN Append(commands, [op |-> "DEL", id |-> id]) ELSE commands
  /\ UNCHANGED <<copies, agreed>>

\* A request is older than its time to live, and so is its copy.  It lives a
\* day: its commands have long been sent.
purgeExpired(id) ==
  /\ id \in DOMAIN requests
  /\ \A i \in DOMAIN commands : commands[i].id # id
  /\ requests' = Without(requests, id)
  /\ copies' = Without(copies, id)
  /\ UNCHANGED <<commands, dailyCredit, agreed>>

\* Redis executes the oldest command, or the command fails and is forgotten.
SendCommand ==
  LET c == Head(commands)
  IN  /\ commands # << >>
      /\ commands' = Tail(commands)
      /\ copies' = IF c.op = "SET" THEN With(copies, c.id, c.value) ELSE Without(copies, c.id)
      /\ UNCHANGED <<requests, dailyCredit, agreed>>

LoseCommand ==
  /\ commands # << >>
  /\ commands' = Tail(commands)
  /\ UNCHANGED <<requests, copies, dailyCredit, agreed>>

\* checkAndRecordDailyCredit: the increment comes first and is validated after.
IncreaseDailyCredit ==
  dailyCredit' = dailyCredit + CREDIT_AMOUNT

RevertDailyCredit ==
  dailyCredit' = dailyCredit - CREDIT_AMOUNT

\* What is validated is the total that the increment answered.
OverDailyLimit_OffByOne(total) == total > MAX_DAILY_CREDIT + CREDIT_AMOUNT
OverDailyLimit(total) == total > MAX_DAILY_CREDIT

\* A new process loads the copies; the commands not sent are lost.
loadPendingFromRedis ==
  /\ requests' = copies
  /\ commands' = << >>
  /\ UNCHANGED <<copies, dailyCredit, agreed>>

-----------------------------------------------------------------------------
(* A request that may be executed, wherever it was loaded from, was proposed *)
(* by one admin and approved by another one.                                 *)
TwoAdminsAgreed ==
  \A id \in DOMAIN requests :
    isReadyToExecute(requests[id]) => Cardinality(agreed[id]) >= REQUIRED_APPROVALS
=============================================================================
