----------------------------- MODULE AdminPanel -----------------------------
(* The emergency panel (src/cripto/admin-panel): every admin runs one, on a  *)
(* host of its own and with a key of its own.  Its session is a sealed       *)
(* cookie the browser keeps, its second factor a TOTP code, and its actions  *)
(* are instructions of module Governance and of a market's resolution.       *)
EXTENDS Governance, Functions, TLC

CONSTANTS
  PRE_AUTH_TTL, INACTIVITY_TIMEOUT,  \* lives of a session's two kinds, in TOTP steps
  DISPUTE_WINDOW,
  OracleDeadline,    \* of every market
  PanelStories       \* bound: the sessions the browsers start with, what is clicked
                     \* how often, how often a panel restarts and an oracle speaks

ASSUME PanelStoriesAssumption == \A story \in PanelStories : DOMAIN story.cookie = Keys

VARIABLES
  cookie,            \* the session in the browser of each panel
  asked,             \* the request of each kind each browser waits for
  consumedCounters,  \* the last TOTP counter each process consumed
  view,              \* what each page lists
  market,            \* the Market accounts: status, proposed result, proposed_ts
  left, restarts, oracleCalls,   \* what the story has left
  panelPast

browserVars == <<cookie, asked, view, left, panelPast>>
processVars == <<consumedCounters, restarts>>
panelVars == <<vars, browserVars, processVars, market, oracleCalls>>

NoCookie == [kind |-> "none", at |-> 0]
\* What a request may have instead of an answer's cookie.
Waiting == [kind |-> "waiting", at |-> 0]
Keep == [kind |-> "keep", at |-> 0]
Nothing == "nothing"
Unresolved == "Unresolved"
Pages == {"load", "propose", "approve", "execute", "dispute", "finalize"}

PanelInit ==
  /\ Init
  /\ \E story \in PanelStories :
       cookie = story.cookie /\ left = story.clicks
       /\ restarts = story.restarts /\ oracleCalls = story.oracleCalls
  /\ asked = [k \in Keys |-> << >>]
  /\ consumedCounters = [k \in Keys |-> 0]
  /\ view = [k \in Keys |-> [proposals |-> {}, markets |-> {}]]
  /\ market = [m \in Markets |->
                 [status |-> "CutOff", proposedResult |-> Unresolved, proposedTs |-> 0]]
  /\ panelPast = [entered |-> [k \in Keys |-> {}], twice |-> FALSE, alone |-> {}, out |-> {}]

Chain == UNCHANGED <<vars, market, oracleCalls>>

-----------------------------------------------------------------------------
(* The browser                                                               *)

Ask(k, what, arg) ==
  /\ what \notin DOMAIN asked[k] /\ left[k][what] > 0
  /\ left' = [left EXCEPT ![k][what] = @ - 1]
  /\ asked' = [asked EXCEPT ![k] = [w \in DOMAIN @ \cup {what} |->
       IF w \in DOMAIN @ THEN @[w]
       ELSE [what |-> what, arg |-> arg, held |-> cookie[k], back |-> Waiting]]]
  /\ panelPast' = [panelPast EXCEPT
       !.out = @ \ {k},
       !.alone = IF what = "logout" /\ DOMAIN asked[k] = {} THEN @ \cup {k} ELSE @ \ {k}]
  /\ UNCHANGED <<cookie, view, processVars>> /\ Chain

\* login/page.tsx: the password, then a code of the authenticator, whose clock
\* may be a step off.
requestOtp(k) == Ask(k, "password", Nothing)
verifyOtp(k) == \E c \in (now - 1)..(now + 1) : Ask(k, "code", c)
logOutOfPanel(k) == Ask(k, "logout", Nothing)
loadData(k) == Ask(k, "load", Nothing)

\* page.tsx offers what it lists, however long ago it was listed.
proposeResolution(k) ==
  \E m \in view[k].markets, r \in Results :
    m.status = "CutOff" /\ Ask(k, "propose", [market |-> m.pubkey, result |-> r])
approveProposalAction(k) ==
  \E p \in view[k].proposals : p.canApproveHere /\ Ask(k, "approve", p.pubkey)
executeProposal(k) ==
  \E p \in view[k].proposals : Ask(k, "execute", [proposal |-> p.pubkey, market |-> p.actionMarket])
OracleProposed(k) ==
  {m \in view[k].markets : m.status = "PendingResolution" /\ m.proposedResult # Unresolved}
disputeMarket(k) == \E m \in OracleProposed(k) : Ask(k, "dispute", m.pubkey)
finalizeMarket(k) == \E m \in OracleProposed(k) : Ask(k, "finalize", m.pubkey)

\* An answer carries the cookie to keep from now on, if it sets one.
AnswerArrives(k) ==
  \E what \in DOMAIN asked[k] : LET q == asked[k][what] IN
    /\ q.back # Waiting
    /\ asked' = [asked EXCEPT ![k] = Restrict(@, DOMAIN @ \ {what})]
    /\ cookie' = IF q.back = Keep THEN cookie ELSE [cookie EXCEPT ![k] = q.back]
    /\ panelPast' = IF q.what = "logout" /\ q.back # Keep /\ k \in panelPast.alone
                    THEN [panelPast EXCEPT !.out = @ \cup {k}] ELSE panelPast
    /\ UNCHANGED <<view, left, processVars>> /\ Chain

-----------------------------------------------------------------------------
(* The process: middleware.ts, then the route                                *)

Answered(k, q, back) ==
  /\ asked' = [asked EXCEPT ![k][q.what].back = back]
  /\ UNCHANGED <<cookie, view, left, restarts>>

\* rate-limit.ts: what its counters refuse, and when a window ends, is left
\* open.  A refusal changes nothing else.
rateLimitRefuses(k, q) ==
  Answered(k, q, Keep) /\ UNCHANGED <<consumedCounters, panelPast>> /\ Chain

\* The first factor replaces whatever session there was.
postRequestOtp(k, q) ==
  /\ q.what = "password"
  /\ \E right \in BOOLEAN :
       Answered(k, q, IF right THEN [kind |-> "preAuth", at |-> now] ELSE Keep)
  /\ UNCHANGED <<consumedCounters, panelPast>> /\ Chain

\* A code is that of its counter.  The one that matched is consumed.
verifyTotp(k, code) == code \in (now - 1)..(now + 1) /\ code > consumedCounters[k]

preAuthOk(c) == c.kind = "preAuth" /\ now - c.at < PRE_AUTH_TTL

postVerifyOtp(k, q) ==
  /\ q.what = "code"
  /\ IF preAuthOk(q.held) /\ verifyTotp(k, q.arg)
     THEN /\ consumedCounters' = [consumedCounters EXCEPT ![k] = q.arg]
          /\ Answered(k, q, [kind |-> "admin", at |-> now])
          /\ panelPast' = [panelPast EXCEPT !.entered[k] = @ \cup {q.arg},
                             !.twice = @ \/ q.arg \in panelPast.entered[k]]
     ELSE /\ Answered(k, q, IF preAuthOk(q.held) THEN Keep ELSE NoCookie)
          /\ UNCHANGED <<consumedCounters, panelPast>>
  /\ Chain

postLogout(k, q) ==
  /\ q.what = "logout" /\ Answered(k, q, NoCookie)
  /\ UNCHANGED <<consumedCounters, panelPast>> /\ Chain

\* requireAdminSession: an admin session that was used not long ago.
IsAdminSession(c) == c.kind = "admin" /\ now - c.at <= INACTIVITY_TIMEOUT

Bounced(k, q) ==
  /\ q.what \in Pages /\ ~IsAdminSession(q.held)
  /\ Answered(k, q, IF q.held.kind = "admin" THEN NoCookie ELSE Keep)
  /\ UNCHANGED <<consumedCounters, panelPast>> /\ Chain

\* Every use of a session renews it.
Renewed == [kind |-> "admin", at |-> now]
Enters(k, q, what) ==
  /\ q.what = what /\ IsAdminSession(q.held)
  /\ Answered(k, q, Renewed)

\* What a page shows of a proposal and of a market.
decodeProposal(k, p) ==
  [pubkey |-> p, actionMarket |-> proposals[p].action.market,
   canApproveHere |-> IsMultisigSigner(k) /\ ~HasApproved(p, k)]
fetchOpenProposals(k) ==
  {decodeProposal(k, p) :
     p \in {p \in DOMAIN proposals : ~proposals[p].executed /\ ~proposals[p].cancelled}}

decodeMarket(m) ==
  [pubkey |-> m, status |-> market[m].status, proposedResult |-> market[m].proposedResult]
fetchPendingMarkets ==
  {decodeMarket(m) : m \in {m \in Markets : market[m].status \in {"CutOff", "PendingResolution"}}}

getLists(k, q) ==
  /\ q.what = "load" /\ IsAdminSession(q.held)
  /\ asked' = [asked EXCEPT ![k][q.what].back = Renewed]
  /\ view' = [view EXCEPT ![k] = [proposals |-> fetchOpenProposals(k),
                                  markets |-> fetchPendingMarkets]]
  /\ UNCHANGED <<cookie, left, panelPast, processVars>> /\ Chain

\* A transaction of the panel takes effect, or does not: what the panel checks
\* before it sends one, the program checks again.
Sends(k, q, what, Effect) ==
  /\ Enters(k, q, what)
  /\ Effect \/ Chain
  /\ UNCHANGED <<consumedCounters, panelPast>>

proposeResolveMarketAdmin(k, q) ==
  Sends(k, q, "propose",
        /\ market[q.arg.market].status \in {"CutOff", "PendingResolution"}
        /\ OracleDeadline <= now
        /\ ProposeAction(k, [type |-> "ResolveMarketAdmin", market |-> q.arg.market,
                             result |-> q.arg.result])
        /\ UNCHANGED <<market, oracleCalls>>)

approveProposal(k, q) ==
  Sends(k, q, "approve", ApproveAction(q.arg, k) /\ UNCHANGED <<market, oracleCalls>>)

\* The market's half of execute_resolve_market_admin.
executeResolveMarketAdmin(k, q) ==
  Sends(k, q, "execute",
        \E r \in Results :
          /\ ExecuteResolveMarketAdmin(q.arg.proposal, q.arg.market, r)
          /\ now >= OracleDeadline /\ market[q.arg.market].status = "CutOff"
          /\ market' = [market EXCEPT ![q.arg.market].status = "Resolved"]
          /\ UNCHANGED oracleCalls)

disputeResolution(k, q) ==
  Sends(k, q, "dispute",
        /\ IsMultisigSigner(k)
        /\ market[q.arg].status = "PendingResolution"
        /\ now < market[q.arg].proposedTs + DISPUTE_WINDOW
        /\ market' = [market EXCEPT ![q.arg] =
             [status |-> "CutOff", proposedResult |-> Unresolved, proposedTs |-> 0]]
        /\ UNCHANGED <<vars, oracleCalls>>)

finalizeResolution(k, q) ==
  Sends(k, q, "finalize",
        /\ market[q.arg].status = "PendingResolution"
        /\ now >= market[q.arg].proposedTs + DISPUTE_WINDOW
        /\ market' = [market EXCEPT ![q.arg].status = "Resolved"]
        /\ UNCHANGED <<vars, oracleCalls>>)

Serve(k) ==
  \E what \in DOMAIN asked[k] : LET q == asked[k][what] IN
    /\ q.back = Waiting
    /\ \/ rateLimitRefuses(k, q) \/ Bounced(k, q)
       \/ postRequestOtp(k, q) \/ postVerifyOtp(k, q) \/ postLogout(k, q)
       \/ getLists(k, q)
       \/ proposeResolveMarketAdmin(k, q) \/ approveProposal(k, q)
       \/ executeResolveMarketAdmin(k, q)
       \/ disputeResolution(k, q) \/ finalizeResolution(k, q)

\* What a process keeps in memory, it forgets; a request it served is not told.
RestartPanel(k) ==
  /\ restarts > 0
  /\ restarts' = restarts - 1
  /\ consumedCounters' = [consumedCounters EXCEPT ![k] = 0]
  /\ asked' = [asked EXCEPT ![k] = << >>]
  /\ panelPast' = [panelPast EXCEPT !.entered[k] = {}]
  /\ UNCHANGED <<cookie, view, left>> /\ Chain

-----------------------------------------------------------------------------
(* The chain around the panels                                               *)

Rest == UNCHANGED <<cookie, asked, view, panelPast, processVars>>
initMultisig(k) ==
  /\ left[k].initMultisig > 0 /\ left' = [left EXCEPT ![k].initMultisig = @ - 1]
  /\ \E keys \in SignerLists : InitMultisig(k, keys, Len(keys))
  /\ UNCHANGED <<market, oracleCalls>> /\ Rest
TimePasses == Tick /\ UNCHANGED <<market, oracleCalls, left>> /\ Rest
OracleProposes(m, r) ==
  /\ initialized
  /\ oracleCalls > 0 /\ oracleCalls' = oracleCalls - 1
  /\ market[m].status \in {"CutOff", "PendingResolution"}
  /\ market' = [market EXCEPT ![m] =
       [status |-> "PendingResolution", proposedResult |-> r, proposedTs |-> now]]
  /\ UNCHANGED <<vars, left>> /\ Rest

PanelNext ==
  \/ \E k \in Keys :
       \/ requestOtp(k) \/ verifyOtp(k) \/ logOutOfPanel(k) \/ loadData(k)
       \/ proposeResolution(k) \/ approveProposalAction(k) \/ executeProposal(k)
       \/ disputeMarket(k) \/ finalizeMarket(k)
       \/ Serve(k) \/ AnswerArrives(k) \/ RestartPanel(k) \/ initMultisig(k)
  \/ \E m \in Markets, r \in Results : OracleProposes(m, r)
  \/ TimePasses

-----------------------------------------------------------------------------
(* Properties                                                                *)

\* A TOTP code lets nobody in twice while the process that took it runs,
\* whatever the authenticator's clock and the order of the attempts.
CodesAreOneTime == ~panelPast.twice

\* Once a logout with nothing else on its way was answered, the browser has no
\* session until it asks for something again.
PanelSignedOut == \A k \in panelPast.out : cookie[k] = NoCookie
=============================================================================
