# A verification project for Lynx Market

TLA+ models of the Lynx Market system (a Solana program for prediction
markets, duels, staking and a DAO, with the backend, admin panel and frontend
around it), checked with TLC and, where it says so, proved with TLAPS. Paths
below are relative to the repository; `lib.rs`, `state.rs` and `constants.rs`
are those of `cripto/programs/lynx_project/src`.

## 1. Inventory

### The program (`lib.rs`, about 3,100 lines, 45 instructions)

Every transaction is atomic and serialised by the chain, so each instruction
is one atomic step; what is hard is the *sequence*: many permissionless
instructions, any signer at any moment, deadlines in seconds, and integer
arithmetic that rounds down at every step.

| Component | State | Operations | Interacts with | What makes it correct |
|---|---|---|---|---|
| Governance | `config.admin/paused/multisig_initialized`, `Multisig`, `GovernanceProposal` | `init_multisig`, `propose_action`, `approve_action`, `cancel_proposal`, `execute_action`, `execute_resolve_market_admin`, `transfer_admin` | pauses every other component, resolves markets as a fallback, its signers dispute | quorum and timelock before every change; the multisig stays well formed; a proposal ends once |
| Market | `Market`, `UserPosition`, market vault (SOL or LYNX) | `create_market`, two purchases, `cut_off_market`, `propose_/dispute_/finalize_resolution`, two claims, two sweeps, `mint_lynx_distribution` | fees to stakers and treasury, ratio from the TWAP, orders enter it, duels read its result | pool accounting, conservation, solvency for every winner, bounded emission, resolution as an optimistic oracle promises |
| Staking | `StakePosition`, `config.total_staked`, reward index, stake and rewards vaults | `stake_lynx`, `unstake_lynx`, `claim_staking_rewards`, `credit_stakers` | fed by markets and duels, weighs votes | vaults back stakes and rewards; each staker earns the share of the fees of its time |
| DAO | `DaoProposal`, `DaoVote` | `create_dao_proposal`, `cast_dao_vote`, `finalize_dao_proposal` | reads stakes | nobody votes with more than it held when the proposal opened; the majority decides; proposals close |
| Duels | `Duel`, `DuelVault`, `config.protocol_duel_exposure` | `create_duel`, `accept_duel`, `resolve_duel_sol`, `resolve_protocol_duel`, `cancel_duel` | reads a market, pays stakers and treasury, mints LYNX | vaults empty exactly, exposure is that of live duels, a 1v1 has one winner, settled in the end |
| Supply TWAP | `CirculatingSupplyTwap` ring buffer | `init_supply_twap`, `record_supply_snapshot`, `mint_ratio_bps_twap` | sets the ratio a market freezes; duels and markets mint at that ratio | the average is of the latest snapshots, at least an interval apart; snapshots keep coming |
| Prediction limit orders | `PredictionOrder`, escrows | create / execute / cancel, SOL and LYNX | enter a market at a price limit | an escrow is spent once, never stranded |
| Spot order book | `SpotOrder`, escrows | place buy / sell, `match_spot_orders`, cancel | none | escrows cover what is open, price improvement returned |

### The backend (`backend/src`, about 8,600 lines)

One Node process: between two `await`s a handler is atomic, and everything it
read before an `await` may have changed after it.

| Component | State | Operations | Hard behaviour | What makes it correct |
|---|---|---|---|---|
| Chain indexer (`chain.ts`, `onchainRoutes.ts`) | a map per kind of account, circuit breaker, sync throttle | subscriptions, `refreshOnce`, `POST /api/onchain/sync`, the lists | a rebuild of the maps races subscription updates; notices are lost; the RPC node fails | the index ends up with what is on chain |
| Keeper (`chain.ts`) | `keeperRunning`, entries it holds over an `await` | limit orders, spot matching, cutoff, finalize, duels, DAO | works on stale entries; somebody else is faster | what is ready on chain does not stay so |
| Ledger API (`server.ts`) | in-memory store, idempotency cache, locks with a TTL | deposit, withdraw, trade, boost, stake, claim, duels, votes, markets | debit, save, send, reverse, with a crash or an ambiguous answer between any two; a lock that expires under its holder | what may happen once happens once; nothing is paid whose debit can be lost |
| Persistence (`server.ts`, `persistence.ts`) | last written rows, save queue | `save`, `load`, periodic save, shutdown | the queue keeps its newest waiter; saves overlap; the diff skips what it thinks is written | no row is taken for written that is not; every request is answered |
| Manual credits and resolutions (`creditApprovals.ts`) | requests, approvals, daily cap, copy in Redis | propose, approve, execute | two admins; commands to Redis nobody waits for; executed requests loaded again | two distinct admins behind each execution; the day's cap |
| Accounts (`server.ts` `/auth`, `auth.ts`) | users and two maps to them, revocations, login limiter | register, login, refresh, logout, wallet login and link, verification, reset, change of password | checks before an `await`, assignments after it; the account table saved row by row | what was answered is stored; a proof of identity is used once |
| Off-chain engine (`state.ts`, `economy.ts`) | wallets, orders, markets, positions, duels, treasury | one synchronous call per operation | a call that throws half-way is not rolled back; amounts round to nine decimals | money is conserved; the pool is that of its positions; the book is uncrossed |

### The clients

| Component | State | Hard behaviour | What makes it correct |
|---|---|---|---|
| Web client (`lynxProgram.ts`, `useProgram.ts`, `AuthContext.tsx`) | the call in flight, the quote shown, the session | the chain moves between quote, signature and landing; a refresh answers after the sign-out | a buyer's price is bounded by the quote; who signed out stays out |
| Admin panel (`cripto/admin-panel`) | sealed cookie, consumed TOTP counters, list of proposals | restart between two factors; two admins with stale lists | a code is good for one time; who signed out stays out |
| Snapshotter (`scripts/twap_keeper.cjs`) | attempt, sleep | `SnapshotTooSoon`, failures, crashes | each sample is followed by another |

`PROJECT.json` lists all of them under `components`, and what is hard to test
in each, line by line, under `hazards`.

## 2. Modules

```
Governance ──> MCGovernance
     └───────> AdminPanel ─┐
Accounts ──────────────────┴─> MCAccess ──> AccessProofs

LynxMath ──> Market ──> MCMarket          (INSTANCE OptimisticOracle)
     │         └──> Duels ──> MCDuels
     │                └──> SupplyTwap ──> SupplyTwapProofs, MCTwap
     └──> Staking ──> Dao ──> DaoProofs, MCDao

Orders ──> OnChain ──> Indexer ──> Client ──> ClientProofs, MCIndexer

Locks ─────────┐
Persistence ───┼──> Backend ──> BackendProofs, MCBackend
Approvals ─────┘

OffchainLedger ──> OffchainBook ──> OffchainMarket ──> MCExchange
                                          └──────────> OffchainBookProofs ──> OffchainProofs

SumProofs ──> SupplyTwapProofs, DaoProofs, BackendProofs, OffchainBookProofs
```

| Module | Models | Correspondence |
|---|---|---|
| `LynxMath` | `bps`, `mul_div`, the rates of `constants.rs` | operators; a quotient that would not fit a u64 reverts the transaction, so it is no step |
| `Governance` | the governance instructions | `config`, `Multisig` and the proposals are variables; each instruction, and each kind of action `execute_action` can run, is an action. `lowest` is a history variable, the lowest threshold since a proposal was created |
| `Market` | one market, SOL or LYNX | the `Market` account is a record, `positions` the `UserPosition` accounts, `vault`, `treasury`, `rewards`, `winners`, `minted` where money went. What an instruction reads from other accounts (pause flag, signer test, total staked, ratio) is a parameter of its action; `SupplyTwap` supplies the ratio |
| `OptimisticOracle` | the abstract specification of a resolution | see the refinement in section 4 |
| `Staking` | stake positions and the reward index | `owed` is a history variable: each staker's part of every fee as it came in, less what it claimed and what settlements truncated |
| `Dao` | proposals and votes over `Staking` | `roll` is a history variable: the stakes when a proposal was created |
| `Duels` | duels over a `Market` | the parent market is module `Market` itself, all its actions included; duels add accounts, vaults, the exposure and what each player won or lost |
| `SupplyTwap` | the ring buffer and its snapshotter, composed with `Market` and `Duels` | `record_supply_snapshot` and `mint_ratio_bps_twap` by their code; the service's attempt, its waits and its sleep are the steps between two calls. `taken` is a history of all samples; which of them counted is read from their times |
| `Orders` | limit orders in both currencies and the spot book | an instruction is a record of its parameters, as a client or the keeper builds it; it is executed whole when `AcceptsOrder` holds |
| `OnChain` | the accounts an indexer sees: `Orders` with duels, stakes and DAO proposals | requirements and visible effect of each instruction; their money is in `Market`, `Duels`, `Staking`, `Dao` |
| `Indexer` | index, reconciliation, circuit breaker, keeper | a step runs from the answer of one remote call to the next call. The keeper's cycle is a record of its phase, what it has tried and the transaction it waits for |
| `Client` | `lynxProgram.ts` and `useProgram.ts` on top of both | one call at a time: click (reads the index, builds the instruction), send, land, confirm, reconcile |
| `Locks`, `Persistence`, `Approvals` | the lock, the save and its queue, the two-admin requests | parts of one state; each operator is one synchronous stretch of code |
| `Backend` | the money routes over them | a request is a program counter; a route's actions are the stretches between its awaits. The store's operations come down to what they take from and give to the wallet and the row that remembers them |
| `OffchainLedger`, `OffchainBook`, `OffchainMarket` | `LynxState` | one action per call, on integers of 10^-9 with the source's rounding; a match is a fold over the makers, best price first, as the source sorts them; `threw` records a call that stopped half-way |
| `Accounts` | the `/auth` routes, the account table, the browsers | as `Backend`; `past` is the history the properties speak of |
| `AdminPanel` | panels over `Governance` and a market's resolution | a cookie per admin, sealed with its time; pages ask, the chain answers later |
| `MC*` | instances for TLC | section 3 |
| `*Proofs` | theorems and proofs | section 4 |

A definition whose name ends in a suffix after an underscore (`Enter_Gross`,
`Settled_Forfeit`, ...) is a *mutant*: a plausible bug in the definition that
follows it. None is used by a specification; each documents which change of the
code the property listed with it in `PROJECT.json` detects.

Abstractions common to all modules: rent is left out (vault balances are
"above rent", as `transfer_lamports` computes them), account keys and PDAs are
ids, an account constraint is a guard, overflow of a u64 is a revert and hence
no step (amounts are bounded far below), and time is a clock of whole units
that an action advances. Texts, logs, likes, comments, mails and rendering
have no property and no model.

## 3. What each run checks

| Run | Module, cfg | Expected | What it shows |
|---|---|---|---|
| `governance` | `MCGovernance`, `Governance.cfg` | pass | three keys, three slots, two concurrent proposals over every kind of action, a timelock of one and a life of two units: approvals, cancellation, execution and expiry meet in one second. `SignersWellFormed`, `ApprovedByQuorum`, `EndsOnce`, `GovernedChange` |
| `market` | `MCMarket`, `Market.cfg` | pass | two owners, amounts 7 and 13 (their shares and fees do not divide), SOL and LYNX, binary and ternary, six units of time in which proposal, re-proposal, dispute, finalize and fallback overlap. Money: `PoolAccounting`, `Conservation`, `Solvency`, `PaidByShare`, `EmissionBounded`. Resolution: `ResolvesAsPromised` (refinement), `ProposalsSettle` (liveness) |
| `market_dust` | `MarketDust.cfg` | violation | the dust sweep is refused exactly when there is dust |
| `staking_dao` | `MCDao`, `StakingDao.cfg` | pass | two stakers over two LYNX they can pass to each other, fees of 3 that do not divide, one vote; stakes older than, as old as and younger than the proposal, ties, no votes. `VaultsCoverClaims`, `EarnedByShare`, `VotesWithinRoll`, `MajorityDecides`, `ProposalsClose` |
| `duels` | `MCTwap`, `Duels.cfg` | pass | two players, two duels of 7 or 25 (fees that round to nothing, and unevenly), a cap of 30 that two protocol duels can exceed, over every resolution of the market: `DuelMoneyExact`, `ExposureIsLive`, `SomebodyWins`, `DuelsSettle`. And, in other behaviours of the run, a supply of 4 or 20 LYNX sampled into a ring of two slots, which wraps: `RatioIsOfTheWindow`, `SamplesKeepComing` with two faults |
| `duel_staker_fee` | `DuelStakerFee.cfg` | violation | the stakers' part of a 1v1's fee is never credited: the config account of `resolve_duel_sol` is not mutable |
| `duel_rival` | `DuelRival.cfg` | violation | a protocol duel the rival won can be settled by no transaction |
| `indexer` | `MCIndexer`, `Indexer.cfg` | pass | twelve stories over chain, index, keeper and client: a spot match with an owner who has no LYNX account, a cross, a limit order another entry makes executable, a quote an entry moves, orders put down and taken back in both currencies, a market without its vault, the life of a market with a duel, a vote, a creation, duels offered and taken back, claims. `EscrowCovers`, `QuoteHolds`, `IndexCatchesUp`, `ReadyIsCranked` |
| `backend` | `MCBackend`, `Backend.cfg` | pass | twelve scenarios of three requests and the faults they may meet, the id of a trade that expires among them. `AppliedOnce`, `DailyLimitHeld`, `PaidIsDurable`, `NothingForgotten`, `TwoAdminsAgreed`, `Answered` |
| `deposit_replay` | `MCBackend`, `DepositReplay.cfg` | violation | three tries of one deposit and two periodic saves: an older save that commits last deletes the row of a deposit that was credited, and a restart forgets its signature. `DepositsNotReplayed` |
| `exchange` | `MCExchange`, `Exchange.cfg` | pass | two users and the treasury, six budgets of calls: all on the book, all on a market, on duels, or mixed so that trades price a boost and a sale of emitted LYNX is bought. `MoneyConserved`, `PoolMatchesPositions`, `BookUncrossed`, `NoEntryAfterCutoff` |
| `access` | `MCAccess`, `Access.cfg` | pass | seven stories of four auth requests from two browsers, with crashes, Redis and database errors, timeouts, expiries, a login's message dated ahead and markers that lapse; two stories of two admins' panels, one around a restart, one with a proposal, an oracle call and stale lists. `AccountsKept`, `SpentStaysSpent`, `SignedOut` |

Deadlock checking is off in every run: a market that was swept, a budget that
was spent, or a clock at its bound may stop for good.

**Properties that name their exceptions.** Some promises hold but for causes
that are in the code, which section 5 lists; the property names the cause
instead of weakening itself, so that anything else still violates it.
`AppliedOnce` excuses a credit or trade whose lock lapsed or that a restart
forgot, a trade whose id expired (the server keeps it for five minutes), a signature
its owner had registered, a market created again under its id, a duel loaded
without its status, and, for what a row remembers, a restart on what saves that
overlapped left. `PaidIsDurable` and `NothingForgotten`
except saves that overlapped, a queued save that failed and was swallowed, and a
transaction row found at boot. `Answered` excepts waiters the queue discarded.
`MoneyConserved` and `BookUncrossed` are stated up to a match that threw.
`AccountsKept` excepts an email two registrations raced for, the old wallet of an
account that linked another one (until a restart), and rows of one account on their
way together. `SpentStaysSpent` excepts such rows too; the token of two resets that
both found it before either had hashed its password; a login's signature checked while
Redis failed; and one whose marker lapsed while its message could still be taken,
because it is dated ahead of the server's clock, or while a check of it was on its way
to Redis. `DuelsSettle` excludes duels the keeper names the wrong account for.

Without the exception of a trade's expired id, of the two resets or of the lapsed
markers TLC finds a behaviour that breaks the property.

**Bounds.** `MaxTime`, `MaxClock`, `MaxPool`, `MaxSupply`, `MaxProposals`, `MaxDuels`,
`MaxDaoProposals`, `MaxPositions`, `MaxOrders`, `MaxIndex`, `MaxHits`, `MaxCommands`
(commands to Redis in flight) and `LynxSupply` cap what grows; `Accounts` counts whole
minutes, the window of a login's message and the life of its marker
(`WALLET_LOGIN_WINDOW_MS` = 1), and `trouble.minute` of them may pass; the sets
`Amounts`, `Stakes`, `Fees`, `Ratios`, `Slippages`, `Staked`, `Deadlines`, `Durations`,
`SignerLists`, `Proposable`, `MarketAmounts`, `BookAmounts`, `BookPrices` are the
inputs somebody sends, illegal ones included (a default key in a signer list, a
cutoff after the resolution, a duration below the minimum). Faults (`faults`,
`trouble`, `MaxFaults`) are counted down: one or two of each kind that may strike
at any moment. Two proposals are what a race between proposals needs, two
owners what a division of a pool needs, a fee index step followed by a second
one what a wrong reward debt needs, and three requests what the queue needs to
discard a waiter behind a save in flight; every mutant in `PROJECT.json` is found
within these bounds. The stories and scenarios exist because the product of all
routes with all faults is out of reach; each joins the calls that share state.
Proposals and votes are created only while the clock can still outlive their
windows, so that a bound on the clock never looks like a hang.

**Fairness.** The program itself runs nothing. `Market`, `Dao` and `Duels` assume
that time passes and that the backend's keeper, which tries on every cycle
every account that is ready, eventually sends a crank that stays enabled (weak
fairness of `CutOffMarket`, `FinalizeResolution`, `FinalizeDaoProposal`,
`KeeperSettles`). Module `Client` removes the assumption about the keeper: there
its cycle is modelled step by step, and `ReadyIsCranked` follows from weak
fairness of the reconciliation's interval, of the keeper's own steps and of the
answers to its calls, of the subscription's delivery, of the restart of the
process, and of time (`SystemFairness`), with every failure bounded in number but
not in when it strikes. `SupplyTwap` assumes that time passes and that the
snapshotter's call starts and is answered; the clock does not pass a snapshot
that is due, since a retry is a matter of seconds and an interval of an hour.
`Backend` assumes that a promise settles: the event loop runs what waits for it
and the database and the RPC node answer, with success or failure.
No user, signer, oracle or admin ever has to act: `ProposalsSettle` says that every
single proposal is decided or replaced, not that a market is ever proposed, nor
that an oracle ever stops proposing.

**Known limits of the design, not checked as properties.** The oracle may
re-propose for ever and each time restart the window and shut out the fallback;
approvals of a removed signer keep counting for a pending proposal
(`ApprovedByQuorum` counts keys that approved, not present signers).

## 4. What is proved

`SupplyTwapProofs` (with `Market` and `Duels`), `DaoProofs`, `ClientProofs` (with `Orders`),
`BackendProofs`, `AccessProofs` (with `Governance`), `OffchainBookProofs` and `OffchainProofs`
are checked by TLAPS for every value of the constants that satisfies the assumptions named in
`Governance`, `Market`, `Duels`, `SupplyTwap`, `Staking`, `Dao`, `Orders`, `Indexer`, `Client`,
`Backend`, `Accounts`, `AdminPanel` and the three modules of the off-chain engine (keys that are not the empty key, finitely many owners and stakers,
natural numbers where the code has unsigned ones, positive denominators, windows and
ratios, accounts to begin with whose names are no request's, and calls whose items are
of one kind each: an id that names a deposit names no duel).

* **Sums.** Every ledger here is compared with a sum over accounts, and
  `SumFunctionOnSet` of the community modules is a fold: a `CHOOSE` of a function
  defined by recursion on subsets. `SumProofs` proves what is needed of it without an
  operator parameter: `SubsetInduction` speaks of a set of subsets, and is proved from
  `WFMin` of the library by taking a smallest subset outside of it. From it follow
  that the sum exists, that it splits at an element, changes by what one value
  changes by (`SumUpdate`), grows by a new one (`SumInsert`), is the same over a
  bijection (`SumMoved`), and that the shares of a whole, each rounded down, fit in the
  whole (`SharesFit`).
* **Governance.** The inductive invariant `IInv` is `TypeOK`, `SignersWellFormed`
  and `Quorum`, which adds to `ApprovedByQuorum` that no proposal exists before the
  multisig, that an executed proposal had reached its threshold, and that
  `lowest[p]` never exceeds the threshold in force. The last is what makes the
  quorum inductive: an approval compares with the threshold of the moment, the
  property with the lowest one of the proposal's life. From it follow
  `TypeCorrect`, `SignersStayWellFormed`, `ExecutedWithQuorum` and the action
  properties `ProposalsEndOnce` and `ChangesAreGoverned`. One step per action of
  `Next`; lemmas about sequences (appending a new element or deleting one slot
  keeps a sequence distinct) are stated once.
* **Market.** `TypeCorrect` (no balance is ever negative), `MoneyIsConserved`
  (`Conservation`) and `MarketImplementsOracle`: under the refinement mapping `Stage`,
  `Verdict`, `Age`, `Overdue` of module `Market`, initial states are initial
  states of `OptimisticOracle` and every action is a step of it or a stutter. The
  invariant adds to the types that a proposal has a result and a time in the
  past, which a finalize turns into the verdict.
  The pool and its positions: `TotalsCountPositions` (`PoolAccounting`),
  `WinnersCanBePaid` (`Solvency`), `WinnersArePaidByShare` (`PaidByShare`) and
  `EmissionIsBounded` (`EmissionBounded`) follow from one inductive invariant, `Books`.
  `Solvency` is not inductive alone: a claim takes from the vault a share of the
  pool and from what is due the same share only if the winning total still is the
  sum of the winning positions, claimed or not (`SidesCounted`, `WinningSide`), and if
  nothing was claimed or charged before the resolution (`Untouched`). At the
  resolution the vault holds the pool and the fees are what remains of it, so
  `SharesFit` starts `Solvency`; `MintedByShare` gives the emission the same way.
* **Duels.** `DuelsHaveAWinner` (`SomebodyWins`): `DuelInv` adds to the market's invariant
  that the market proposes and resolves to outcomes it has (`ResultFits`) and that a
  duel is of its market's kind, with two different outcomes of it (`DuelsFit`);
  nothing else says that the result is one of the two that were bet on. The market's
  own steps are those of `Market`, so the proof follows its actions.
  `DuelVaultsAreExact` (`VaultsExact`, the first conjunct of `DuelMoneyExact`) rests on
  `VaultInv`, which pairs each duel with its vault, and on `PotIsShared`: the fees
  and the prize of a pot add up to it, whatever was rounded. `DuelMoneyIsExact` adds
  the sum over purses, vaults, treasury and stakers (`Balanced`), and
  `ExposureIsExact` (`ExposureIsLive`) that the counter of the protocol's exposure is
  the sum over the duels that are on and within its cap (`ExposureInv`).
* **Mint ratio and the whole protocol.** `RatioIsTheWindows` (`RatioIsOfTheWindow`). `Ring`
  says which sample each slot of the ring buffer holds, before and after it first
  wrapped: the one before `next_index` is the last, the others go back from it. The
  code averages the slots from the first on, the property the last samples in the
  order they were taken; `SumMoved` equates the two over the rotation. `FrozenInv` says
  that the ratio a proposal froze, and the ratio an oracle's resolution took from it,
  are those of a window that ended no later than the proposal.
  `DuelsHoldInProtocol` and `MarketHoldsInProtocol` carry the invariants of `Duels` and
  `Market` over to the protocol with snapshots: in `Market` a proposal takes any positive
  ratio (`AnyNext`), in the protocol the one of its tier, which is positive because the
  circulating supply is never negative (`SupplyTyped`).
* **DAO.** `VotesStayWithinRoll`: no vote weighs more than its voter had staked when
  the proposal was created. `VotesWithinRoll` alone is not inductive, since nothing
  in it bounds a vote still to come. `OldStakesOnRoll` does: a stake that is older
  than a proposal is at most what the roll says. It is kept because whatever adds
  to a stake stamps it with the clock (`StakingStep`), and because no proposal is
  younger than the clock (`CreatedByNow`). `MajorityAlwaysDecides` (`MajorityDecides`): the two
  counters of a proposal are the sums of the vote accounts of either side
  (`VotesCounted`), which a vote changes together, once per voter.
* **Staking.** `VaultsAlwaysCover` (`VaultsCoverClaims`) and `FeesAreEarnedByShare`
  (`EarnedByShare`) from `StakingInv`. The property bounds the rounded claims; what is
  inductive is the unrounded one, `OwedBacked`: the vault, scaled, is at least the sum
  of what each staker is owed in units of the index. A fee raises the index by the
  fee over the total stake, rounded down, and the total is the sum of the stakes
  (`StakesBacked`), so all stakers together are owed at most the fee more. `DebtsFit`
  (no stake was settled at an index higher than today's) makes what accrued a plain
  difference, so settling loses less than one unit per staker and never gains.
* **Orders.** `EscrowsStayCovered`: the inductive `IInv` says of each order and its escrow
  what `EscrowCovers` says, with their types. The step that matters is a fill: two
  floors are at most the floor of the sum and at least one less (`QuotientOfSum`), so
  charging part of an order at its own price leaves enough for the rest, and at
  most a lamport more than before.
* **The whole of chain, backend and client.** `ClientProofs` carries `EscrowCovers` over to
  the composition (`EscrowsCoveredInSystem`): every step of it leaves the orders alone,
  lets time pass, or is one instruction that `Orders` accepts (`SystemStep`,
  `LandingExecutes`), so no assumption on the index, the keeper or the client is
  needed. `QuotesHold` (`QuoteHolds`): `QuoteInv` says that from the click to the landing
  the transaction carries the limit built from its quote, and the program compares
  that limit with its own pool, whose numbers are natural ones (`MarketsTyped`).
* **Two admins.** `RequestsNeedTwoAdmins` (`TwoAdminsAgreed`): an approval is judged by what the
  map says, and after a restart the map is what Redis had, so `ApprovalsInv` says the
  same of the map, of the copies and of every command still on its way: whoever a
  request names did speak for its id, and its proposer is not among its approvers.

* **Daily limit.** `DailyLimitIsHeld` (`DailyLimitHeld`): an execution counts its credit
  before an `await` and gives it after one, and its lock may expire in between. So
  `DailyInv` adds to what the wallet was credited the executions that have counted and
  not yet given (`counted`), and those that found themselves over the limit and did
  not take their count back yet (`over`); the first sum is within the limit, both
  together are at most the counter.
* **Persistence.** `NothingIsForgotten` (`NothingForgotten`): `WrittenInv` says that as long as
  saves follow one another, either none is in flight and the database agrees with the
  last snapshot (`Agrees`), or exactly one is, computed from that snapshot, and
  the database agrees with the snapshot it started from or, once committed, with the
  one it will leave (`SaveAlone`). `PaidStaysDebited` (`PaidIsDurable`): `DebitInv` follows the
  debit of a withdrawal from the store into the rows of its save and into the
  database, where it is before the transfer can be sent; `StoreInv` (the database never
  holds more of the wallet than the store) is why no later save takes it back.
* **Once.** `HappensOnce` (`AppliedOnce`), from `OnceInv` together with the invariants above,
  one conjunct per way the code remembers. `RowOnce`: a claim, a refund, a resolution or
  the end of a duel is remembered by the status of its row, and the store, the
  database and every save in flight hold the money and the status of one moment
  (`Fresh`); `CommitFresh` is the step that matters, a commit of changed rows only.
  `DepositOnce` says the same of a signature, and that from its mark on only one
  request verifies it. `VoteOnce`: the vote's row comes first and is not part of the
  save, so the weight may be lost but not counted twice. `LockOnce`: for trades and
  credits nothing in the database remembers; whoever passed the checks holds the
  lock until the effect, and after the effect nobody passes them while the trade's id is
  remembered. What the
  proof showed: with saves that overlap `RowOnce` and `DepositOnce` are not inductive, and
  five requests that break `AppliedOnce` exist (run `deposit_replay`), which three
  requests could not show.
* **Signing out.** `OutIsOut` (`SignedOut`): on the site, `OutFits` says that from the click
  on a logout sent with nothing else on its way the browser waits for that logout
  alone, so no answer that comes late can sign it in; a session is answered only to
  the routes that give one. `OutIsQuiet` says the same of a panel.
* **Spent proofs.** `SpentIsSpent` (`SpentStaysSpent`), one invariant for each kind of proof.
  A mailed token: `SpendInv` follows it from the account in the store (`SpendingFits`) into
  the row that is on its way and into the table (`SpentFits`), so that a restart, which
  loads the table, does not bring it back. A reset token is the name of the request
  it was made for and stays with the account that request found (`TokenFits`), hence
  no step gives an account a token it lost (`GoneStays`). A reset holds the token it found
  while it hashes the password and clears it after: two of them may hold one token,
  which the property names (`shared`). Any other reset is
  alone with its token until it clears it (`HashFits`, `AloneWith`), so two requests do not
  spend one (`OneSpender`) while the rows of an account follow one another (`OneSave`).
  A login's signature: who got past the check has its marker in Redis for as long as
  its message may be old (`SignaturesFit`, `Kept`), unless Redis failed then; a marker that
  lapses before the message is too old for every check is one of the causes named.
  A refresh token: what
  a logout revoked is in Redis, which decides (`RevokedFits`). A code: the counters of
  the codes that let somebody in are at most the consumed one (`CodesConsumed`).
  Every route is one of a few kinds of step: it moves a request on (`MovesKeep`), edits an
  account (`EditsKeep`), writes a row (`WrittenKeeps`), or the accounts expire or are
  loaded again (`ReloadsKeep`).

* **Off-chain engine.** `MarketInvariant`: `MarketInv` says of the whole store that it is well
  formed (`StoreFits`) and that it balances (`Balanced`). The code fills orders, pays stakers
  and ends duels in loops; the modules write them as folds, and a fold stays in a set
  that each of its steps stays in (`FoldExists`, by an induction over sets of numbers
  that needs no operator parameter). So a lemma about a loop names the set of stores the
  loop may reach, and one pass of it is an ordinary case split. `MoneyIsConserved`
  (`MoneyConserved`): every operation but two leaves the money of each currency (`Total`)
  exactly as it was. A trade on the book may charge a buyer up to a unit more than its
  lock, once (`OrdersSlack`); a resolution moves the total by half a unit for each of two
  fees and a net pool in the market's currency, or for each of three parts of the LYNX
  a SOL market mints, never both in one currency (`Ends`). That is the bound `Rounding` states:
  three halves of a unit for each resolved market, a unit for each buy. It also
  needs that an order's lock, what it spent and its status agree, which `StoreFits` says. `PoolsMatch` (`PoolMatchesPositions`): the
  sums over positions are part of `StoreFits`; that all winners' payouts fit the net pool
  but for half a unit each follows from dividing by the weight they sum to.
  `UncrossedAlways` (`BookUncrossed`): a taker meets every order it crosses until it
  is filled itself, so one that rests has filled them all; an order that throws half-way
  sets `threw`, which the property excepts. `EntriesStop` (`NoEntryAfterCutoff`) follows each call that can reach a pool. The
  theorems speak of `MarketSpec`, the engine without a limit on its calls; the behaviours
  of `MCSpec`, which the run checks, are behaviours of it in which the calls run out.

Only model-checked:

* `AccountsKept` of `Accounts`. It speaks of what the stories make happen: for any calls it
  would also have to except the account made for a wallet that later moved to
  another one. A restart forgets the old wallet's entry, and the next login with it
  makes a second account with the same address for mail.
* The liveness properties: liveness under fairness and `ENABLED` are out of the
  prover's reach.

## 5. Findings

`PROJECT.json` quotes each with its lines. Shown by a run that expects the
violation: the dust that cannot be swept (`lib.rs:1242`), the duel fee that no staker
gets (`lib.rs:2587`), the protocol duel whose rival wins (`lib.rs:2630`) and the deposit
credited again (`persistence.ts:607`). Met while modelling, and named as exceptions of
the properties above: the empty key that `AddSigner` lets in and `SetThreshold` counts
(`lib.rs:178`), the keeper's account for a duel the protocol won
(`chain.ts:969`) and its same-tick settlement (`chain.ts:832`); the column types and
the statuses that saves strip (`persistence.ts:753`, `:799`); saves that overlap,
waiters that are discarded and a failure that is swallowed (`server.ts:362-392`,
`:2540`); the lock token kept per process (`server.ts:36`); the reset token two requests
find (`server.ts:1425`) and the login's message dated ahead of its marker (`:1488`); the match that throws
after crediting (`state.ts:1334`); the floor of a fill's reserve (`lib.rs:937`); and
two comments the code has outgrown (`lib.rs:217-219`, `lib.rs:1669-1670`).

## 6. Not modelled

* Deployment, migrations and one-off scripts (but `twap_keeper.cjs`): configuration
  and pure I/O.
* Rendering, forms and the deposit and withdrawal dialogs of the web client: no
  state of the system.
* Cryptography (hashes, JWTs, wallet signatures, sealing of cookies): a proof of
  identity is a value that either fits or does not.
* Unlinking a wallet, the generic per-IP rate limiter, likes, comments,
  notifications: single steps that interleave with nothing checked here.
* `init_protocol` and the other one-time initialisations, but `init_multisig`,
  `init_supply_twap` and the LYNX vault of a market.
* Several backend processes at once: the code is deployed as one, and the lock's
  fallback in memory would not exclude a second one.
