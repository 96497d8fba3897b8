----------------------------- MODULE SupplyTwap -----------------------------
(***************************************************************************)
(* The mint ratio of a market: a ring buffer of samples of the circulating *)
(* LYNX, taken by a permissionless crank at most once in an interval, and  *)
(* the tier of their average, frozen when the market's resolution is       *)
(* proposed.  The market and its duels, which mint at that ratio and so    *)
(* move the supply, are modules Market and Duels; the rest of the protocol *)
(* mints and burns at will.                                                *)
(*                                                                         *)
(* Snapshotter is the service that sends the crank (twap_keeper.cjs).      *)
(***************************************************************************)
EXTENDS Duels

CONSTANTS
  SnapshotCount,     \* SUPPLY_SNAPSHOT_COUNT
  SnapshotInterval,  \* SUPPLY_SNAPSHOT_INTERVAL_SECONDS
  KeeperInterval,    \* SNAPSHOT_INTERVAL_MS
  Retries,           \* RETRY_DELAYS_MS.length
  MicroLynxPerLynx,  \* MICRO_LYNX_PER_LYNX
  TierWidth,         \* TIER_1_MAX_LYNX; TIER_n_MAX_LYNX is n times as much
  InitialSupply,     \* the LYNX there is to begin with
  Flow,              \* bound: what is minted or burned elsewhere at a time
  MaxSupply,         \* bound: the LYNX ever minted elsewhere
  MaxFaults          \* bound: failures of the snapshotter

ASSUME SupplyAssumption ==
  /\ SnapshotCount \in Nat \ {0}
  /\ SnapshotInterval \in Nat \ {0}
  /\ KeeperInterval >= SnapshotInterval
  /\ Retries \in Nat
  /\ MicroLynxPerLynx \in Nat \ {0}
  /\ TierWidth \in Nat \ {0}
  /\ InitialSupply \in Nat
  /\ Flow \in Nat

VARIABLES
  elsewhere,    \* what the rest of the protocol minted and burned
  twap,         \* the CirculatingSupplyTwap account
  taken,        \* history: every sample with its time, oldest first
  snapshotter,  \* the service: is it up, when it wakes, the attempts it made
  faults,       \* bound: the failures still to come
  sampling      \* bound: is the supply sampled in this behaviour

supplyVars == <<elsewhere, twap, taken, snapshotter, faults, sampling>>
protocolVars == <<allVars, supplyVars>>

Down == [up |-> FALSE, wakes |-> 0, attempts |-> 0]
NoTwap ==
  [exists |-> FALSE, snapshots |-> [i \in 1..SnapshotCount |-> 0], count |-> 0,
   next_index |-> 0, last_snapshot_ts |-> 0]

SupplyInit ==
  /\ DuelsInit
  /\ elsewhere = [supply |-> InitialSupply, burned |-> 0]
  /\ twap = NoTwap
  /\ taken = << >>
  /\ snapshotter = Down
  /\ faults = MaxFaults
  /\ sampling \in BOOLEAN

\* Of config.total_lynx_supply and total_lynx_burned, what this market and its
\* duels added, and the rest.
TotalLynxSupply ==
  elsewhere.supply + duel_lynx + SumFunction(minted)
TotalLynxBurned ==
  elsewhere.burned + (IF Exists THEN market.burned_lynx ELSE 0)

\* saturating_sub, and never 0.
InstantaneousCirculatingSupply ==
  IF TotalLynxSupply > TotalLynxBurned THEN TotalLynxSupply - TotalLynxBurned ELSE 1

MintRatios == <<10000, 8000, 7000, 6000, 5000, 4000, 3000, 2000, 1000, 500, 250>>
RatioForCirculating(circulating) ==
  LET lynx == circulating \div MicroLynxPerLynx
      tier == lynx \div TierWidth + 1
  IN  MintRatios[IF tier < 11 THEN tier ELSE 11]

Mean(samples) == SumFunction(samples) \div Len(samples)

Average_WholeBuffer == SumFunction(twap.snapshots) \div SnapshotCount
\* Of the slots written so far; the ring fills from its first slot.
Average == Mean(SubSeq(twap.snapshots, 1, twap.count))

MintRatioBpsTwap ==
  RatioForCirculating(IF twap.count > 0 THEN Average ELSE InstantaneousCirculatingSupply)
-----------------------------------------------------------------------------
\* The PDA can be initialised once.
InitSupplyTwap ==
  /\ ~twap.exists
  /\ twap' = [NoTwap EXCEPT !.exists = TRUE]
  /\ UNCHANGED <<allVars, elsewhere, taken, snapshotter, faults, sampling>>

MaySnapshot == twap.exists /\ now >= twap.last_snapshot_ts + SnapshotInterval

RecordSupplySnapshot ==
  /\ MaySnapshot
  /\ twap' = [twap EXCEPT
       !.snapshots[twap.next_index + 1] = InstantaneousCirculatingSupply,
       !.next_index = (@ + 1) % SnapshotCount,
       !.count = IF @ < SnapshotCount THEN @ + 1 ELSE @,
       !.last_snapshot_ts = now]
  /\ taken' = Append(taken, [ts |-> now, supply |-> InstantaneousCirculatingSupply])

\* Anybody's.
SomebodySnapshots ==
  /\ sampling
  /\ RecordSupplySnapshot
  /\ UNCHANGED <<allVars, elsewhere, snapshotter, faults, sampling>>

\* Other markets mint what they emit and burn what is entered in LYNX.
MintElsewhere ==
  /\ elsewhere.supply + Flow <= MaxSupply
  /\ elsewhere' = [elsewhere EXCEPT !.supply = @ + Flow]

BurnElsewhere ==
  /\ elsewhere.burned + Flow < elsewhere.supply
  /\ elsewhere' = [elsewhere EXCEPT !.burned = @ + Flow]

SupplyMoves ==
  /\ sampling
  /\ MintElsewhere \/ BurnElsewhere
  /\ UNCHANGED <<allVars, twap, taken, snapshotter, faults, sampling>>
-----------------------------------------------------------------------------
Asleep_ForGood == [snapshotter EXCEPT !.wakes = MaxTime + 1, !.attempts = 0]
\* The loop of main: another interval, whatever became of this sample.
Asleep == [snapshotter EXCEPT !.wakes = now + KeeperInterval, !.attempts = 0]

IsAwake == snapshotter.up /\ now >= snapshotter.wakes

SnapshotterRests == UNCHANGED <<allVars, elsewhere, sampling>>

\* It takes a sample at once, and does not start without the account.
SnapshotterStarts ==
  /\ sampling
  /\ ~snapshotter.up
  /\ twap.exists
  /\ snapshotter' = [up |-> TRUE, wakes |-> now, attempts |-> 0]
  /\ SnapshotterRests
  /\ UNCHANGED <<twap, taken, faults>>

Recorded ==
  /\ IsAwake
  /\ RecordSupplySnapshot
  /\ snapshotter' = Asleep
  /\ SnapshotterRests
  /\ UNCHANGED faults

\* SnapshotTooSoon is no error: somebody else's sample stands for this one.
TooSoon ==
  /\ IsAwake
  /\ ~MaySnapshot
  /\ snapshotter' = Asleep
  /\ SnapshotterRests
  /\ UNCHANGED <<twap, taken, faults>>

\* sendAndConfirmTransaction throws, whether or not the transaction landed; it
\* is tried again, and after the last delay it waits for the next interval.
SnapshotFails ==
  /\ IsAwake
  /\ faults > 0
  /\ faults' = faults - 1
  /\ RecordSupplySnapshot \/ UNCHANGED <<twap, taken>>
  /\ snapshotter' = IF snapshotter.attempts < Retries
                      THEN [snapshotter EXCEPT !.attempts = @ + 1] ELSE Asleep
  /\ SnapshotterRests

SnapshotterCrashes ==
  /\ snapshotter.up
  /\ faults > 0
  /\ faults' = faults - 1
  /\ snapshotter' = Down
  /\ SnapshotterRests
  /\ UNCHANGED <<twap, taken>>
-----------------------------------------------------------------------------
\* The instructions that freeze a ratio need the account.
FrozenRatios == IF twap.exists THEN {MintRatioBpsTwap} ELSE {}

\* Waking up, every attempt and a restart take minutes, a unit of the clock is an
\* interval: the clock does not move on before they are done.
SnapshotIsDue == sampling /\ twap.exists /\ (snapshotter.up => IsAwake)

MarketStep ==
  /\ NextAt(FrozenRatios)
  /\ now' > now => ~SnapshotIsDue
  /\ UNCHANGED <<duelVars, supplyVars>>

SnapshotterAnswered == Recorded \/ TooSoon

ProtocolNext ==
  \/ DuelStep /\ UNCHANGED supplyVars
  \/ MarketStep
  \/ InitSupplyTwap
  \/ SomebodySnapshots
  \/ SupplyMoves
  \/ SnapshotterStarts \/ SnapshotterAnswered \/ SnapshotFails \/ SnapshotterCrashes

\* Time passes, the keeper tries every active duel of a resolved market on every
\* cycle, and the snapshotter's supervisor and its timer run.
ProtocolFairness ==
  /\ WF_protocolVars(Tick /\ ~SnapshotIsDue /\ UNCHANGED <<duelVars, supplyVars>>)
  /\ WF_protocolVars(SnapshotterStarts)
  /\ WF_protocolVars(SnapshotterAnswered)
  /\ \A d \in 1..MaxDuels :
       WF_protocolVars(d \in DOMAIN duels /\ KeeperSettles(d) /\ UNCHANGED supplyVars)

ProtocolSpec == SupplyInit /\ [][ProtocolNext]_protocolVars /\ ProtocolFairness
-----------------------------------------------------------------------------
\* The samples among the first k that an average of the ring must be of.
Window(k) ==
  LET from == IF k > SnapshotCount THEN k - SnapshotCount + 1 ELSE 1
  IN  [i \in 1..(k - from + 1) |-> taken[from + i - 1].supply]

\* The samples that counted when a market was proposed: any sample of the same
\* second may have come before or after it.
CountedAt(ts) ==
  {k \in 0..Len(taken) :
     /\ \A i \in 1..k : taken[i].ts <= ts
     /\ \A i \in (k + 1)..Len(taken) : taken[i].ts >= ts}

\* SC-01: however the ring wraps and whoever takes the samples, its average is
\* that of the latest samples, taken at least an interval apart; and what a
\* market the oracle resolved mints at is the tier of the samples that were in
\* when it was proposed, whatever was minted, burned or sampled since.
RatioIsOfTheWindow ==
  /\ \A i \in 2..Len(taken) : taken[i].ts - taken[i - 1].ts >= SnapshotInterval
  /\ taken # << >> => MintRatioBpsTwap = RatioForCirculating(Mean(Window(Len(taken))))
  /\ Exists /\ market.status = "Resolved" /\ IsSol /\ market.resolved_by = Oracle =>
       \E k \in CountedAt(market.proposed_ts) :
         k = 0 \/ market.mint_ratio_bps = RatioForCirculating(Mean(Window(k)))

\* One failed interval does not stop the samples: whatever fails, somebody
\* samples first or the service is restarted, the next one follows.
SamplesKeepComing ==
  \A t \in 0..(MaxTime - KeeperInterval - MaxFaults) :
    (sampling /\ twap.exists /\ twap.last_snapshot_ts = t /\ now = t)
      ~> twap.last_snapshot_ts > t
=============================================================================
