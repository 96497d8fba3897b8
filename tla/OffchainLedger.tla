--------------------------- MODULE OffchainLedger ---------------------------
(* The money kept by LynxState (src/backend/src/state.ts): the wallets and   *)
(* the treasury, and the helpers every operation of the store is built of.   *)
(* Amounts count units of 10^-9, the grain of roundAmount; a rate is a       *)
(* percentage and a price a fraction of PriceUnit.  The operators take and   *)
(* return the books, the record of wallets and treasury, because one call    *)
(* of the store is one synchronous step that applies many of them.           *)
EXTENDS Integers, Sequences, FiniteSets, SequencesExt

CONSTANTS
  WalletSeq,         \* the wallets, in the order of the store's Map
  TREASURY_WALLET,   \* the protocol's own wallet, one of them
  OpeningBalance,    \* the [balance, staked] of each wallet, deposited before
  PriceUnit,         \* a price of 1
  TierUnit           \* the 500_000 LYNX that separate the mint tiers

VARIABLES wallets, treasury

ASSUME LedgerAssumption ==
  /\ WalletSeq \in Seq(Range(WalletSeq)) /\ TREASURY_WALLET \in Range(WalletSeq)
  /\ OpeningBalance \in [Range(WalletSeq) -> [balance : [{"SOL", "LYNX"} -> Nat], staked : Nat]]
  /\ PriceUnit \in Nat \ {0}
  /\ TierUnit \in Nat \ {0}

ledgerVars == <<wallets, treasury>>

Wallets == Range(WalletSeq)
Currency == {"SOL", "LYNX"}

EmptyTreasury == [SOL |-> 0, LYNX |-> 0, lynxForInitialSale |-> 0,
                  lynxBurned |-> 0, lynxTotalMinted |-> 0, protocolDuelSol |-> 0]

Books == [wallets |-> wallets, treasury |-> treasury]

LedgerInit ==
  /\ wallets = [w \in Wallets |->
                 [balance |-> OpeningBalance[w].balance, staked |-> OpeningBalance[w].staked,
                  rewards |-> [c \in Currency |-> 0]]]
  /\ treasury = EmptyTreasury

\* roundAmount of the quotient n / d, for n >= 0: Math.round, half up.
roundAmount(n, d) == (2 * n + d) \div (2 * d)

STAKER_REWARD_FEE == 5
TREASURY_EVENT_FEE == 5
LYNX_EVENT_BURN == 15
LYNX_PARTICIPANT_SHARE == 30
LYNX_TREASURY_SHARE == 10
LYNX_INITIAL_SALE_SHARE == 60

Percent(amount, rate) == roundAmount(amount * rate, 100)

\* LYNX_MINT_TIERS, the ratios in thousandths, and the floor above them.
LYNX_MINT_TIERS == <<1000, 800, 700, 600, 500, 400, 300, 200, 100, 50>>
LYNX_MINT_RATIO_FLOOR == 25

getMintRatio(circulatingSupply) ==
  LET tier == circulatingSupply \div TierUnit + 1
  IN  IF tier < 1 THEN LYNX_MINT_TIERS[1]
      ELSE IF tier > Len(LYNX_MINT_TIERS) THEN LYNX_MINT_RATIO_FLOOR
      ELSE LYNX_MINT_TIERS[tier]

credit(b, w, c, amount) == [b EXCEPT !.wallets[w].balance[c] = @ + amount]

\* What debit requires of the wallet, and what it takes.
CanDebit(b, w, c, amount) == b.wallets[w].balance[c] >= amount
debit(b, w, c, amount) == [b EXCEPT !.wallets[w].balance[c] = @ - amount]

\* The part of a LYNX stake that is destroyed, and the counter that says so.
Burn(c, amount) == IF c = "LYNX" THEN Percent(amount, LYNX_EVENT_BURN) ELSE 0
CountBurn(b, amount) == [b EXCEPT !.treasury.lynxBurned = @ + amount]

getCirculatingSupply(b) == b.treasury.lynxTotalMinted - b.treasury.lynxBurned

SumOver(f(_), S) == SumFunctionOnSet([x \in S |-> f(x)], S)

\* Rounded shares of amount for a set of places in a list: the last one takes
\* what the rounding of the others left.
SharesOf(amount, S, weights) ==
  LET rounded == [i \in S |-> roundAmount(amount * weights[i], SumFunctionOnSet(weights, S))]
  IN  [i \in S |-> IF i # Max(S) THEN rounded[i]
                   ELSE amount - SumFunctionOnSet(rounded, S \ {i})]

distributeStakingRewards(b, amount, c) ==
  LET stakers == {k \in DOMAIN WalletSeq : b.wallets[WalletSeq[k]].staked > 0}
      shares == SharesOf(amount, stakers, [k \in stakers |-> b.wallets[WalletSeq[k]].staked])
      Of(w) == SumFunctionOnSet(shares, {k \in stakers : WalletSeq[k] = w})
  IN  IF stakers = {}
      THEN [b EXCEPT !.treasury[c] = @ + amount]
      ELSE [b EXCEPT !.wallets = [w \in Wallets |->
                                    [b.wallets[w] EXCEPT !.rewards[c] = @ + Of(w)]]]

\* The two halves of the protocol's fee on an event or on a duel's pot.
PayEventFees(b, pot, c) ==
  distributeStakingRewards(
    [b EXCEPT !.treasury[c] = @ + Percent(pot, TREASURY_EVENT_FEE)],
    Percent(pot, STAKER_REWARD_FEE), c)

SetBooks(b) == wallets' = b.wallets /\ treasury' = b.treasury

-----------------------------------------------------------------------------
(* Staking: the operations of the store on one wallet.                       *)

stake(w, amount) ==
  LET b == debit(Books, w, "LYNX", amount)
  IN  /\ CanDebit(Books, w, "LYNX", amount)
      /\ SetBooks([b EXCEPT !.wallets[w].staked = @ + amount])

unstake(w, amount) ==
  /\ wallets[w].staked >= amount
  /\ SetBooks([credit(Books, w, "LYNX", amount) EXCEPT !.wallets[w].staked = @ - amount])

claimRewards(w) ==
  LET r == wallets[w].rewards
      b == credit(credit(Books, w, "SOL", r["SOL"]), w, "LYNX", r["LYNX"])
  IN  SetBooks([b EXCEPT !.wallets[w].rewards = [c \in Currency |-> 0]])

-----------------------------------------------------------------------------
\* What the wallets and the treasury hold of a currency.
HeldInWallets(c) ==
  SumOver(LAMBDA w: wallets[w].balance[c] + wallets[w].rewards[c]
                    + IF c = "LYNX" THEN wallets[w].staked ELSE 0, Wallets)

\* What was brought in, plus what the protocol minted, less what it burned.
BroughtIn(c) ==
  SumOver(LAMBDA w: OpeningBalance[w].balance[c]
                    + IF c = "LYNX" THEN OpeningBalance[w].staked ELSE 0, Wallets)
  + IF c = "LYNX" THEN getCirculatingSupply(Books) ELSE 0
=============================================================================
