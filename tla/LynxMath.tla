------------------------------ MODULE LynxMath ------------------------------
(***************************************************************************)
(* The integer arithmetic every instruction of the Lynx program shares     *)
(* (lib.rs, bps and mul_div) and the fee and split rates of constants.rs.  *)
(* A product is taken in u128 and the quotient rounds down; a result that  *)
(* does not fit a u64 reverts the transaction, so it changes nothing.      *)
(***************************************************************************)
EXTENDS Integers

BPS_DENOMINATOR == 10000

EVENT_PROTOCOL_FEE_BPS == 1000
STAKER_REWARD_FEE_BPS == 500
TREASURY_EVENT_FEE_BPS == 500
LYNX_EVENT_BURN_BPS == 1500

LYNX_PARTICIPANT_BPS == 3000
LYNX_TREASURY_BPS == 1000
LYNX_INITIAL_SALE_BPS == 6000

MulDiv(a, b, c) == (a * b) \div c

Bps(amount, basisPoints) == MulDiv(amount, basisPoints, BPS_DENOMINATOR)

PayoutPool_Gross(pool) == pool

\* What the winners of a pool share: the pool less the protocol's 10%.
PayoutPool(pool) == Bps(pool, BPS_DENOMINATOR - EVENT_PROTOCOL_FEE_BPS)
=============================================================================
