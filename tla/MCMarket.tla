------------------------------ MODULE MCMarket ------------------------------
(***************************************************************************)
(* A small market for TLC: two owners, entries whose shares do not divide  *)
(* the pool, the market's life within six ticks of the clock.  The one     *)
(* deadline pair makes the fallback possible while a dispute still is.     *)
(***************************************************************************)
EXTENDS Market

CONSTANTS u1, u2

MCOwners == {u1, u2}
MCAmounts == {7, 13}
MCRatios == {8000}
MCSlippages == {5000, 10000}
MCStaked == {0, 3}
MCDeadlines == {<<2, 3>>, <<3, 2>>}
=============================================================================
