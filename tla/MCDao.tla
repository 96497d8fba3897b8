------------------------------- MODULE MCDao -------------------------------
(***************************************************************************)
(* Two stakers over two LYNX, fees that do not divide by the stakes, and *)
(* one proposal in a clock where stakes are older than, as old as and      *)
(* younger than it.                                                        *)
(***************************************************************************)
EXTENDS Dao

CONSTANTS u1, u2

MCStakers == {u1, u2}
MCStakeAmounts == {1, 2}
MCFees == {3}
MCDurations == {0, 1}
=============================================================================
