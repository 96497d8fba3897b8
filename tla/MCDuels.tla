------------------------------ MODULE MCDuels ------------------------------
(***************************************************************************)
(* Two players and two duels over one market that nobody else enters, with *)
(* bets whose fees round down and a cap that two protocol duels exceed.    *)
(***************************************************************************)
EXTENDS Duels

CONSTANTS u1, u2

MCOwners == {u1, u2}
MCNone == {}
MCRatios == {8000}
MCStaked == {0, 3}
MCDeadlines == {<<3, 4>>}
MCStakes == {7, 25}
=============================================================================
