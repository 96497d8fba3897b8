------------------------------- MODULE MCTwap -------------------------------
(***************************************************************************)
(* Duels and the TWAP for TLC.  A behaviour has either two duels, whose    *)
(* LYNX is minted only once the ratio is fixed, or a supply that moves and *)
(* is sampled: four or twenty LYNX, which with their averages are in three *)
(* tiers.                                                                  *)
(***************************************************************************)
EXTENDS SupplyTwap

CONSTANTS u1, u2

MCOwners == {u1, u2}
MCNone == {}
MCStaked == {0, 3}
MCDeadlines == {<<3, 4>>}
MCStakes == {7, 25}

MCNext == ProtocolNext /\ (sampling => duels' = << >>)

MCSpec == SupplyInit /\ [][MCNext]_protocolVars /\ ProtocolFairness
=============================================================================
