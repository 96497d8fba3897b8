---------------------------- MODULE MCGovernance ----------------------------
(***************************************************************************)
(* A small multisig for TLC: three keys that can sign, three slots, two    *)
(* proposals at a time over the actions that change who may approve, and   *)
(* a clock long enough for a proposal to reach its threshold late, wait    *)
(* out the timelock, and expire.                                           *)
(***************************************************************************)
EXTENDS Governance

CONSTANTS a, b, c, m1

MCKeys == {a, b, c}
MCMarkets == {m1}
MCResults == {"Yes"}

MCSignerLists ==
  {<<a>>, <<a, b>>, <<a, a>>, <<a, NoKey>>, <<>>, <<a, b, c, a>>}

MCProposable ==
       [type : {"AddSigner"}, key : {c, NoKey}]
  \cup [type : {"RemoveSigner"}, key : {a}]
  \cup [type : {"TransferAdmin"}, key : {b}]
  \cup [type : {"SetPaused"}, paused : {TRUE}]
  \cup [type : {"SetThreshold"}, threshold : {1, 2}]
  \cup [type : {"ResolveMarketAdmin"}, market : MCMarkets, result : MCResults]
=============================================================================
