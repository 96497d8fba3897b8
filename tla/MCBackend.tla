----------------------------- MODULE MCBackend -----------------------------
(***************************************************************************)
(* A small backend for TLC: three requests and the faults they may meet,   *)
(* one scenario for each kind of trouble the routes can make each other,   *)
(* and five requests for a deposit whose row an older save deletes.        *)
(***************************************************************************)
EXTENDS Backend

CONSTANTS r1, r2, r3, r4, r5, a1, a2

NoFaults == [crash |-> 0, ttl |-> 0, redis |-> 0, db |-> 0, rpc |-> 0, expiry |-> 0]
Call(route, item) == [route |-> route, item |-> item]
Three(x, y, z) == (r1 :> x) @@ (r2 :> y) @@ (r3 :> z)
Scenario(x, y, z, f) == [calls |-> Three(x, y, z), faults |-> f]

MCScenarios == {
  \* one signature, deposited twice and registered by its owner
  Scenario(Call("deposit", "sig"), Call("deposit", "sig"), Call("transactions", "sig"),
           [NoFaults EXCEPT !.crash = 2, !.rpc = 1]),
  \* one credit executed twice, and another one over the day's limit
  Scenario(Call("credit", "credit1"), Call("credit", "credit1"), Call("credit", "credit2"),
           [NoFaults EXCEPT !.ttl = 1]),
  Scenario(Call("credit", "credit1"), Call("credit", "credit1"), Call("timer", "none"),
           [NoFaults EXCEPT !.crash = 1, !.redis = 1, !.expiry = 1]),
  \* three calls for the money of two
  Scenario(Call("withdraw", "out1"), Call("withdraw", "out2"), Call("orders", "order"),
           [NoFaults EXCEPT !.crash = 1, !.db = 1, !.rpc = 1]),
  \* a withdrawal behind two saves
  Scenario(Call("withdraw", "out1"), Call("duels", "duel"), Call("transactions", "sig"),
           [NoFaults EXCEPT !.db = 1]),
  \* a duel accepted and cancelled
  Scenario(Call("accept", "duel"), Call("cancelDuel", "duel"), Call("cancelDuel", "duel"),
           [NoFaults EXCEPT !.crash = 1, !.ttl = 1]),
  \* a vote sent twice
  Scenario(Call("vote", "proposal"), Call("vote", "proposal"), Call("orders", "order"),
           [NoFaults EXCEPT !.crash = 1, !.ttl = 1, !.redis = 1]),
  \* a trade sent twice with one client id, and maybe after it expired
  Scenario(Call("trades", "trade"), Call("trades", "trade"), Call("boost", "boost"),
           [NoFaults EXCEPT !.ttl = 1, !.crash = 1, !.expiry = 1]),
  \* a market resolved twice, and created again
  Scenario(Call("resolve", "market"), Call("resolve", "market"), Call("markets", "market"),
           [NoFaults EXCEPT !.crash = 1]),
  \* refunds and claims around a shutdown
  Scenario(Call("claim", "position"), Call("cancelOrder", "order"), Call("shutdown", "none"),
           [NoFaults EXCEPT !.db = 1]),
  Scenario(Call("claim", "position"), Call("claim", "position"), Call("shutdown", "none"),
           [NoFaults EXCEPT !.crash = 1]),
  \* three calls under one lock
  Scenario(Call("stake", "staked"), Call("unstake", "staked"), Call("rewards", "reward"),
           [NoFaults EXCEPT !.ttl = 1, !.crash = 1])}

MCRows == {"wallet", "sig", "out1", "out2", "duel", "proposal", "market", "position",
           "order", "reward"}
MCBatched == {"sig", "out1", "out2"}
MCDuels == {"duel"}
MCCredits == {"credit1", "credit2"}
MCResolutions == {"market"}
MCAdmins == {a1, a2}
MCRequests == {r1, r2, r3}

\* A deposit tried before and after its finality, between two saves.
ReplayRequests == {r1, r2, r3, r4, r5}
ReplayScenarios == {
  [calls |-> [r \in ReplayRequests |->
                IF r \in {r1, r2, r3} THEN Call("deposit", "sig") ELSE Call("timer", "none")],
   faults |-> [NoFaults EXCEPT !.crash = 1, !.rpc = 1]]}
ReplayKeys == {<<"none", "none">>}

MCKeys == {LockKey(s.calls[r]) : s \in MCScenarios, r \in MCRequests}
=============================================================================
