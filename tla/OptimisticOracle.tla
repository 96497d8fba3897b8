-------------------------- MODULE OptimisticOracle --------------------------
(***************************************************************************)
(* What the optimistic resolution of a market promises, without the        *)
(* accounts and timestamps it is built from.  A proposed result becomes    *)
(* the verdict only after it stood unopposed for the whole window, one     *)
(* tick of the clock at a time; a new proposal starts the window again and *)
(* an objection withdraws it.  Only past the oracle's deadline, and with   *)
(* no proposal standing, may somebody else decide.  A verdict is final.    *)
(***************************************************************************)
EXTENDS Integers

CONSTANTS
  Results,  \* the possible verdicts
  Window    \* how long a proposal must stand

VARIABLES
  stage,    \* "Undecided", "Proposed" or "Final"
  verdict,  \* the result proposed or final, or "Unresolved"
  age,      \* how long the proposal has stood
  overdue   \* the oracle's deadline has passed

vars == <<stage, verdict, age, overdue>>

Init ==
  /\ stage = "Undecided"
  /\ verdict = "Unresolved"
  /\ age = 0
  /\ overdue = FALSE

\* The clock: a standing proposal grows older, a deadline may pass.
Pass ==
  /\ age' = IF stage = "Proposed" THEN age + 1 ELSE age
  /\ overdue => overdue'
  /\ overdue' \in BOOLEAN
  /\ UNCHANGED <<stage, verdict>>

Propose(r) ==
  /\ stage # "Final"
  /\ stage' = "Proposed"
  /\ verdict' = r
  /\ age' = 0
  /\ UNCHANGED overdue

Object ==
  /\ stage = "Proposed"
  /\ age < Window
  /\ stage' = "Undecided"
  /\ verdict' = "Unresolved"
  /\ age' = 0
  /\ UNCHANGED overdue

Confirm ==
  /\ stage = "Proposed"
  /\ age >= Window
  /\ stage' = "Final"
  /\ age' = 0
  /\ UNCHANGED <<verdict, overdue>>

Fallback(r) ==
  /\ stage = "Undecided"
  /\ overdue
  /\ stage' = "Final"
  /\ verdict' = r
  /\ UNCHANGED <<age, overdue>>

Next ==
  \/ Pass
  \/ \E r \in Results : Propose(r)
  \/ Object
  \/ Confirm
  \/ \E r \in Results : Fallback(r)

Spec == Init /\ [][Next]_vars
=============================================================================
