\* Two concurrent proposals over a multisig of up to three slots.
SPECIFICATION Spec
CONSTANTS
  a = a
  b = b
  c = c
  m1 = m1
  NoKey = NoKey
  Keys <- MCKeys
  FirstAdmin = a
  Markets <- MCMarkets
  Results <- MCResults
  MaxSigners = 3
  Delay = 1
  Ttl = 2
  SignerLists <- MCSignerLists
  Proposable <- MCProposable
  MaxProposals = 2
  MaxTime = 3
INVARIANTS
  SignersWellFormed
  ApprovedByQuorum
PROPERTIES
  EndsOnce
  GovernedChange
CHECK_DEADLOCK FALSE
