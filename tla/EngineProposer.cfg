CONSTANTS
  v0 = v0
  v1 = v1
  v2 = v2
  v3 = v3
  v4 = v4
  NIL = NIL
  Fabricated = Fabricated
  None = None
  Validator = {v0, v1, v2, v3}
  validators <- FourValidators
  Byzantine = {v0}
  Silent = {}
  Crashable = {}
  Data <- OnlyGood
  MaxHeight = 1
  MaxRound = 1
SPECIFICATION CollectSpec
SYMMETRY NonProposers
INVARIANT Agreement
INVARIANT UnlockIsJustified
INVARIANT DecisionIsCertified
INVARIANT VoteOnce
INVARIANT LockIsCertified
PROPERTY BuildsOneChain
PROPERTY ForwardOnly
CHECK_DEADLOCK FALSE
