CONSTANTS
  v0 = v0
  v1 = v1
  v2 = v2
  v3 = v3
  v4 = v4
  NIL = NIL
  Fabricated = Fabricated
  None = None
  Validator = {v0, v1, v2, v3}
  validators <- FourValidators
  Byzantine = {v3}
  Silent = {v3}
  Crashable = {}
  Data <- OnlyGood
  MaxHeight = 1
  MaxRound = 1
SPECIFICATION CollectSpec
INVARIANT ReproposalIsAccepted
CHECK_DEADLOCK FALSE
