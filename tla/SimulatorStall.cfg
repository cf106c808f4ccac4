CONSTANTS
  v0 = v0
  v1 = v1
  v2 = v2
  v3 = v3
  NIL = NIL
  Fabricated = Fabricated
  None = None
  Validator = {v0, v1, v2, v3}
  validators <- FourValidators
  Registered <- InOrder
  Byzantine = {}
  Silent = {}
  Crashable = {}
  Data <- OnlyGood
  MaxHeight = 2
  MaxRound = 10
  round_timeout = 50
  bounded_delay = 2
  min_delay = 1
  max_delay = 15
  reorder_list <- NoReordering
  StabilizeAt = 100
  Deadline = 400
  MaxLost = 2
  MaxCopied = 0
  MaxSlow = 0
SPECIFICATION SimSpec
INVARIANT QuorumAgreement
CHECK_DEADLOCK FALSE
