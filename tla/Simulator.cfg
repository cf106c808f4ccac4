CONSTANTS
  v0 = v0
  v1 = v1
  v2 = v2
  v3 = v3
  NIL = NIL
  Fabricated = Fabricated
  None = None
  Validator = {v0, v1, v2, v3}
  validators <- FourValidators
  Registered <- InOrder
  Byzantine = {v1}
  Silent = {}
  Crashable = {}
  Data <- OnlyGood
  MaxHeight = 2
  MaxRound = 2
  round_timeout = 50
  bounded_delay = 5
  min_delay = 1
  max_delay = 15
  reorder_list <- Reordering
  StabilizeAt = 40
  Deadline = 130
  MaxLost = 1
  MaxCopied = 1
  MaxSlow = 1
SPECIFICATION SimSpec
INVARIANT SimTypeOK
INVARIANT RoundsEndForCause
PROPERTY TargetIsReached
PROPERTY ImplementsEngine
CONSTRAINT TwoFaults
CHECK_DEADLOCK FALSE
