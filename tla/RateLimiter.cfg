CONSTANTS
  Peer = {a, b, c}
  rate_limit = 2
  rate_window = 1
  block_duration = 2
  MaxNow = 4
  MaxSends = 5
SPECIFICATION Spec
INVARIANT TypeOK
INVARIANT RateRespected
INVARIANT SuppressedForCause
CHECK_DEADLOCK FALSE
