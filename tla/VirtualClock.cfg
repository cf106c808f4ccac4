CONSTANTS
  Delays = {0, 1, 2}
  MaxEvents = 4
  MaxNow = 3
  None = None
SPECIFICATION Spec
INVARIANT TypeOK
INVARIANT FiredInOrder
INVARIANT RevokedNeverFires
INVARIANT NothingIsLost
PROPERTY TimeForward
PROPERTY DueEventFires
