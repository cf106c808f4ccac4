CONSTANTS
  v0 = v0
  v1 = v1
  v2 = v2
  v3 = v3
  v4 = v4
  alice = alice
  bob = bob
  NoAccount = NoAccount
  Account = {alice, bob}
  Name = {"x"}
  Value = {1, 2}
  Nonce = {0}
  NIL = NIL
  Fabricated = Fabricated
  None = None
  Validator = {v0, v1, v2, v3}
  validators <- FourValidators
  Byzantine = {}
  Silent = {}
  Crashable = {}
  Data <- PoolContents
  Offered <- BadCopy
  MaxPool = 1
  MaxHeight = 1
  MaxRound = 0
SPECIFICATION CollectGossipSpec
INVARIANT SameLedgerSameState
CHECK_DEADLOCK FALSE
