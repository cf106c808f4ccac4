CONSTANTS
  v0 = v0
  v1 = v1
  v2 = v2
  v3 = v3
  v4 = v4
  alice = alice
  bob = bob
  NoAccount = NoAccount
  Account = {alice, bob}
  Name = {"x"}
  Value = {1, 2}
  Nonce = {0}
  NIL = NIL
  Fabricated = Fabricated
  None = None
  Validator = {v0, v1, v2, v3}
  validators <- FourValidators
  Byzantine = {}
  Silent = {}
  Crashable = {v0, v3}
  Data <- PoolContents
  Offered <- Offers
  MaxPool = 1
  MaxHeight = 2
  MaxRound = 1
SPECIFICATION CollectGossipSpec
INVARIANT GossipTypeOK
INVARIANT StateIsLedger
INVARIANT ParkedIsAcceptable
INVARIANT NothingSmuggled
INVARIANT FinalizedBlocksAreValid
INVARIANT StateRootsAreRight
CHECK_DEADLOCK FALSE
CONSTRAINT InInstance
