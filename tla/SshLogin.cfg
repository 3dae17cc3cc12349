SPECIFICATION Spec
CONSTANTS
  Prefs <- Methods
  FirstOffer <- First
  LaterOffer <- Later
  Banner = "own"
  MaxRekeys = 1
  MaxBlock = 1
  MaxAbandon = 1
  MaxCalls = 2
  MaxNoise = 1
  MaxEvents = 3
  Keys = {"rsa", "ed25519", "ecdsa"}
  HardwareKeys = {"ed25519"}
  Callback = TRUE
INVARIANTS Inv KeysAreShared LoginIsOwn NothingHangs
CHECK_DEADLOCK FALSE
