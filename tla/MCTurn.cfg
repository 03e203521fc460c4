SPECIFICATION MCSpec
CONSTANTS
  Tools = {"tool"}
  Natives = {"native"}
  Indexes = {1, 2}
  NoIndex = 128
  ScanLimit = 2
  MaxEvents = 3
  MaxTurns = 2
  Models = {"m1", "m2", "synthetic"}
  Synthetic = {"synthetic"}
  Selected = "m1"
  None = None
  Bad = Bad
  UsageOf <- MCUsageOf
  MaxMessages = 2
  MaxInits = 2
  MaxProjected = 2
  MaxUpdates = 3
  OutputLimit = 2
  AnyStatus <- MCAnyStatus
  MaxText = 3
  MaxImages = 2
  MaxImageBytes = 3
  MaxTotalBytes = 4
  MaxBlocks = 4
  MaxDepth = 2
  MaxNodes = 6
  MaxBytes = 3
  TextLimits = {0, 1, 2, 3, 4}
  MaxChars = 5
INVARIANTS
  TurnTypeOK
  StreamIsGuarded
  ModelIsProved
  NothingIsPaid
  ProbeIsWhole
  AdmissionHolds
  BridgeDataIsBounded
PROPERTIES
  ProbeEnds
CHECK_DEADLOCK FALSE
