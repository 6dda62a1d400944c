SPECIFICATION Spec
CONSTANTS
  RachSFs = {32}
  FachSFs = {16, 64, 128, 256}
  FachTBSizes = {160, 360}
  Addresses = {1, 2}
INVARIANTS
  TypeOK
  SlotsOwnPairs
  MaxRlcCoversSlots
  BearersMatchConfig
  PdusFitBlocks
  LiCoversPdu
  FormatsFit
  TfcsWellFormed
PROPERTIES
  ConnectKeepsBearers
