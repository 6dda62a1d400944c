SPECIFICATION FairSpec
CONSTANTS
  NoSdu = NoSdu
  mSNS = 4
  Configs <- AllBearers
  ToHandset <- LongLiBearers
  SduSizes = {1, 2, 3, 4, 5, 9}
  MaxSdus = 3
  MaxInFlight = 2
INVARIANTS
  TypeOK
  PdusFull
  NoPartialSduWhenLost
  NeverAborts
PROPERTIES
  ImplementsStream
  EverySduSettled
CHECK_DEADLOCK FALSE
