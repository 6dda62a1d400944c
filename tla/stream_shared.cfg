SPECIFICATION FairSpec
CONSTANTS
  NoSdu = NoSdu
  mSNS = 4
  Configs <- SharedBearer
  ToHandset = {}
  SduSizes = {2, 4}
  MaxSdus = 2
  MaxInFlight = 2
PROPERTIES
  EverySduSettled
CHECK_DEADLOCK FALSE
