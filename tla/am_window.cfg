SPECIFICATION Spec
CONSTANTS
  mSNS = 8
  mConfig <- WindowConfig
  Sdu <- LongSdus
  NoPdu = NoPdu
  NoSdu = NoSdu
  Entity = {a, b}
  Writer = {a}
  Tester = {}
  MaxSdus = 2
  MaxInFlight = 2
  MaxLosses = 2
  MaxTriggers = 0
INVARIANTS
  TypeOK
  TransmitWindow
  NextPduMissing
  ReceiverConsistent
  WindowsNested
CHECK_DEADLOCK FALSE
