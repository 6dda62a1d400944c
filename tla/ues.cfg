SPECIFICATION Spec
CONSTANTS
  Names <- MCNames
  MainName <- MCMainName
  Rbs = {1, 3}
  Callers = {"rrcTxDCCH"}
  Sought <- MCSought
  AddressOf <- MCAddressOf
  MaxUes = 4
INVARIANTS
  TypeOK
  OneUePerName
  FlushSeesUes
  RlcsBelongToUes
  ActivityProtects
PROPERTIES
  PurgeLeavesAtMostOne
  NoUeSparedTwice
CHECK_DEADLOCK FALSE
