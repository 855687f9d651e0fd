SPECIFICATION TransferSpec
CONSTANTS
  Zones = {"z1", "z2"}
  PrimariesOf <- MCPrimariesOf
  Streams <- MCStreams
  Tasks = {t1, t2, t3}
  NoZone = NoZone
SYMMETRY MCSymmetry
CHECK_DEADLOCK FALSE
INVARIANTS
  TransferTypeOK
  OneSource
  HoldsWhatWasRead
  
