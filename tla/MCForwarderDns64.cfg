SPECIFICATION ForwardSpec
CONSTANTS
  Names = {n1}
  Tasks = {t1, t2, t3}
  QueryTypes = {"A", "AAAA"}
  Upstream <- MCUpstream
  ChainedA = {1, 2}
  NoRecords = NoRecords
  EmptyTTL = 2
  Dns64 = TRUE
  AlwaysSynthesize = FALSE
  CnameCloaking = FALSE
  ChainLimit = 1
  Garbled = Garbled
  NoKey = NoKey
  NoAnswer = NoAnswer
  Failure = Failure
  Keys <- MCKeys
  Bytes <- MCBytes
  TTLs = {1, 2}
  Config <- MCConfig
  MaxTime = 3
  MaxLookups = 6
SYMMETRY MCSymmetry
CHECK_DEADLOCK FALSE
INVARIANT
  SynthesizedStaysCached
