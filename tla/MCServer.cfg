SPECIFICATION ServerSpec
CONSTANTS
  Names = {n1}
  Tasks = {t1, t2}
  QueryTypes = {"A", "AAAA"}
  Upstream <- MCUpstream
  ChainedA = {1}
  NoRecords = NoRecords
  EmptyTTL = 1
  Dns64 = FALSE
  AlwaysSynthesize = FALSE
  CnameCloaking = FALSE
  ChainLimit = 1
  Garbled = Garbled
  NoKey = NoKey
  NoAnswer = NoAnswer
  Failure = Failure
  Keys <- MCKeys
  Bytes <- MCBytes
  TTLs = {1}
  Config <- MCConfig
  MaxTime = 3
  MaxLookups = 6
  MinLoadSize = 1
  LoadedStale = 1
  MaxAge = 1
  InitialFiles <- MCInitialFiles
  Absent = Absent
  Torn = Torn
  ProxyTcp = TRUE
  MaxRestarts = 2
SYMMETRY MCSymmetry
CHECK_DEADLOCK FALSE
INVARIANTS
  ServerTypeOK
  LoadedCacheSound
PROPERTIES
  LoadsAllOrNothing
