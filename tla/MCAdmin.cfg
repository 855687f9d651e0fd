SPECIFICATION AdminSpec
CONSTANTS
  z1 = z1
  z2 = z2
  c1 = c1
  c2 = c2
  Zones <- MCZones
  ZoneOrder <- MCZoneOrder
  Signed = {z1}
  Keys <- MCKeys
  SoaKey = 1
  Generated = {3}
  Vals = {"a", "b"}
  Rnames = {"a", "b", "file", "hostadmin.localhost"}
  Malformed = Malformed
  Calls = {c1, c2}
  MaxCalls = 2
  MaxLines = 10
  InitFiles <- MCInitFiles
  Hole = Hole
  Unpromised = Unpromised
  Absent = Absent
  Torn = Torn
  TlsModes = {"given", "self_signed", "missing"}
  MaxFaults = 2
INVARIANTS
  AdminTypeOK
  
  
  

  
  
CHECK_DEADLOCK FALSE
