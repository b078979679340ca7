SPECIFICATION Spec
CONSTANTS
  ConnIds = {c1, c2, c3}
  Meters = {m1, m2}
  NoConn = NoConn
  NoMeter = NoMeter
  maxConnections = 2
INVARIANTS
  RegistryConsistent
PROPERTIES
  MeterIdStable
  TakeoverClosesOld
  ClosingCompletes
  SilentEvicted
  StopCompletes
