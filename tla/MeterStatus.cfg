SPECIFICATION StatusSpec
CONSTANTS
  ConnIds = {c1, c2}
  Meters = {m1, m2}
  NoConn = NoConn
  NoMeter = NoMeter
  maxConnections = 2
INVARIANTS
  ReportsAgree
  OnlineIffRouted
  OnlineCountExact
PROPERTY
  OutageReported
