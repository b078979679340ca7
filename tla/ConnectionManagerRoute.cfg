SPECIFICATION Spec
CONSTANTS
  ConnIds = {c1, c2}
  Meters = {m1}
  NoConn = NoConn
  NoMeter = NoMeter
  maxConnections = 2
INVARIANT
  IdentifiedIsRouted
