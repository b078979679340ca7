SPECIFICATION CommandsSpec
CONSTANTS
  ConnIds = {c1, c2}
  Meters = {m1, m2}
  NoConn = NoConn
  NoMeter = NoMeter
  maxConnections = 2
  Commands = {k1, k2}
  DataIds = {"energy", "voltage"}
SYMMETRY Symmetry
INVARIANTS
  PendingConsistent
  WaitingOnOwnMeter
PROPERTIES
  AnswersInStep
