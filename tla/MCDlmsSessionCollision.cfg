SPECIFICATION SessionSpec
CONSTANTS
  Tasks = {poll, k1}
  Poller = poll
  Meters = {m1}
  NoTask = NoTask
  PollRegisters <- TwoRegisters
  ReadAllRegisters <- OtherOrder
  MaxPolls = 1
INVARIANT
  NoCollision
