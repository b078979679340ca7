SPECIFICATION SessionSpec
CONSTANTS
  Tasks = {poll, k1}
  Poller = poll
  Meters = {m1}
  NoTask = NoTask
  PollRegisters <- TwoRegisters
  ReadAllRegisters <- OtherOrder
  MaxPolls = 2
INVARIANTS
  AnswersInStep
  PollsLabelledAsRead
PROPERTY
  SequencesAdvance
