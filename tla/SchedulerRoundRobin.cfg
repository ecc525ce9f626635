CONSTANTS
  SchedCpus = {c1}
  Pids = {1, 2}
  TaskSlots = 2
  QueueSize = 2
  Slice = 2
  Urgent = {}
  StealAbove = 2
SPECIFICATION SchedSpec
INVARIANT KeepsItsTurn
