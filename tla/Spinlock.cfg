CONSTANTS
  CPUs = {c0, c1, c2}
  Boot = c0
  MaxTicket = 5
  BootTimeout = FALSE
SPECIFICATION LiveSpec
INVARIANTS MutualExclusion
PROPERTIES EntersInOrder TrylockFailsOnlyWhenHeld QueuedEnters
