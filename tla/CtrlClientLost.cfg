\* Is every message that was queued sent?
CONSTANTS
  Units = 3
  Writers = {w1}
  Messages = {m1, m2}
  Null = Null
SPECIFICATION FairSpec
PROPERTY QueuedIsSent
CHECK_DEADLOCK FALSE
