\* Two threads write messages while the controller sends them.
CONSTANTS
  Units = 3
  Writers = {w1, w2}
  Messages = {m1, m2, m3, m4}
  Null = Null
SPECIFICATION FairSpec
INVARIANT UnitStable
PROPERTIES FifoSpec WokenSends
CHECK_DEADLOCK FALSE
