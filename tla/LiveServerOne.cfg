\* One video channel, as every video source of the repository has.
CONSTANTS
  Channels = {c0}
  Objects = {o1, o2, o3}
  NULL = NULL
  None = None
  QueueSize = 3
SPECIFICATION FairSpec
INVARIANTS EventsHaveDevice QueuesEmptied NoEventLost
PROPERTIES StopReturns PacketsDelivered
