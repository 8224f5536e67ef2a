\* The thread that writes the frames has died, and its queue is full.
SPECIFICATION FairSpec
CONSTANTS
  MaxQueue = 2
  Window = 2
  MaxFrames = 5
PROPERTIES
  StopEnds
CHECK_DEADLOCK FALSE
