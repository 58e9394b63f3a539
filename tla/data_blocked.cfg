SPECIFICATION Spec
CONSTANTS
  NChannels = 1
  MaxSetups = 1
  MaxDeactivates = 0
  MaxEvents = 1
INVARIANT FreeChannelReads
CHECK_DEADLOCK FALSE
