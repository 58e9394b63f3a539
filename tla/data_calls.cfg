SPECIFICATION Spec
CONSTANTS
  NChannels = 2
  MaxSetups = 2
  MaxDeactivates = 2
  MaxEvents = 1
INVARIANTS TypeOK    TokenHeldOnce
CHECK_DEADLOCK FALSE
