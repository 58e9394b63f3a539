SPECIFICATION FairRadioSpec
CONSTANTS
  NPorts = 1
  Callers = {}
  DownUnannounced = FALSE
  MaxEvents = 4
  MaxErrors = 0
  FlightModeOff = TRUE
  MaxRequests = 2
  Sent = {"UP","SHUTDOWN","DOWN"}
INVARIANT RadioTypeOK
INVARIANT OwnCommandWakes
INVARIANT OnMeansPoweredOn
INVARIANT WaitIsWatched
PROPERTY WaitEnds
CHECK_DEADLOCK FALSE
