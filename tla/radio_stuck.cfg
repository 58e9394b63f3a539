SPECIFICATION FairRadioSpec
CONSTANTS
  NPorts = 1
  Callers = {}
  DownUnannounced = FALSE
  MaxEvents = 2
  MaxErrors = 0
  FlightModeOff = TRUE
  MaxRequests = 1
  Sent = {"UP","OUT_OF_SERVICE","REBOOT"}
PROPERTY CancelledOnModemEvents
CHECK_DEADLOCK FALSE
