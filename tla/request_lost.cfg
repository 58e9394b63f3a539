SPECIFICATION FairPathSpec
CONSTANTS
  NPorts = 1
  Callers = {}
  DownUnannounced = FALSE
  MaxEvents = 4
  MaxErrors = 0
  Requests = {r1}
  SpoofAllowed = {}
  Dtmf = {}
  Identical = {}
  NoRequest = NoRequest
PROPERTY EveryRequestCompleted
CHECK_DEADLOCK FALSE
