SPECIFICATION FairPathSpec
CONSTANTS
  NPorts = 1
  Callers = {}
  DownUnannounced = FALSE
  MaxEvents = 2
  MaxErrors = 0
  Requests = {r1, r2}
  SpoofAllowed = {r1}
  Dtmf = {r2}
  Identical = {}
  NoRequest = NoRequest
PROPERTY LiveQueueServed
CHECK_DEADLOCK FALSE
