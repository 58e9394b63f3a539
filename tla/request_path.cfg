SPECIFICATION PathSpec
CONSTANTS
  NPorts = 1
  Callers = {}
  DownUnannounced = FALSE
  MaxEvents = 4
  MaxErrors = 0
  Requests = {r1, r2}
  SpoofAllowed = {}
  Dtmf = {}
  Identical = {r1, r2}
  NoRequest = NoRequest
INVARIANTS PathTypeOK OneHolder NoCommandSleptOver ThreadHasQueue
CHECK_DEADLOCK FALSE
