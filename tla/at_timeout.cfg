SPECIFICATION Spec
CONSTANTS
  Cmds = {c1, c2}
  NoCmd = NoCmd
  Noops = {}
  Abortable = {c1}
  SpecialPing = {}
  InitCmds = {}
  SpoofAllowed = {}
  Retryable = {c1}
  Phase2OnOk = {c2}
  Phase2OnError = {}
  IsPingChannel = FALSE
  PortErrors = FALSE
  MaxUrc = 0
INVARIANTS TypeOK NoLostWakeup RxQueueBounded
PROPERTY ImplementsService
CHECK_DEADLOCK FALSE
