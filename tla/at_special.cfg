SPECIFICATION FairSpec
CONSTANTS
  Cmds = {c1, c2, c3}
  NoCmd = NoCmd
  Noops = {c3}
  Abortable = {}
  SpecialPing = {c1}
  InitCmds = {c2}
  SpoofAllowed = {c3}
  Retryable = {}
  Phase2OnOk = {}
  Phase2OnError = {c2}
  IsPingChannel = FALSE
  PortErrors = TRUE
  MaxUrc = 1
INVARIANTS CompletedExactlyOnce LateAnswerDropped OwnAnswer
PROPERTY EveryCommandEnds
CHECK_DEADLOCK FALSE
