SPECIFICATION FairSpec
CONSTANTS
  NPorts = 2
  Callers = {c1}
  DownUnannounced = FALSE
  MaxEvents = 5
  MaxErrors = 1
INVARIANTS TypeOK InEventOrder NoWorkStranded QueuesLive DownMeansSpoofed UpServesOrRecovers
PROPERTIES FreedAfterStop AckAfterClose EveryEventAcked
CHECK_DEADLOCK FALSE
