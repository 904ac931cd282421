CONSTANTS
  Thread = {t1, t2, t3, t4}
  NoThread = NoThread
  Queue = {"m->wait"}
  Timeouts = {"zero", "finite", "infinite"}
SPECIFICATION FairSpec
INVARIANTS QueuesHoldTheBlocked MutualExclusion CountIsEngaged
PROPERTY BlockedGetsTheMutex
CHECK_DEADLOCK FALSE
