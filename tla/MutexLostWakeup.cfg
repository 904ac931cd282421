CONSTANTS
  Thread = {t1, t2, t3}
  NoThread = NoThread
  Queue = {"m->wait"}
  Timeouts = {"finite", "infinite"}
SPECIFICATION Spec
INVARIANT NobodySleepsOnAFreeMutex
CHECK_DEADLOCK FALSE
