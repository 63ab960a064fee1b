CONSTANTS
  t1 = t1
  t2 = t2
  s1 = s1
  s2 = s2
  Service = service
  NoThread = nothread
  NoJob = nojob
  NoSocket = nosocket
  Callers = {t1, t2}
  Sockets = {s1, s2}
  Owner <- MCOwner
  Listeners = {s1}
  Jobs = {j1, j2}
SPECIFICATION LiveSpec
INVARIANT Exclusive
INVARIANT JobsOwned
INVARIANT RemovedIsQuiet
PROPERTY WaitsEnd
PROPERTY JobsPolled
CHECK_DEADLOCK FALSE
