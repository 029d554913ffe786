SPECIFICATION Spec
CONSTANTS
  hi = hi
  lo = lo
  idle = idle
  s1 = s1
  s2 = s2
  s3 = s3
  Null = Null
  Thread <- MCThread
  Idle = idle
  MaxPrio = 2
  InitPrio <- MCInitPrio
  WaitList = {recv}
  Receivers = recv
  Flag <- MCFlag
  Defunct = defunct
  InitReady <- MCInitReady
  MaxDelay = 2
  Slice = 1
  Slot = {s1, s2, s3}
  InitFree <- MCInitFree
  Message = {m1, m2}
  Timeout <- MCTimeout
SYMMETRY MessageSymmetry
INVARIANTS
    SlotsExact
    NoMessageStranded
PROPERTIES
    ImplementsQueue
