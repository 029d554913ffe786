SPECIFICATION Spec
CONSTANTS
  hi = hi
  lo = lo
  idle = idle
  Thread <- MCThread
  Idle = idle
  MaxPrio = 2
  InitPrio <- MCInitPrio
  WaitList = {ev}
  Waiters = ev
  Flag <- MCFlag
  Defunct = defunct
  InitReady <- MCInitReady
  MaxDelay = 1
  Slice = 1
  Bits = {b1, b2, b3}
  Timeout <- MCTimeout
SYMMETRY BitSymmetry
INVARIANTS
    EventInv
PROPERTIES
    ReceivesWhatItAskedFor
    ClearedOnce
