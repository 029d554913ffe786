SPECIFICATION Spec
CONSTANTS
  hi = hi
  mid = mid
  lo = lo
  idle = idle
  m1 = m1
  m2 = m2
  Null = null
  Thread <- MCThread
  Idle = idle
  MaxPrio = 3
  InitPrio <- MCInitPrio
  WaitList = {m1}
  Flag <- PrioFlag
  Defunct = defunct
  InitReady <- MCInitReady
  MaxDelay = 2
  Slice = 1
  MaxHold = 2
INVARIANTS
    Ownership
    PriorityInherited
    PriorityRestored
