SPECIFICATION FairSpec
CONSTANTS
  hi = hi
  mid = mid
  lo = lo
  idle = idle
  sem = sem
  Thread <- MCThread
  Idle = idle
  MaxPrio = 2
  InitPrio <- MCInitPrio
  WaitList = {sem}
  Flag <- PrioFlag
  Defunct = defunct
  InitReady <- MCInitReady
  MaxDelay = 2
  Slice = 1
  InitValue = 0
  MaxValue = 2
INVARIANTS
    KernelInv
    NoUnitWhileWaiting
    WaitersAreTaking
PROPERTIES
    
    TimedTakeEnds
    RoundRobin
