SPECIFICATION ThreadSpec
CONSTANTS
  main = main
  a = a
  b = b
  idle = idle
  Thread <- MCThread
  Idle = idle
  MaxPrio = 2
  InitPrio <- MCInitPrio
  WaitList = {}
  Flag <- MCFlag
  Defunct = defunct
  InitReady <- MCInitReady
  MaxDelay = 1
  Slice = 1
  Static = {b}
  MaxNest = 1
INVARIANTS
    Consistent
    

    
