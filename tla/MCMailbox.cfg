SPECIFICATION Spec
CONSTANTS
  hi = hi
  mid = mid
  lo = lo
  idle = idle
  Thread <- MCThread
  Idle = idle
  MaxPrio = 3
  InitPrio <- MCInitPrio
  WaitList = {recv, send}
  Receivers = recv
  Senders = send
  Flag <- MCFlag
  Defunct = defunct
  InitReady <- MCInitReady
  MaxDelay = 2
  Slice = 1
  Mail = {m1, m2}
  Size = 2
  Timeout <- MCTimeout
SYMMETRY MailSymmetry
INVARIANTS
    NothingStranded
    TimeoutKept
PROPERTIES
    ImplementsFifo
