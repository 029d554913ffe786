SPECIFICATION Spec
CONSTANTS
    Thread = {t1, t2, t3}
    Services = {"pool", "completion", "dataqueue", "workqueue", "pipe"}
    block_total_count = 2
    Holds = 2
    MaxCount = 4
    Size = 2
    Lwm = 1
    IndexMod = 4
    MaxPushed = 5
    Work = {w1, w2}
    buffer_size = 3
    Reader = {t1}
    Writer = {t2, t3}
    Counts = {1, 4}
    MaxBytes = 6
CHECK_DEADLOCK FALSE
INVARIANTS
    
    NoWaiterWhileDone
    DataInOrder
    NoDataStranded
    WorkInv
    PipeInOrder
    NoPipeStranded
    
