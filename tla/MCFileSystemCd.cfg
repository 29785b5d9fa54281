SPECIFICATION Spec
CONSTANTS
    BSIZE = 4
    NDIRECT = 8
    ninodes = 20
    size = 70
    nlog = 10
    BPB = 12
    DIRSIZ = 14
    Procs = {1, 2}
    NINODE = 5
    NFILE = 4
    NOFILE = 4
    LOGSIZE = 10
    PIPESIZE = 4
    Image <- ImageDef
    Programs <- Cd
INVARIANT WritesInTransactions
