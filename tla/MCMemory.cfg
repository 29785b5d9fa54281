SPECIFICATION MCSpec
CONSTANTS
    Procs = {1, 2, 3}
    PGSIZE = 4
    KERNBASE = 8
    kmap <- kmapDef
    Programs <- Tests
    Machines <- MachinesDef
    LOW = 6
    SECTSIZE = 3
    MINUNITS = 3
    HEAP = 10
    Requests = {2, 3, 5}
    CELLS = 6
    BYTES = 3
    WORD = 2
    WIDTH = 8
INVARIANTS PagesAccounted AddressSpaces TestsPass OnlyTornPanics KernelLoaded StartedWhole InterruptsArrive LibrarySound
PROPERTY BootsUp
