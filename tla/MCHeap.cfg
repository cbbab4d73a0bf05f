SPECIFICATION Spec
CONSTANTS
    Word = 128
    PageSize = 8
    MaxTracked = 64
    LowLimit = 16
    KernelEnd = 26
    InfoSize = 5
    Machines <- MCMachines
    Alignment = 2
    Requests = {0, 3, 5, 9, 127}
    Pointers = {8, 29, 40, 120}
    MaxBlocks = 3
INVARIANTS TypeOK CountersAgree HandedOutIsAvailable OneOwner BlocksApart RefusesOnlyWhenFull NoPageIsLost
