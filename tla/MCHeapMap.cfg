\* A page with the memory map on it and one with a reserved region are free from
\* the start.
SPECIFICATION Spec
CONSTANTS
    Word = 128
    PageSize = 8
    MaxTracked = 64
    LowLimit = 16
    KernelEnd = 26
    InfoSize = 5
    Machines <- UntidyMachine
    Alignment = 2
    Requests = {3}
    Pointers = {}
    MaxBlocks = 2
INVARIANT HandedOutIsUsable
