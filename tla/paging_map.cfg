\* A machine of 13 directory entries; the pool of page tables ends with two,
\* one or no table left, as the modules are short or long.
SPECIFICATION Spec
CONSTANTS
    Entries = 4
    Dirs = 13
    Tables = 11
    VBase = 4
    WindowPde = 7
    WindowTables = 2
    HighPde = 11
    LowPage = 12
    SelfOffset = 1
    Word = 2
    KernelEnd = 6
    ModuleEnds <- MCModuleEnds
    RamEnds <- MCRamEnds
    CallVirt <- MCCallVirt
    CallPhys <- MCCallPhys
INVARIANTS
    MemoryIsMapped
PROPERTIES
    AddressSpaceSpec
