CONSTANTS
    MAX_PAGES <- MC_MAX_PAGES
    Available <- MC_Available
    LowMemory <- MC_LowMemory
    KernelImage <- MC_KernelImage
    Counts <- MC_Counts
    Sizes <- MC_Sizes
    KERNEL_START = 1
    KERNEL_END = 4
    USER_START = 4
    USER_END = 10
    HEAP_START = 2
    HEAP_PAGES = 1
    MAX_HEAP_PAGES = 2
    MAX_CALLS = 6
SPECIFICATION Spec
INVARIANTS
    HeapBacked
