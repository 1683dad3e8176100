\* The userspace wrappers' SYSCALL instruction against the kernel's entry.
CONSTANTS
    Vals <- MC_Vals
    MAX_CALLS = 2
SPECIFICATION Spec
CHECK_DEADLOCK FALSE
INVARIANT CallDispatched
