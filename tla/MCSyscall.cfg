\* The frame decode of syscall_handler_inner against the calling convention.
CONSTANTS
    Vals <- MC_Vals
    MAX_CALLS = 2
SPECIFICATION Spec
\* A wrapper's SYSCALL ends in the empty LSTAR stub: the machine stops there.
CHECK_DEADLOCK FALSE
INVARIANT ArgsDecoded
