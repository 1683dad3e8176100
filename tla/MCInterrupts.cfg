\* Violation run: an interrupt handler hangs (spins on a lock the interrupted code holds, or allocates before heap::init).
CONSTANTS
    MIN_CAP <- MC_MIN_CAP
    BUF_MAX <- MC_BUF_MAX
    MAX_KEYS <- MC_MAX_KEYS
INIT Init
NEXT Next
INVARIANT HandlersReturn
