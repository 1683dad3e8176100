------------------------------- MODULE MCSync -------------------------------
EXTENDS Sync

\* Two callers, each its own process.
MC_Callers == {"t1", "t2"}
MC_Pid == [t \in MC_Callers |-> IF t = "t1" THEN 1 ELSE 2]

\* current_pid() is None for both, as in a kernel where no table
\* process is current (RecursiveMutex::lock then uses 0).
MC_Pid_None == [t \in MC_Callers |-> 0]

\* One unit, so that the second waiter must retry; a two-party barrier
\* used for two rounds; nesting two deep.
MC_SEM_INIT == 1
MC_COUNT == 2
MC_MAX_DEPTH == 2
MC_MAX_ROUNDS == 2
====
