------------------------------ MODULE Scheduler ------------------------------
(***************************************************************************)
(* The process table and round-robin scheduler of CottonOS (proc/mod.rs,   *)
(* proc/scheduler.rs), driven by the main-line kernel (the shell's `ps`    *)
(* and the process system calls) and by IRQ0, which runs `timer_tick`.     *)
(*                                                                         *)
(* The CPU is single and interrupts are enabled during boot and never      *)
(* disabled around a lock.  Main-line code holds SCHEDULER or PROCESSES    *)
(* (spin::Mutex) for a critical section; `held` is what it holds between   *)
(* taking and releasing them.  IRQ0 runs to completion with IF clear; if   *)
(* it needs a lock main-line holds, it spins forever, since the holder can *)
(* never run again: `fault` becomes "spin".                                *)
(***************************************************************************)
EXTENDS Naturals, Sequences, TLC

CONSTANTS
    TIME_SLICE,   \* Process::time_slice at creation and after a requeue (10)
    SleepMs,      \* the sleep lengths a caller passes to sys_sleep
    WaitPids      \* the pids a caller passes to sys_wait

INIT == 1         \* proc::init: the first pid NEXT_PID hands out
IDLE == 2         \* scheduler::init: the second
CHILD == 3        \* the pid a successful fork would take
NoPid == 0        \* Option<ProcessId>::None
NoSwitch == <<>>

VARIABLES
    procs,    \* PROCESSES: pid -> [st, slice]
    queue,    \* the run queue of the Normal priority, the only one in use
    current,  \* Scheduler::current
    enabled,  \* SCHEDULER_ENABLED
    pc,       \* main-line: the call in progress and where it is
    held,     \* the locks main-line holds
    cpid,     \* the result of main-line's last current_pid()
    left,     \* sleep_ms: wake_tick - TICK_COUNT
    sw,       \* <<old, new>> a schedule() still has to context_switch
    fault     \* "none", "spin" (IRQ0 spins on a held lock), "stack"

vars == <<procs, queue, current, enabled, pc, held, cpid, left, sw, fault>>

Main(op, at) == [op |-> op, at |-> at]

\* proc::init creates init (pid 1, Created, not given to the scheduler),
\* then scheduler::init creates the idle process (pid 2), which goes into
\* neither the table nor a run queue.
Init ==
    /\ procs = (INIT :> [st |-> "Created", slice |-> TIME_SLICE])
    /\ queue = <<>>
    /\ current = NoPid
    /\ enabled = FALSE
    /\ pc = Main("none", "boot")
    /\ held = {}
    /\ cpid = NoPid
    /\ left = 0
    /\ sw = NoSwitch
    /\ fault = "none"

(***************************************************************************)
(* schedule() under SCHEDULER, from the table p, queue q and current cur:  *)
(* a Running old process goes back to the queue with a fresh slice,        *)
(* select_next takes the head of the queue or else the idle pid, which     *)
(* becomes current and, if it is in the table, Running.                    *)
(***************************************************************************)
Sched(p, q, cur) ==
    LET back == cur \in DOMAIN p /\ p[cur].st = "Running"
        p1   == IF back THEN [p EXCEPT ![cur] = [st |-> "Ready", slice |-> TIME_SLICE]]
                        ELSE p
        q1   == IF back THEN Append(q, cur) ELSE q
        new  == IF q1 # <<>> THEN Head(q1) ELSE IDLE
    IN  [procs   |-> IF new \in DOMAIN p1 THEN [p1 EXCEPT ![new].st = "Running"] ELSE p1,
         queue   |-> IF q1 # <<>> THEN Tail(q1) ELSE q1,
         current |-> new,
         sw      |-> IF cur # new THEN <<cur, new>> ELSE NoSwitch]

\* context_switch: do_context_switch loads the new rsp without saving the
\* old one, and only when both processes are in the table.
SwitchFault(p, s) ==
    IF s # NoSwitch /\ s[1] \in DOMAIN p /\ s[2] \in DOMAIN p THEN "stack" ELSE "none"

(***************************************************************************)
(* IRQ0: timer_tick.  TICK_COUNT always advances; with the scheduler       *)
(* enabled it takes SCHEDULER, then PROCESSES if there is a current pid,   *)
(* charges the slice, and calls schedule() when the slice is used up or    *)
(* the current pid is not in the table.  schedule() takes PROCESSES for    *)
(* the pid it selects, which is never None (idle_pid is set), so an        *)
(* enabled tick needs both locks whatever main-line holds.                 *)
(***************************************************************************)
TickCountLost == UNCHANGED left

\* TICK_COUNT.fetch_add(1), as a sleeping caller sees it: one tick closer
\* to its wake tick.
TickCount == left' = IF pc.op = "sleep" /\ left > 0 THEN left - 1 ELSE left

TimerTick ==
    /\ fault = "none"
    /\ TickCount
    /\ IF ~enabled
         THEN UNCHANGED <<procs, queue, current, sw, fault>>
       ELSE IF held # {}
         THEN /\ fault' = "spin"
              /\ UNCHANGED <<procs, queue, current, sw>>
       ELSE LET charged == current \in DOMAIN procs
                p   == IF charged /\ procs[current].slice > 0
                         THEN [procs EXCEPT ![current].slice = @ - 1] ELSE procs
                s   == Sched(p, queue, current)
            IN  IF ~charged \/ p[current].slice = 0
                  THEN /\ procs' = s.procs /\ queue' = s.queue
                       /\ current' = s.current /\ sw' = sw
                       /\ fault' = SwitchFault(s.procs, s.sw)
                  ELSE /\ procs' = p
                       /\ UNCHANGED <<queue, current, sw, fault>>
    /\ UNCHANGED <<enabled, pc, held, cpid>>

\* An IRQ0 handler spinning on a lock, or a CPU on a lost stack: the
\* machine makes no progress, but time still passes.
Stuck ==
    /\ fault # "none"
    /\ UNCHANGED vars

\* The main-line steps below run only while no IRQ handler has the CPU.
Running == fault = "none"

\* kernel_main: with a framebuffer, gui::run() never returns and the
\* scheduler is never started.
GuiRun ==
    /\ Running /\ pc.at = "boot"
    /\ pc' = Main("none", "shell")
    /\ UNCHANGED <<procs, queue, current, enabled, held, cpid, left, sw, fault>>

\* scheduler::start: set SCHEDULER_ENABLED and run the text shell.
Start ==
    /\ Running /\ pc.at = "boot"
    /\ enabled' = TRUE
    /\ pc' = Main("none", "shell")
    /\ UNCHANGED <<procs, queue, current, held, cpid, left, sw, fault>>

(***************************************************************************)
(* Main-line calls.  A call is a sequence of critical sections; pc.at      *)
(* names the section it is at, `held` tells whether it is inside it.  An   *)
(* IRQ0 between two sections finds no lock held.                           *)
(***************************************************************************)
Before(at) == Running /\ pc.at = at /\ held = {}
Enter(lock) == held' = {lock}
Go(at) == pc' = IF at = "shell" THEN Main("none", "shell") ELSE Main(pc.op, at)

\* What a call does once its schedule() returns: yield and exit return to
\* the caller, sleep_ms re-tests its wake tick, wait re-reads the table.
After == CASE pc.op = "sleep" -> "loop"
           [] pc.op = "wait"  -> "wcheck"
           [] OTHER           -> "shell"

\* `ps` in the shell or the GUI terminal: stats() holds SCHEDULER.
Ps ==
    /\ Before("shell")
    /\ pc' = Main("ps", "ps") /\ Enter("SCHED")
    /\ UNCHANGED <<procs, queue, current, enabled, cpid, left, sw, fault>>

\* A system call of the process group, made through the syscall gate:
\* getpid, fork, exit and sleep_ms start with current_pid(), yield with
\* schedule(), wait(pid) with a look at the table.  sleep_ms first reads
\* TICK_COUNT to fix its wake tick.
SysCall ==
    /\ Before("shell")
    /\ \/ \E op \in {"getpid", "fork", "exit"} :
              pc' = Main(op, "cur") /\ UNCHANGED <<cpid, left>>
       \/ \E ms \in SleepMs : pc' = Main("sleep", "cur") /\ left' = ms /\ UNCHANGED cpid
       \/ pc' = Main("yield", "sched") /\ UNCHANGED <<cpid, left>>
       \/ \E p \in WaitPids : pc' = Main("wait", "wcheck") /\ cpid' = p /\ UNCHANGED left
    /\ UNCHANGED <<procs, queue, current, enabled, held, sw, fault>>

\* current_pid(): read Scheduler::current under SCHEDULER.
CurrentPid ==
    /\ Before("cur")
    /\ Enter("SCHED") /\ cpid' = current
    /\ UNCHANGED <<procs, queue, current, enabled, pc, left, sw, fault>>

\* get_process(): clone the table entry under PROCESSES.
GetProcess ==
    /\ Before("get")
    /\ Enter("PROC")
    /\ UNCHANGED <<procs, queue, current, enabled, pc, cpid, left, sw, fault>>

\* exit marks its process a Zombie; sleep_ms marks it Sleeping; wait(pid)
\* reaps a Zombie target, returning its status.
MarkProcess ==
    /\ \/ Before("mark") /\ pc.op = "exit"
          /\ procs' = [procs EXCEPT ![cpid].st = "Zombie"]
       \/ Before("mark") /\ pc.op = "sleep"
          /\ procs' = IF cpid \in DOMAIN procs THEN [procs EXCEPT ![cpid].st = "Sleeping"] ELSE procs
       \/ Before("wake")
          /\ procs' = IF cpid \in DOMAIN procs THEN [procs EXCEPT ![cpid].st = "Ready"] ELSE procs
       \/ Before("wcheck")
          /\ procs' = IF cpid \in DOMAIN procs /\ procs[cpid].st = "Zombie"
                        THEN [q \in DOMAIN procs \ {cpid} |-> procs[q]] ELSE procs
    /\ Enter("PROC")
    /\ UNCHANGED <<queue, current, enabled, pc, cpid, left, sw, fault>>

\* schedule() from main-line: nothing while the scheduler is disabled,
\* otherwise the body under SCHEDULER.
Schedule ==
    /\ Before("sched")
    /\ IF enabled
         THEN LET s == Sched(procs, queue, current)
              IN  /\ procs' = s.procs /\ queue' = s.queue
                  /\ current' = s.current /\ sw' = s.sw
                  /\ Enter("SCHED") /\ UNCHANGED pc
         ELSE Go(After) /\ UNCHANGED <<procs, queue, current, sw, held>>
    /\ UNCHANGED <<enabled, cpid, left, fault>>

\* context_switch(old, new) reads both contexts under PROCESSES.
ContextSwitch ==
    /\ Before("ctx")
    /\ Enter("PROC") /\ fault' = SwitchFault(procs, sw)
    /\ UNCHANGED <<procs, queue, current, enabled, pc, cpid, left, sw>>

\* sleep_ms's busy loop: schedule() until TICK_COUNT reaches the wake tick.
SleepLoop ==
    /\ Before("loop")
    /\ Go(IF left > 0 THEN "sched" ELSE "wake")
    /\ UNCHANGED <<procs, queue, current, enabled, held, cpid, left, sw, fault>>

\* The section main-line is in ends: the lock is released and the call
\* goes on to its next section, or returns to the shell.
Succ ==
    CASE pc.at = "cur" /\ pc.op \in {"getpid", "fork"} -> "get"
      [] pc.at = "cur" /\ pc.op = "exit"  -> IF cpid \in DOMAIN procs THEN "mark" ELSE "sched"
      [] pc.at = "cur" /\ pc.op = "sleep" -> IF cpid # NoPid THEN "mark" ELSE "shell"
      [] pc.at = "mark" /\ pc.op = "exit" -> "sched"
      [] pc.at = "mark"                    -> "loop"
      [] pc.at = "sched"                   -> IF sw # NoSwitch THEN "ctx" ELSE After
      [] pc.at = "ctx"                     -> After
      [] pc.at = "wcheck"                  -> IF cpid \in DOMAIN procs THEN "sched" ELSE "shell"
      [] OTHER                             -> "shell"

\* fork: when current() found the caller (never, while the current pid is
\* the idle process, which is not in the table), Process::fork makes a
\* Created child and add_process puts it in the table and the run queue.
Forked ==
    pc.at = "get" /\ pc.op = "fork" /\ cpid \in DOMAIN procs

Leave ==
    /\ Running /\ held # {}
    /\ held' = {}
    /\ Go(Succ)
    /\ procs' = IF Forked THEN procs @@ (CHILD :> [st |-> "Created", slice |-> TIME_SLICE])
                          ELSE procs
    /\ queue' = IF Forked THEN Append(queue, CHILD) ELSE queue
    /\ sw' = IF pc.at = "ctx" THEN NoSwitch ELSE sw
    /\ UNCHANGED <<current, enabled, cpid, left, fault>>

Next ==
    \/ TimerTick \/ Stuck
    \/ GuiRun \/ Start \/ Ps \/ SysCall
    \/ CurrentPid \/ GetProcess \/ MarkProcess \/ Schedule \/ ContextSwitch
    \/ SleepLoop \/ Leave

\* IRQ0 keeps firing (the PIT is programmed once and never stopped), and a
\* call in progress keeps running; the user issues no command by force.
Fairness ==
    /\ WF_vars(TimerTick)
    /\ WF_vars(CurrentPid \/ GetProcess \/ MarkProcess \/ Schedule \/ ContextSwitch
               \/ SleepLoop \/ Leave)

Spec == Init /\ [][Next]_vars /\ Fairness

(***************************************************************************)
(* Properties                                                              *)
(***************************************************************************)

\* sleep_ms returns: its busy loop of schedule() calls ends once IRQ0 has
\* advanced TICK_COUNT to the wake tick, unless the machine hung first.
SleepReturns ==
    (pc.op = "sleep") ~> (pc.op # "sleep" \/ fault # "none")

\* IRQ0 never spins on a lock: timer_tick never finds SCHEDULER or
\* PROCESSES held by the main-line code it interrupted.
NoSpin == fault # "spin"

\* Spec (process lifecycle): init, PID 1, is picked by the scheduler and
\* runs once scheduling has started, unless the machine hung first.
InitRuns == enabled ~> (current = INIT \/ fault # "none")

TypeOK ==
    /\ DOMAIN procs \subseteq {INIT, IDLE, CHILD}
    /\ held \subseteq {"SCHED", "PROC"}
    /\ current \in {NoPid, INIT, IDLE, CHILD}
    /\ fault \in {"none", "spin", "stack"}

====
