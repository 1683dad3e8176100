----------------------------- MODULE Interrupts -----------------------------
(***************************************************************************)
(* Interrupt delivery in CottonOS (arch/x86_64/idt.rs, arch/x86_64/mod.rs) *)
(* against the main-line kernel from kernel_main (main.rs) on: the boot    *)
(* phases, the `sti` at the end of arch::init, the heap, and then the GUI  *)
(* loop or, in text mode, scheduler::start and the shell.                  *)
(*                                                                         *)
(* init_pic unmasks every line and the IRQ gates are interrupt gates, so   *)
(* a handler runs with IF clear to its EOI and iretq: nothing interrupts   *)
(* it and the code it interrupted cannot run until it returns.  A handler  *)
(* is therefore one step, or a hang: if it needs a spin::Mutex the         *)
(* interrupted code holds, it spins forever; if it allocates before        *)
(* heap::init, the empty LockedHeap fails and alloc_error_handler panics.  *)
(*                                                                         *)
(* Main-line code holds at most one of the locks a handler takes at a      *)
(* time; which it may take depends on the phase it is in.  The PIC's IRR   *)
(* is `pending`: a line raised while IF is clear stays latched.            *)
(***************************************************************************)
EXTENDS Naturals, Sequences

CONSTANTS
    MIN_CAP,    \* the first capacity VecDeque::push_back allocates (4)
    BUF_MAX,    \* handle_interrupt's bound on KEYBOARD_BUFFER (256)
    MAX_KEYS    \* bound on the scancode bytes the keyboard sends

Lines == {0, 1, 12}                          \* PIT, keyboard, mouse
\* 8259 priority: IR0, IR1 on the master, IR12 through the cascade on IR2.
Prio == [l \in Lines |-> CASE l = 0 -> 0 [] l = 1 -> 1 [] OTHER -> 2]

\* kernel_main's order; "gui_init" only with a framebuffer.
Phases == <<"arch", "mm", "proc", "drivers", "fs", "gui_init", "syscall", "loop">>

\* The locks a handler takes that main-line code also takes.
ALLOCATOR == "ALLOCATOR"
KBUF == "KEYBOARD_BUFFER"
MOUSE == "MOUSE"
SCHEDULER == "SCHEDULER"

\* The locks main-line code takes in each phase.  Every phase after
\* heap::init allocates; mouse::init and the GUI take MOUSE; the GUI loop
\* and read_line poll KEYBOARD_BUFFER; the shell's `ps` takes SCHEDULER
\* in Scheduler::stats.
MainLocks(ph, gui) ==
    CASE ph = "arch"     -> {}
      [] ph = "gui_init" -> {ALLOCATOR, MOUSE}
      [] ph = "loop"     -> IF gui THEN {ALLOCATOR, MOUSE, KBUF}
                                   ELSE {ALLOCATOR, KBUF, SCHEDULER}
      [] OTHER           -> {ALLOCATOR}

\* VecDeque growth: nothing allocated at first, then doubling.
Grow(cap) == IF cap = 0 THEN MIN_CAP ELSE 2 * cap

VARIABLES
    phase,      \* index into Phases of what kernel_main is running
    gui,        \* a usable framebuffer was found (GUI loop, not the shell)
    intr,       \* RFLAGS.IF in main-line code
    heap,       \* ALLOCATOR.lock().init has run
    sched,      \* SCHEDULER_ENABLED
    held,       \* the lock main-line code holds, or {}
    pending,    \* the PIC's IRR
    len, cap,   \* KEYBOARD_BUFFER's length and capacity
    keys,       \* scancode bytes sent
    fault       \* "none", "spin" or "alloc"

vars == <<phase, gui, intr, heap, sched, held, pending, len, cap, keys, fault>>

Ph == Phases[phase]

\* The boot stub enters kernel_main with interrupts off.
Init ==
    /\ phase = 1 /\ gui \in BOOLEAN /\ intr = FALSE /\ heap = FALSE /\ sched = FALSE
    /\ held = {} /\ pending = {} /\ len = 0 /\ cap = 0 /\ keys = 0 /\ fault = "none"

Running == fault = "none"

(***************************************************************************)
(* Main-line code                                                          *)
(***************************************************************************)

\* kernel_main moves to its next call: arch::init ends with
\* enable_interrupts; gui_init is skipped without a framebuffer; text mode
\* ends in scheduler::start, which sets SCHEDULER_ENABLED and enables
\* interrupts again before shell::run.
Advance ==
    /\ Running /\ held = {} /\ Ph # "loop"
    /\ Ph = "mm" => heap
    /\ LET nxt == IF Phases[phase + 1] = "gui_init" /\ ~gui THEN phase + 2 ELSE phase + 1
       IN  /\ phase' = nxt
           /\ intr' = TRUE
           /\ sched' = (Phases[nxt] = "loop" /\ ~gui)
    /\ UNCHANGED <<gui, heap, held, pending, len, cap, keys, fault>>

\* Main-line code takes a lock: spin::Mutex::lock with IF set.
Take ==
    /\ Running /\ held = {}
    /\ \E l \in MainLocks(Ph, gui) : held' = {l}
    /\ UNCHANGED <<phase, gui, intr, heap, sched, pending, len, cap, keys, fault>>

\* ... and drops it.  heap::init's ALLOCATOR.lock().init makes the heap
\* usable; read_key pops an event under KEYBOARD_BUFFER (has_key only
\* looks).
Release ==
    /\ Running /\ held # {}
    /\ held' = {}
    /\ heap' = (heap \/ held = {ALLOCATOR})
    /\ \/ len' = len
       \/ held = {KBUF} /\ len > 0 /\ len' = len - 1
    /\ UNCHANGED <<phase, gui, intr, sched, pending, cap, keys, fault>>

(***************************************************************************)
(* Devices and handlers                                                    *)
(***************************************************************************)

\* A device raises its line: the PIT from pit::init on (in arch::init),
\* the keyboard at any time (its IRQ1 is enabled by the firmware and again
\* by init_ps2), the mouse once mouse::init has enabled IRQ12.
Raise ==
    /\ Running
    /\ \E l \in Lines \ pending :
          /\ l = 1 => keys < MAX_KEYS
          /\ l = 12 => gui /\ phase >= 6
          /\ pending' = pending \cup {l}
          /\ keys' = IF l = 1 THEN keys + 1 ELSE keys
    /\ UNCHANGED <<phase, gui, intr, heap, sched, held, len, cap, fault>>

\* The locks irq_common_handler's callee takes: timer_tick takes SCHEDULER
\* once SCHEDULER_ENABLED (current is never Some, so not PROCESSES);
\* keyboard::handle_interrupt returns after EXTENDED_KEY on an E0 prefix,
\* and otherwise (process_scancode always yields an event) takes
\* KEYBOARD_BUFFER and, when push_back must grow the deque, ALLOCATOR;
\* mouse::handle_interrupt takes MOUSE.
Grows == len < BUF_MAX /\ len = cap
Needs(l, e0) ==
    CASE l = 0 -> IF sched THEN {SCHEDULER} ELSE {}
      [] l = 1 -> IF e0 THEN {} ELSE {KBUF} \cup (IF Grows THEN {ALLOCATOR} ELSE {})
      [] OTHER -> {MOUSE}

\* keyboard::handle_interrupt's push_back, bounded by buffer.len() < 256.
Push ==
    IF len < BUF_MAX
    THEN len' = len + 1 /\ cap' = IF Grows THEN Grow(cap) ELSE cap
    ELSE UNCHANGED <<len, cap>>

\* The CPU takes the highest-priority pending line when IF is set, and the
\* handler runs to send_eoi and iretq, or hangs.
Interrupt ==
    /\ Running /\ intr
    /\ \E l \in pending, e0 \in BOOLEAN :
          /\ \A m \in pending : Prio[l] <= Prio[m]
          /\ e0 => l = 1
          /\ pending' = pending \ {l}
          /\ \/ Needs(l, e0) \cap held # {} /\ fault' = "spin" /\ UNCHANGED <<len, cap>>
             \/ /\ Needs(l, e0) \cap held = {}
                /\ ALLOCATOR \in Needs(l, e0) /\ ~heap
                /\ fault' = "alloc" /\ UNCHANGED <<len, cap>>
             \/ /\ Needs(l, e0) \cap held = {}
                /\ ALLOCATOR \in Needs(l, e0) => heap
                /\ fault' = fault
                /\ IF KBUF \in Needs(l, e0) THEN Push ELSE UNCHANGED <<len, cap>>
    /\ UNCHANGED <<phase, gui, intr, heap, sched, held, keys>>

Next == Advance \/ Take \/ Release \/ Raise \/ Interrupt

Spec == Init /\ [][Next]_vars

(***************************************************************************)
(* Properties                                                              *)
(***************************************************************************)

\* Every interrupt handler returns: none spins on a lock held by the code
\* it interrupted, and none allocates before heap::init has run.
HandlersReturn == fault = "none"

TypeOK ==
    /\ phase \in 1..Len(Phases) /\ held \subseteq {ALLOCATOR, KBUF, MOUSE, SCHEDULER}
    /\ pending \subseteq Lines /\ len \in 0..BUF_MAX /\ keys \in 0..MAX_KEYS
    /\ fault \in {"none", "spin", "alloc"}

====
