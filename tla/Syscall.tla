------------------------------ MODULE Syscall ------------------------------
(***************************************************************************)
(* The system-call path of CottonOS on x86_64: the userspace wrappers      *)
(* (userspace/src/syscall.rs), the two ways into the kernel (the SYSCALL   *)
(* instruction, whose LSTAR target syscall/mod.rs sets, and the ring-3     *)
(* trap gate at vector 0x80 of idt.rs), the gate's register save, the      *)
(* frame decode of syscall_handler_inner, the dispatch of syscall::handle  *)
(* and the register restore before iretq.                                  *)
(*                                                                         *)
(* Registers hold small integers; 0 is a value no caller passes.  A        *)
(* handler is abstracted to its number and the arguments it reads.         *)
(***************************************************************************)
EXTENDS Integers, Sequences, TLC

CONSTANTS
    Vals,       \* argument values callers pass (positive integers)
    MAX_CALLS   \* bound on the calls a program makes

\* syscall_numbers (syscall/mod.rs), repeated in userspace/src/syscall.rs.
SYS_EXIT == 0
SYS_FORK == 1
SYS_EXEC == 2
SYS_WAIT == 3
SYS_GETPID == 4
SYS_GETPPID == 5
SYS_YIELD == 6
SYS_SLEEP == 7
SYS_OPEN == 10
SYS_CLOSE == 11
SYS_READ == 12
SYS_WRITE == 13
SYS_SEEK == 14
SYS_STAT == 15
SYS_FSTAT == 16
SYS_MKDIR == 20
SYS_RMDIR == 21
SYS_UNLINK == 22
SYS_READDIR == 23
SYS_CHDIR == 24
SYS_GETCWD == 25
SYS_BRK == 30
SYS_UNAME == 40
SYS_TIME == 41
SYS_UPTIME == 42
ENOSYS == -38

\* syscall::handle: the numbers it dispatches, each with the number of
\* arguments its handler reads; any other number gets ENOSYS.
Uses ==
    [n \in {SYS_FORK, SYS_GETPID, SYS_GETPPID, SYS_YIELD, SYS_TIME, SYS_UPTIME} |-> 0]
    @@ [n \in {SYS_EXIT, SYS_WAIT, SYS_SLEEP, SYS_CLOSE, SYS_MKDIR, SYS_RMDIR,
               SYS_UNLINK, SYS_CHDIR, SYS_BRK, SYS_UNAME} |-> 1]
    @@ [n \in {SYS_EXEC, SYS_OPEN, SYS_STAT, SYS_FSTAT, SYS_GETCWD} |-> 2]
    @@ [n \in {SYS_READ, SYS_WRITE, SYS_SEEK} |-> 3]

\* What the handler computes from: its number and the arguments it reads.
Handle(num, args) ==
    IF num \in DOMAIN Uses
    THEN [num |-> num, args |-> SubSeq(args, 1, Uses[num])]
    ELSE [num |-> ENOSYS, args |-> <<>>]

\* The high-level wrappers of userspace/src/syscall.rs: the number each
\* passes and how many arguments (syscall0 .. syscall3).
Wrappers ==
    { [num |-> SYS_EXIT, n |-> 1], [num |-> SYS_FORK, n |-> 0],
      [num |-> SYS_GETPID, n |-> 0], [num |-> SYS_GETPPID, n |-> 0],
      [num |-> SYS_YIELD, n |-> 0], [num |-> SYS_SLEEP, n |-> 1],
      [num |-> SYS_WRITE, n |-> 3], [num |-> SYS_READ, n |-> 3],
      [num |-> SYS_OPEN, n |-> 2], [num |-> SYS_CLOSE, n |-> 1],
      [num |-> SYS_MKDIR, n |-> 1], [num |-> SYS_CHDIR, n |-> 1],
      [num |-> SYS_GETCWD, n |-> 2] }

\* The order in which syscall_handler pushes the registers.
PushOrder ==
    <<"rax", "rbx", "rcx", "rdx", "rsi", "rdi", "rbp",
      "r8", "r9", "r10", "r11", "r12", "r13", "r14", "r15">>
RegNames == {PushOrder[i] : i \in 1..15}

\* The argument registers of the calling convention, in order.
ArgRegs == <<"rdi", "rsi", "rdx", "r10", "r8">>

\* syscallN: rax is the number, the arguments go in rdi, rsi, rdx.
SetArgs(r, num, args) ==
    [x \in RegNames |->
        IF x = "rax" THEN num
        ELSE IF \E i \in DOMAIN args : ArgRegs[i] = x
             THEN args[CHOOSE i \in DOMAIN args : ArgRegs[i] = x]
             ELSE r[x]]

\* After the 15 pushes rsp points at the last one: frame[k] is the
\* register pushed (15 - k)-th, frame[0] is r15.
PushAll(r) == [k \in 0..14 |-> r[PushOrder[15 - k]]]

\* syscall_handler_inner's reads of the frame.
Decode(frame) ==
    [num  |-> frame[14],
     args |-> <<frame[9], frame[8], frame[7], frame[6], frame[5]>>]

\* The pops before iretq, r15 first: each register gets its own slot back.
PopAll(frame) == [x \in RegNames |-> frame[15 - CHOOSE i \in 1..15 : PushOrder[i] = x]]

VARIABLES
    regs,   \* the caller's register file
    frame,  \* the registers syscall_handler pushed
    pc,     \* "user", "lost" (in the SYSCALL stub), "trap", "inner", "iret"
    call,   \* the call the program made: [num, args]
    got,    \* what syscall::handle received
    calls   \* calls made so far

vars == <<regs, frame, pc, call, got, calls>>

None == [num |-> ENOSYS, args |-> <<>>]

Init ==
    /\ regs = [x \in RegNames |-> 0]
    /\ frame = [k \in 0..14 |-> 0]
    /\ pc = "user"
    /\ call = None /\ got = None
    /\ calls = 0

\* A userspace wrapper loads the registers and executes SYSCALL.  LSTAR
\* points at syscall_entry_x86_64, whose body is empty: its ret pops the
\* user's stack top at CPL 0, and no path leads to syscall::handle.
Syscall(w, args) ==
    /\ pc = "user" /\ calls < MAX_CALLS
    /\ regs' = [SetArgs(regs, w.num, args) EXCEPT !["rcx"] = 0, !["r11"] = 0]
    /\ call' = [num |-> w.num, args |-> args]
    /\ pc' = "lost"
    /\ calls' = calls + 1
    /\ UNCHANGED <<frame, got>>

\* A ring-3 program loads the calling convention's registers and traps
\* through the DPL-3 gate at vector 0x80.
Int80(num, args) ==
    /\ pc = "user" /\ calls < MAX_CALLS
    /\ regs' = SetArgs(regs, num, args)
    /\ call' = [num |-> num, args |-> args]
    /\ pc' = "trap"
    /\ calls' = calls + 1
    /\ UNCHANGED <<frame, got>>

\* syscall_handler: push every register, pass rsp as the frame pointer.
Push ==
    /\ pc = "trap"
    /\ frame' = PushAll(regs)
    /\ pc' = "inner"
    /\ UNCHANGED <<regs, call, got, calls>>

\* syscall_handler_inner: decode the frame and call syscall::handle, whose
\* result it drops (rax is popped back as the caller left it).
Inner ==
    /\ pc = "inner"
    /\ LET d == Decode(frame) IN got' = Handle(d.num, d.args)
    /\ pc' = "iret"
    /\ UNCHANGED <<regs, frame, call, calls>>

\* Pop every register and iretq back to the caller.
Iret ==
    /\ pc = "iret"
    /\ regs' = PopAll(frame)
    /\ pc' = "user"
    /\ UNCHANGED <<frame, call, got, calls>>

Next ==
    \/ \E w \in Wrappers : \E args \in [1..w.n -> Vals] : Syscall(w, args)
    \/ \E num \in DOMAIN Uses \cup {SYS_READDIR} :
          \E k \in 0..3 : \E args \in [1..k -> Vals] : Int80(num, args)
    \/ Push \/ Inner \/ Iret

Spec == Init /\ [][Next]_vars

(***************************************************************************)
(* Properties                                                              *)
(***************************************************************************)

\* The handler syscall::handle dispatches to receives the caller's number
\* and, for every argument it reads, the value the caller put in that
\* argument's register of the calling convention (spec 4.O: num in RAX,
\* arguments in RDI, RSI, RDX, R10, R8; syscall_handler_inner's comments
\* name the same registers).
ArgsDecoded ==
    pc = "iret" =>
        /\ got.num = (IF call.num \in DOMAIN Uses THEN call.num ELSE ENOSYS)
        /\ \A i \in 1..Len(got.args) : i <= Len(call.args) => got.args[i] = call.args[i]

\* Every call a userspace wrapper makes reaches syscall::handle.
CallDispatched == pc # "lost"

TypeOK ==
    /\ regs \in [RegNames -> Nat]
    /\ pc \in {"user", "lost", "trap", "inner", "iret"}
    /\ calls \in 0..MAX_CALLS

====
