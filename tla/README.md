# TLA+ models of CottonOS

This directory holds TLA+ specifications of parts of the CottonOS kernel
(`src/kernel/src`), the TLC configurations that check them, and
`PROJECT.json`, which records every component, run, mutant, source mapping,
finding and hazard in machine-readable form.

## The system and its parts

CottonOS is a single-CPU x86_64 kernel. At boot `kernel_main` (`main.rs`)
initialises the parts in order: CPU tables (GDT, IDT, PIC, PIT), physical
memory (`mm/physical.rs`), paging and the heap, drivers (console, serial,
keyboard, mouse, ATA storage), the filesystem layer (`fs/mod.rs`, which mounts
CottonFS on the ATA disk, or a RamFS if no disk is usable, plus DevFS), the
process table and scheduler, and system calls. The kernel then runs the GUI
or the shell as its main loop, with interrupts enabled.

There are two sources of concurrency:

* **Interrupts.** IRQ0 runs `scheduler::timer_tick`, IRQ1 the keyboard
  handler and IRQ12 the mouse handler. They take the same `spin::Mutex`es as
  main-line code, and no code path disables interrupts around those locks.
* **Scheduled processes and threads** (`proc/`), with the primitives of
  `sync/` built on top of them.

The filesystem and the frame allocator are called only from main-line code
(shell, GUI, process creation), so their calls do not interleave with each
other.

| Part | Source | Model | Status |
|---|---|---|---|
| Physical frame allocator | `mm/physical.rs` | `FrameAllocator`, used by `Memory` | modelled |
| CottonFS | `fs/cottonfs.rs` | `CottonFS` | partly (no I/O errors) |
| VFS path layer, mount table | `fs/mod.rs`, `fs/vfs.rs` | `VFS` refining `FileTree` | partly (no fd table) |
| RamFS | `fs/mod.rs` | `VFS` | modelled |
| DevFS | `fs/devfs.rs` | `VFS` | partly (path level only) |
| ATA driver | `drivers/storage/ata.rs`, `read_block`/`write_block` of `fs/cottonfs.rs` | `ATA` | partly (no IDENTIFY probing) |
| Paging, virtual memory, heap | `arch/x86_64/paging.rs`, `mm/` | `Memory` | partly (heap allocator is external) |
| Scheduler, process table, process syscalls | `proc/scheduler.rs`, `proc/mod.rs`, `proc/process.rs`, `syscall/handlers.rs` | `Scheduler` | partly (no threads) |
| Mutex, RecursiveMutex, RwLock, semaphores, barrier, once | `sync/` | `Sync` | partly (CondVar: `wait` is `todo!()`) |
| IDT / IRQ dispatch, PIC, boot order | `arch/x86_64/idt.rs`, `arch/x86_64/mod.rs`, `main.rs` | `Interrupts` | partly (no exceptions, APIC unused) |
| System calls | `syscall/`, `arch/x86_64/idt.rs`, `userspace/src/syscall.rs` | `Syscall` | partly (entry, decode, dispatch; handlers elsewhere) |
| GUI text editor | `gui/mod.rs` | `Editor` | partly (no window stack or drawing) |
| Keyboard, mouse | `drivers/keyboard.rs`, `drivers/mouse.rs` | `Keyboard`, `Mouse` | partly (no controller setup) |
| VGA text console, shell echo | `drivers/console.rs`, `shell.rs` | `Keyboard` | partly (cursor only, no cell contents) |
| Serial, GDT, CPU, shell command parsing, GUI windows | various | – | not modelled (I/O, one-shot setup, presentation) |

## Modules

### FrameAllocator (`FrameAllocator.tla`, checked inside `Memory`)

This module models `mm/physical.rs`.

**State.** The `FrameAllocator` struct becomes:
* `bitmap`: the set of pages whose bit is 1;
* `first_free`, `total_pages` and `free_pages`.

Two variables record what callers hold and see:
* `held`: the blocks callers own;
* `last`: the result of the latest allocation.

**Atomicity.** Every public call takes the global `FRAME_ALLOCATOR` mutex for
its whole duration. Each of these calls is therefore one action:
* `alloc_frame` and `alloc_frames`, as `AllocFrames(c)`. This dispatches to
  `AllocPage` (`alloc`) or `AllocContiguous` (`alloc_contiguous`).
* `free_frame`, as `FreeFrame`.
* `free_frames`, as `FreeFrames`.

**Init.** `Init` is `init` over a memory map. All pages start allocated. The
Available pages are freed by `mark_free`. Low memory and the kernel image are
then marked allocated again by `mark_allocated`, and the hint is set to the
lowest clear bit. `mark_allocated`, `mark_free` and `is_allocated` are the
operators `MarkAllocated`, `MarkFree` and `IsAllocated`. They keep each
function's bound checks, saturation and "count only flipped bits" rule.

**MC instance.** The allocator is checked through `MCMemory.tla`, whose
bitmap has 8 pages:
* page 0 is low memory;
* page 1 is the kernel image, which the memory map also lists as
  Available (`mark_allocated` after `mark_free` must win);
* pages 2–7 are Available, up to the last page the bitmap covers.

Callers ask for 1 or 2 frames (`MC_Counts`). These sizes exercise:
* the single-page path;
* contiguous runs that restart after an allocated page;
* runs that reach the end of the bitmap;
* the hint reaching `MAX_PAGES`.

### CottonFS (`CottonFS.tla`, `MCCottonFS.tla`)

This module models `fs/cottonfs.rs`: the device contents and the mounted
filesystem.

**Disk state** is held in these variables:
* `dsb`: the superblock counters;
* `dibm` and `ddbm`: the inode and data bitmaps;
* `dinode`: the inode table, with type, size and direct pointers;
* `dblock`: the data blocks, each holding `CELLS` cells.

**Memory state** mirrors the `CottonFS` struct:
* `sb`, `ibm` and `dbm`;
* `cache`, which is `inode_cache`. Each entry holds the cached `disk_inode`,
  `dir_entries`, `file_data` and the `dirty` flag.

**Actions.** Each `Inode` method is one action, with all of its calls
included. `Lookup`, `Readdir`, `Read`, `Create` and `Mkdir` (both through
`CreateNode`), `Unlink`, `Write`, `Truncate` and `InodeSync` come from
`CottonInode`. The calls they make are inlined into the action:
* `alloc_inode` and `free_inode`;
* `alloc_block` and `free_block`;
* `write_disk_inode` and the metadata syncs;
* `save_dir_entries` and `save_file_data`, through `WriteBlocks` and
  `FreeTail`.

`FsSync` is `FileSystem::sync`: every dirty inode in inode order, stopping at
the first error. `Reboot` discards memory and runs `CottonFS::new` on the
device as it is.

**Reachability.** Callers reach an inode only by path lookup from the root
(`fs/mod.rs` `resolve_path`), so actions range over `Reach`, the inodes a
chain of loaded entries leads to from the root.

**Failures.** The failures modelled are the allocators' "No free blocks" and
"No free inodes". These are returned half-way through a save, keeping what
was already done.

**Data abstraction.**
* A directory entry is an (inode, name) cell.
* A byte of a file is a value cell.
* A block holds `CELLS` cells; sizes count cells.

**MC instance.**
* 4 inode slots (0 unused, 1 root, two more);
* 2 data blocks of one cell each;
* 2 direct pointers;
* names `a` and `b`;
* writes and truncates up to 2 cells.

With two blocks, one create plus a one-cell write already fills the disk, so
the out-of-space paths are reached. The symmetry set swaps the two names,
which the code treats alike. A state constraint bounds `free_inodes` by
its initial value `MAX_INODES - 1`: the double free below makes that counter
unbounded. The bound keeps the state space finite, and a double free still
shows up, because after a create and an unlink the count exceeds the clear
bits while staying under the bound.

### Memory (`Memory.tla`, `MCMemory.tla`)

This module models paging (`arch/x86_64/paging.rs`), the kernel address
space (`mm/virtual_mem.rs`), the heap's page set-up (`mm/heap.rs`) and the
stack allocations of `proc/process.rs`, all over an `INSTANCE` of
`FrameAllocator`. The allocator is thus checked under its real callers.

**Addresses.** Addresses are page numbers. A virtual page has one index bit
per level (PML4, PDPT, PD, PT), so 16 virtual pages stand for the 48-bit
space and each table has two entries. `paging::init` identity-maps physical
memory with huge PD entries of two frames each, as the code maps 4 GiB with
2 MiB pages. A table is named by its frame; the static tables of the kernel
image have negative names.

**State.** `mem` is the contents of every table. `regions` and `kas` are the
kernel `AddressSpace`; `heapEnd` and `heapFrames` are `HEAP_END` and the
frames the heap took. `walk` is a `map_page` in progress, and `call` the
caller (`heap::init`, `extend_heap`, `kernel_alloc`, `unmap_region`, a stack
allocation) it returns to.

**Actions.** `map_page` is split at its table levels (`StartWalk`,
`MapLevel`), the steps at which it may allocate a table frame. `AfterMap`
is the caller's loop continuing. `VmInit`, `PageLoop` (`heap::init` and
`extend_heap`), `KernelAlloc` (`find_free_region`, then `map_region`),
`UnmapRegion`/`UnmapLoop` and `AllocStack` are the calls; `Translate` and
`PteOf` are `paging::translate` and the walk of `unmap_page`.

**MC instance.** 8 frames, a heap of one page that may grow to two,
regions of 1 or 2 pages, at most 6 calls after boot. About 150k states.

### VFS and FileTree (`VFS.tla`, `FileTree.tla`, `MCVFS.tla`)

`FileTree` is the abstract specification of the path API: a tree of
directories, files and devices, keyed by normalised path. Each call either
fails with no effect or does what its name says. `out` records the latest
call, its path and its result.

`VFS` models `fs/mod.rs` as it runs without a disk: a RamFS root with DevFS
mounted at `/dev`.

**State.** `ram` is the RamFS inode table: inode number to a directory
(entries, parent) or a file (bytes). `inoFile` and `inoDir` are the two
`NEXT_INO` statics of `RamInode::create` and `RamInode::mkdir`. DevFS nodes
are static, with negative numbers.

**Operators.** Each function of the code is one operator over a record
`[ram, inoFile, inoDir, out]`:
* the path layer: `Lookup` (the mount table first, then the root),
  `ResolveFrom` (`resolve_path`), `SplitPath`;
* the `RamInode` methods;
* `DevLookup` and `DevListing` for the `/dev` directory;
* the path API: `Mkdir`, `Create`, `Remove`, `WriteFile` (truncate, then
  write), `ShellWrite` (look up or create, then write at offset 0),
  `ReadFile`, `ReadDir`.

`Boot` is `fs::init`: the directory tree, then `/etc/hostname` and
`/etc/version`.

**Actions.** Each action is one call of the path API on a path from
`Inputs`, a small set of paths callers build, including `.` and empty
components. Only the calls that change state count towards `MAX_OPS`.

**Refinement.** `FT == INSTANCE FileTree` maps `ram` to the tree of paths
reachable from the root and from `/dev`, through `VisibleTree`. It also maps
each input path to its normal form. `FileTreeSpec` is `FT!Spec`. The
auxiliary variable `view` holds `VisibleTree(ram)` so that TLC computes it
once per state.

**Contract.** `FileTree.Remove` is the documented one, "Remove file or
empty directory": it applies to a file, a device, an empty directory or an
absent name, and removes just that node.

**MC instance.** The 9 paths of `MC_Inputs` exercise:
* new names at the root, under `/tmp` and under a new directory;
* an empty component and a `.` component;
* an existing system file;
* a device, and a missing name under `/dev`;
* `/tmp` itself.

Data strings of length 1 and 2 tell truncation from overlay. There are at
most 3 updating calls, enough for two `mkdir`s and a `remove` of the
outer directory. `MC_Inputs` has no bare `/dev` and no trailing slash:
`MCVFS_DevMount.cfg` and `MCVFS_TrailingSlash.cfg` add them (Findings 14
and 15).

### Scheduler (`Scheduler.tla`, `MCScheduler.tla`)

This module models the process table (`PROCESSES`, `proc/mod.rs`), the
round-robin scheduler (`SCHEDULER`, `proc/scheduler.rs`) and the calls that
use them from main-line code, against IRQ0.

**State.** `procs` is `PROCESSES` (pid to state and time slice), `queue` the
Normal run queue (the only priority in use), `current` the scheduler's
current pid, `enabled` `SCHEDULER_ENABLED`. The main line is one thread of
control: `pc` is the call in progress and how far it got, `held` the lock
it holds at that point, `cpid` its last `current_pid()`. `left` is the
remaining length of a `sleep_ms` busy wait, `sw` a pending
`do_context_switch`.

**Boot.** `Init` is the state after `proc::init` (init, pid 1, is put in
the table, state Created, and not in a queue) and `scheduler::init` (the
idle process takes pid 2 and goes in neither). Then `GuiRun` (GUI mode,
`gui::run` never returns, the scheduler is never started) or `Start`
(`scheduler::start`, then the shell).

**Actions.** Each main-line call is split at its lock boundaries, because
IRQ0 can arrive between any two of them: `Ps` (`stats` under `SCHEDULER`),
`SysCall` (the entry of getpid, fork, exit, sleep, yield and wait),
`CurrentPid`, `GetProcess`, `MarkProcess`, `Schedule`, `ContextSwitch`,
`SleepLoop`, and `Leave`, which releases the lock and moves to the next
step. `TimerTick` is `timer_tick` from IRQ0: it advances `TICK_COUNT` and,
when the scheduler runs, charges the current slice and calls `schedule`
when it runs out. An IRQ0 that finds a lock held sets `fault` to "spin";
`Stuck` is the hung machine.

**MC instance.** `TIME_SLICE` 2 (so a slice runs out after two ticks),
sleeps of 0, 1 and 2 ticks, waits on pid 1 and 2. 444 states.

### Keyboard (`Keyboard.tla`, `MCKeyboard.tla`)

This module models the IRQ1 path of `drivers/keyboard.rs` and the shell's
`read_line` loop that drains it.

**State.** `wire` is the bytes the keyboard has still to deliver, `ext`
`EXTENDED_KEY`, `mods` `MODIFIERS`, `buffer` `KEYBOARD_BUFFER`. The
reader has `pc` (`has_key` or `get_char`), `held` (it holds
`KEYBOARD_BUFFER`), `avail` and `last` (the results of `has_key` and
`read_key`). Ghosts: `down` (keys held), `typed` (every key transition, in
order), `dropped` (transitions that met a full buffer) and `got` (events
`get_char` took).

**Actions.** `Press` and `Release` queue the make or break bytes of a key
(the E0 prefix for right control). `KeyIrq` is `handle_interrupt` with
`process_scancode`: a prefix sets `ext`, any other byte is decoded with the
normal or extended table, clears `ext`, updates the modifiers and is
appended to the buffer, or dropped when it is full. `HasKey`, `ReadKey` and
`Unlock` are the `KEYBOARD_BUFFER` sections of `has_key` and `read_key`
and the control flow of `get_char`/`read_line` between them.

**Console.** `read_line` echoes what `get_char` returns, so the module
also keeps the VGA console's cursor `con` (`row`, `col`, and `bad`, set
once a write landed outside the `WIDTH * HEIGHT` buffer), `buflen` (the
length of `buf`) and `out`, the bytes the shell still has to write.
Characters are classes: printable, newline, backspace. `HandleChar` is
`read_line` on one character. A printable one is pushed and echoed. A
backspace on a non-empty `buf` pops and echoes `\x08 \x08`. A newline
writes `kprintln!("")`, then, for a non-empty line, `run`'s
"Unknown command" reply (33 + n bytes and a newline; the letters typed
are never a command), then the next prompt `cotton:/> `. `Echo` is one
`write_byte`, with the wrap before a printable byte (`WrapIfFull`), the
scroll before it, and the closing scroll check (`ScrollIfBelow`).
`read_line` polls again only once `out` is written. IRQ1 can still fire
between two bytes, since the console lock does not mask interrupts.

**MC instance.** Capacity 2; the keys are A, Enter, Backspace, left
shift, caps lock and right control; at most four transitions. The
screen is 8 by 2 rather than 80 by 25. The typed lines are at most two
letters, so at 80 columns nothing but the replies would ever wrap. At 8
columns the prompt, the echo and every reply cross the right edge and the
bottom line. About 256k states, in 45 s.

### Mouse (`Mouse.tla`, `MCMouse.tla`)

This module models `drivers/mouse.rs`: the packet accumulator fed by IRQ12,
the race of `init`'s replies between polling and IRQ12, and the GUI loop's
`MOUSE` sections (`gui/mod.rs` `handle_mouse` and `run`).

**State.** `cycle`, `bytes`, `hasWheel`, `x`, `y`, `buttons`, `scroll` are
the `MouseState` fields. `wire` is the bytes in flight, `replies` how many
of them are still `init`'s replies (eight ACKs, the device ID, the ACK of
`0xF4`), `dev` whether the device is an IntelliMouse. The GUI has `pc`
(which getter comes next) and `held`. Ghosts: `sent` and `count` (packets
the device sent), `applied` (the last packet `process_byte` applied),
`moved` and `seen` (wheel deltas applied and read).

**Actions.** `Report` is the device encoding a movement packet. `MouseIrq`
is `handle_interrupt`: `process_byte` under `MOUSE` (`ProcessByte`: the
bit-3 test at cycle 0, the overflow discard, sign extension, wheel byte,
clamping). `PollReply` is `mouse_read` taking a reply first. A reply taken
by IRQ12 is also seen by `init`: its wait times out and reads the latched
data port. `GuiLock`/`GuiUnlock` are the four getter calls of one GUI loop
iteration; `get_scroll_delta` clears the delta.

**MC instance.** A 4 by 3 screen, wheel −1, 0, 1, two packets, both
device kinds. `MCMouse_Fast.cfg` (the `mouse` run) uses deltas 0 and 8: a
delta byte of 8 has bit 3 set, so it passes the resync test as a first
byte. `MCMouse_Scroll.cfg` uses deltas 0 and ±1 (bytes 0x00, 0x01, 0xFF).

### Sync (`Sync.tla`, `MCSync.tla`)

This module models the primitives of `sync/`: `Mutex`, `RecursiveMutex` and
`RwLock` (`mutex.rs`), `Semaphore` and `BinarySemaphore` (`semaphore.rs`),
`Barrier` and `Once` (`condvar.rs`). No kernel code calls them yet, and
the scheduler never switches context, so their races cannot happen in the
kernel as it is; the model checks them for the callers they are written
for, threads that the timer preempts anywhere, and `PROJECT.json` lists no
hazards for them. `Mutex` (one compare-exchange) and `Once` (a claim
under a spin lock) are modelled but have no property: mutual exclusion
and run-once there restate a single guard.

**Granularity.** One step is one atomic operation: a load, a store, a
`compare_exchange`, a `fetch_add`/`fetch_sub`, or a whole `spin::Mutex`
section. A retry loop whose body is a load and `yield_now()` becomes a
guard that waits for the loaded condition. Each caller has `pc` (the step
it is at), `loc` (a loaded count or generation) and `depth` (its
`RecursiveMutexGuard`s).

**Left out.** The waiters queues are pushed and popped but never read (every
wake-up is a TODO), and `Mutex::owner` is stored but never read.
`CondVar::wait` always reaches `todo!()`.

**Callers.** A caller is identified by `current_pid()`, which is `Pid[t]`.
That is 0 when there is no current process (`unwrap_or(0)`).

**MC instance.** Two callers with pids 1 and 2, one semaphore unit, a
two-party barrier used for two rounds, nesting two deep. About 127k states.
`MCSync_PidNone.cfg` gives both callers pid 0.

### Syscall (`Syscall.tla`, `MCSyscall.tla`)

This module models the path of a system call on x86_64, from the registers
a program loads to the registers it gets back:
* `Syscall`: a wrapper of `userspace/src/syscall.rs` puts the number in rax
  and the arguments in rdi, rsi and rdx, then executes SYSCALL. LSTAR points
  at `syscall_entry_x86_64` (`syscall/mod.rs`), whose body is empty, so the
  call ends in state `"lost"`.
* `Int80`: a ring-3 program loads the registers of the calling convention
  and traps through the DPL-3 gate at vector 0x80 (`idt.rs`).
* `Push`: `syscall_handler` pushes the 15 general registers. `frame[k]` is
  the register pushed (15 − k)-th.
* `Inner`: `syscall_handler_inner` reads the number and arguments from the
  frame, and `syscall::handle` dispatches on the number. A handler is
  abstracted to its number and the arguments it reads (`Uses`).
* `Iret`: the pops and `iretq`.

**MC instance.** Argument values 1 and 2, with 0 standing for a register
no caller set; two calls. Every dispatched number is tried with up to three
arguments.

### Editor (`Editor.tla`, `MCEditor.tla`)

This module models the GUI's text editor (`TextEditorState`, `gui/mod.rs`
78–432) as the GUI loop drives it. Each key event goes first to
`handle_key_event` and then, if `keyevent_to_char` gives a character, to
`handle_keyboard` (`run`, 2819–2832). The mouse reaches the toolbar's
Save, Save As, Undo and Redo, and the text area. The file manager opens a
file.

The variable `ed` is the focused editor: its lines (byte sequences, since
Rust indexes strings by byte), cursor, scroll offsets, name, `modified`
flag and undo and redo stacks. `file` is the edited file's bytes, or `{}`
when it does not exist. Each action is one iteration of the loop with all
the calls it makes; for example `KeyDelete` is `delete_forward`, then
`delete_char` for the `'\x7f'` of the same event, then
`ensure_cursor_visible`. Save As writes the text captured when its button
was clicked and reopens the file; it is one step, under the same name.
Tab (four spaces) is left out, and so are the blink, the never-read
`selection_start`, and the drawing.

**MC instance.** One typed character, a file `x` (or `lead cont`, a
two-byte UTF-8 character, for `MCEditor_Utf8.cfg`), a window of 2 by 2
cells, a page of 1 line, an undo limit of 2, and at most 2 bytes of text.
That allows two lines of different lengths, joins, splits, an empty last
line, and a full undo history. About 508k states, in 45 s.

### ATA (`ATA.tla`, `MCATA.tla`)

This module models the ATA PIO driver (`drivers/storage/ata.rs`) as CottonFS
calls it: `read_block` and `write_block` (cottonfs.rs:1292-1303) turn block
`b` into `SECTORS_PER_BLOCK` sectors from LBA `b * 8` and call
`BlockDevice::read` / `write`, which are `read_sectors` and `write_sectors`.

**State.**
* `drv`: the call in progress. `pc` is where the driver's code is: in the
  per-sector poll loop of a read or a write, about to call `flush`, or in
  `flush`'s BSY loop. `k` counts the sectors written, `got` holds the
  sectors read.
* `last`: the latest call's result, as CottonFS sees it.
* `dev`: the drive's task-file state (idle, BSY, DRQ, ERR, or hung with
  BSY), the running command, its next LBA, the sectors left, and the sector
  buffer.
* `disk`: what the drive returns for each sector. `media`: what a power
  loss leaves.
* `ops`: block calls made, bounded by `MAX_OPS`.

**Actions.** `ReadBlock` and `WriteBlock` program the task file and write
the command (`Issue`). `RdPoll` and `WrPoll` are one turn of the per-sector
loop: ERR returns `Err`, DRQ moves one sector with 256 `inw` or `outw`.
After the last sector `write_sectors` calls `flush` at once (`FlushIssue`),
which polls only for BSY clear (`FlPoll`). Each loop of 100000 status reads
is a single step. Its timeout is an action of its own (`RdTimeout`,
`WrTimeout`, `FlTimeout`), enabled only when the status it waits for
cannot come within the loop. `flush` returns Ok also after its timeout.
`Done` stutters once CottonFS has made its `MAX_OPS` calls.

**The drive** is the environment, modelled on the task-file protocol as
QEMU's IDE emulation implements it:
* a command written while BSY or DRQ is set is ignored;
* a data-port access outside a matching transfer reads garbage or is
  dropped;
* written sectors go to a write cache, which the drive writes back when it
  likes (`DevWriteBack`), and completely on FLUSH CACHE;
* an LBA past the end aborts with ERR.

With `FAULTS`, a busy command may abort with ERR or hang with BSY
(`DevFault`). With `SLOW`, a busy drive may outlast a poll loop.

`TotalBlocks` is `total_blocks()`, which the driver reports in sectors and
`Superblock::new` takes as the block count.

**Bounds.** `MCATA` has 4 sectors and 2 sectors per block. The loops over 8
sectors are the same loops with more turns. The filesystem therefore
believes there are 4 blocks, and blocks 2 and 3 lie past the end of the
drive. There are two contents, so a stale sector differs from a fresh one,
and three calls: enough for a failed or timed-out call followed by a read
of what it left behind.

The `ata` run sets both `FAULTS` and `SLOW`: a command may fail, hang, or
finish after the driver has timed out on it, and `CallsReturn` must hold
through all of it. What a late command does to the next call is the
subject of `ReadsReturnDisk`, which `MCATA_Timeout.cfg` violates
(Finding 22); with `SLOW` off no call ever follows a timed-out command
that is still running, so that property would say nothing there.

### Interrupts (`Interrupts.tla`, `MCInterrupts.tla`)

This module models interrupt delivery (`arch/x86_64/idt.rs`) against the
main-line kernel from `kernel_main` (`main.rs`) on. It composes what
Scheduler, Keyboard and Mouse each model for one lock: all three IRQ
handlers, the boot order, and every lock a handler shares with main-line
code.

**State.**
* `phase`: the call `kernel_main` is in, in its order (`arch`, `mm`,
  `proc`, `drivers`, `fs`, `gui_init` only with a framebuffer, `syscall`,
  then the main `loop`). `gui` is the framebuffer choice.
* `intr`: IF in main-line code. `arch::init` ends with `sti`
  (arch/x86_64/mod.rs:56).
* `heap`: `heap::init` has run `ALLOCATOR.lock().init`.
* `sched`: `SCHEDULER_ENABLED`, set by `scheduler::start` in text mode.
* `held`: the spin lock main-line code holds, one at a time.
* `pending`: the PIC's request register for lines 0, 1 and 12.
* `len`, `cap`: `KEYBOARD_BUFFER`'s length and capacity. `VecDeque` starts
  unallocated and doubles when full.
* `fault`: a handler that never returned, by spinning or by a failed
  allocation.

**Actions.**
* `Advance`: `kernel_main`'s next call.
* `Take` and `Release`: main-line code taking and dropping a lock of its
  phase (`MainLocks`). Releasing `KEYBOARD_BUFFER` may pop an event
  (`read_key`).
* `Raise`: a device raising its line. IRQ12 is raised only after
  `mouse::init`.
* `Interrupt`: with IF set, the highest-priority pending line runs its
  handler to EOI in one step, because interrupt gates clear IF, or the
  handler hangs.

**Bounds.** Three key bytes, and a deque that grows 0, 1, 2 up to a bound
of 3. That is enough for the first allocation, a regrowth and a full
buffer. The real `MIN_CAP` of 4 and bound of 256 only add turns.

## Runs

| Run | Result | What it shows |
|---|---|---|
| `memory` | pass, ~150k states | The frame allocator's `FreeCountAccurate` (`free_pages` is the number of clear bits), `FramesConserved` (set bits are exactly the reserved pages plus held blocks, which are disjoint) and `AllocCompleteness` (an allocation fails only when no free run exists), under `map_page`'s table allocation, `kernel_alloc`, `unmap_region`, the heap and the stacks. `MappedFramesAllocated`: no live mapping names a frame the bitmap has freed. |
| `memory_heap_backed` | violation | `HeapBacked`: after `heap::init` the heap's pages still translate through the boot-time huge pages to frames the allocator thinks are free. |
| `cottonfs` | pass, ~103k states | `MetadataWriteThrough`: after every call, even one that failed half-way, disk superblock and bitmaps equal memory. `BlockAccounting`: `free_blocks` + set bits = data blocks. `RefsAllocated`: every pointer of an allocated on-disk inode and of every cached inode names an allocated block. `BlocksExclusive`: no two direct pointers of live inodes, on disk or cached, name the same block, so no write of one file lands in another's data. |
| `cottonfs_inode_accounting` | violation | `InodeAccounting` (spec invariant 7): create, unlink, reboot, unlink again. The same inode is freed twice and `free_inodes` exceeds the clear bits. |
| `scheduler` | pass, 444 states | `SleepReturns`: with IRQ0 firing, every `sleep_ms` busy wait ends unless the machine hung, in text and GUI mode. |
| `interrupts` | violation | `HandlersReturn`: a key byte latched before `heap::init` makes IRQ1 allocate from the empty heap and panic (4 steps); later IRQ0, IRQ1 and IRQ12 each spin on a lock the interrupted code holds. |
| `keyboard` | pass, ~256k states | `DecodeFaithful`: the events taken plus those buffered are the user's key transitions in order, less those that met a full buffer. `EventsConsumed`: every buffered event is eventually taken. `VgaInBounds`: the echo, the prompts and the replies only write cells inside the VGA text buffer. |
| `mouse` | violation | `PacketIntegrity` under `MCMouse_Fast.cfg`: IRQ12 takes some of `init`'s replies, the accumulator is left mid-packet, and a delta byte of 8 passes the bit-3 resync test, so a packet the device never sent is applied (Finding 8). With deltas 0 and ±1 only, the resync happens to recover; that instance is not a run. |
| `sync` | pass, ~127k states | `RecursiveExclusion` (with nesting and the three-step acquire), `RwExclusion` (a reader racing a writer backs out), `SemConserved` (holders plus count equal the initial count), `BarrierSync` (nobody leaves a round before everyone arrived). |
| `vfs` | violation | `FileTreeSpec`: every call of the path API on RamFS with `/dev` mounted, from boot on, should be a step of `FileTree` on the normalised path, with the same result. `mkdir /a`, `mkdir /a/a`, `remove /a` is not: `remove` is documented for a file or an empty directory, and RamFS drops the non-empty directory whole (Finding 14). |
| `editor` | pass, ~508k states | `CursorInBounds`: over every sequence of keys, clicks, undo, redo, save, Save As and reopen, the cursor of the editor and of every undo and redo snapshot lies within the text. |
| `ata` | pass, ~396k states | `CallsReturn`: every block call returns, on a drive that aborts commands, hangs, or finishes a command after the driver gave up on it. |

`TypeOK` is defined in most modules but is not part of a run: no plausible
change of the code violates it, so it says nothing the other invariants do
not. Each property of a passing run has a mutant in `PROJECT.json`: a
plausible bug in a mapped definition, which TLC finds. The mutants are:

* dropping `mark_allocated`'s bit test;
* dropping `is_allocated`'s bound check;
* not lowering the hint in `free`;
* not syncing the bitmap in `free_block`;
* not setting the bit in `alloc_block`;
* `alloc_block` setting the bit of the next block instead of its own;
* not nulling the pointer in the shrink loop;
* `timer_tick` not advancing `TICK_COUNT`;
* `handle_interrupt` not clearing the E0 flag;
* `write_byte` without the wrap at the right edge;
* `has_key` testing for two events instead of one;
* the recursive unlock releasing at every count;
* `read` skipping the writer re-check;
* `wait`'s exchange not comparing the loaded count;
* the barrier leader elected one arrival early;
* `unmap_page` freeing the frame but leaving the entry;
* `move_up` not clamping the column to the shorter line above;
* the read poll loop without its iteration bound.

Some properties are defined and violated but have no run of their own,
because the project keeps one violation run per kind of bug:
* `DirPersisted`, `FreeInodeTyped` and `FilePersisted` (CottonFS): Findings 1, 2 and 4;
* `InitRuns` (Scheduler, `MCScheduler_InitRuns.cfg`): Finding 6;
* `RegionsAvoidHeap` (Memory): Finding 13;
* `FileTreeSpec` under `MCVFS_DevMount.cfg` and `MCVFS_TrailingSlash.cfg`, and `InoUnique` (VFS): Findings 14 to 16;
* `ShiftLevel` (Keyboard) and `ScrollConserved` (Mouse): Findings 7 and 9.
  `NoSpin` in Keyboard, Mouse and Scheduler is the one-lock form of
  `HandlersReturn`, which the `interrupts` run checks for all handlers at once;
* `RecursiveExclusion` under `MCSync_PidNone.cfg`: Finding 11;
* `BinaryBounded` under `MCSync_Binary.cfg`: Finding 10;
* `ArgsDecoded` under `MCSyscall.cfg` and `CallDispatched` under `MCSyscall_Dispatched.cfg`: Finding 17;
* `WritesDurable` under `MCATA_Durable.cfg`, `ReadsReturnDisk` under `MCATA_Timeout.cfg`
  and `HealthyCallsSucceed` under `MCATA_Healthy.cfg` (ATA): Findings 21 to 23;
* `DeleteRemovesOne`, `SavedReloads` and `CursorOnCharBoundary` under
  `MCEditor_Delete.cfg`, `MCEditor_Reload.cfg` and `MCEditor_Utf8.cfg`:
  Findings 18 to 20.

Each has a `.cfg` next to the others that shows the violation.

**Fairness.** FrameAllocator, Memory, Interrupts, CottonFS, VFS, Mouse, Sync, Syscall and Editor check only safety and are
plain `Init /\ [][Next]_vars`. Scheduler assumes weak fairness of
`TimerTick`: the PIT fires IRQ0 every 1 ms (`pit::init(1000)`, arch/x86_64/mod.rs:42) and interrupts are never
disabled. It also assumes weak fairness of the main line's internal steps,
since a single CPU keeps running the main line between interrupts. Keyboard
assumes weak fairness of `KeyIrq`, because the controller raises IRQ1 for
every byte. It also assumes weak fairness of the reader's steps and of `Echo`: `hlt` in
`read_line` ends at the next timer interrupt. ATA assumes weak fairness
of every driver step, timeouts included, because the CPU keeps running the
call's loop. It also assumes weak fairness of `DevStep`: a drive that has
not hung finishes its command. Faults, write-back and CottonFS's calls are
not fair. No fairness is assumed for
the user or the device, which may stop pressing keys or moving at any
time.

## Findings

1. `save_dir_entries` (cottonfs.rs:805) never clears or frees blocks a
   shrinking directory no longer needs. `load_dir_entries` reads up to the
   first null pointer, so removed entries come back after a remount
   (`DirPersisted`).
2. `free_inode` (cottonfs.rs:430) clears the bit but never resets the inode
   image, against spec invariant 5 (`FreeInodeTyped`).
3. `free_inode` (cottonfs.rs:431) counts an inode free without checking its
   bit. Together with 1, a remount lets the same inode be freed twice
   (`cottonfs_inode_accounting`).
4. `save_file_data` (cottonfs.rs:879, 900) stores at most 12 blocks but
   records the full size. Writes beyond 48 KiB are silently lost on remount
   (`FilePersisted`).
5. `timer_tick` (scheduler.rs:104) and `ps`/the process syscalls take
   `SCHEDULER`/`PROCESSES`, which are spin locks with interrupts enabled. A
   tick inside such a section spins forever: the kernel hangs
   (`interrupts`; TLC reports the shortest hang, a 4-state trace).
6. `proc::init` (proc/mod.rs:27) never queues init, and the idle process is
   not in the table. Only idle ever runs, `current()` is always None, so
   fork always fails and exit does nothing (`InitRuns`).
7. The same spin hang exists for IRQ1 on `KEYBOARD_BUFFER`
   (keyboard.rs:181) and IRQ12 on `MOUSE` (mouse.rs:205). Both are
   modelled in `Interrupts.tla`, but the run's trace shows only the
   shortest hang. Also, left and right shift share one flag
   (keyboard.rs:203): press both, release one, and shift is off while the
   other is held (`MCKeyboard_ShiftLevel.cfg`). And the E1 Pause sequence
   decodes as six keys (keyboard.rs:168).
8. `mouse::init` enables IRQ12 (mouse.rs:165) before its command sequence,
   so replies reach `process_byte` and misalign the packets; the bit-3
   resync does not recover (`mouse` run, `MCMouse_Fast.cfg`).
9. `process_byte` overwrites `scroll_delta` (mouse.rs:102) instead of
   accumulating it, losing wheel movements (`ScrollConserved`).
10. `BinarySemaphore::release` (semaphore.rs:95) checks the count and
    signals in two steps; two releases overshoot to 2 (`MCSync_Binary.cfg`).
11. `RecursiveMutex` (mutex.rs:123) knows its owner only by process id,
    or 0 without a current process. Two threads of one process, or any two
    callers in this kernel, where no table process is ever current
    (finding 6), both hold it at once.
12. `map_page` (paging.rs:201) follows a present PD entry as a table pointer
    without checking `HUGE_PAGE`. The heap at 32 MiB lies inside the
    boot-time 2 MiB identity pages, so `heap::init`'s mappings change no
    translation. The heap runs on frames the allocator counts as free
    (`memory_heap_backed`).
13. `find_free_region` (virtual_mem.rs:204) knows nothing of the heap, which
    is mapped without a region: `kernel_alloc` can return the heap's own
    pages (`RegionsAvoidHeap`).
14. `fs::remove` (fs/mod.rs:266) of a mount point resolves the parent in
    RamFS and unlinks a name RamFS never had. `rm /dev` reports success and
    `/dev` stays (`MCVFS_DevMount.cfg`). `RamInode::unlink` also reports
    success for a missing name, and (fs/mod.rs:617) removes a non-empty
    directory with everything under it, although `remove` (fs/mod.rs:265)
    and the shell's `rm` help (shell.rs:464) say "Remove file or empty
    directory" (`vfs` run).
15. `split_path` (fs/mod.rs:286) gives an empty name for a path ending in
    `/`. `mkdir /tmp/` succeeds and creates an entry named "" that no path
    reaches (`MCVFS_TrailingSlash.cfg`).
16. `RamInode::create` and `RamInode::mkdir` (fs/mod.rs:580, 601) each have
    their own `NEXT_INO` starting at 1000. The first directory and the
    first file created at boot (`/bin` and `/etc/hostname`) both have inode
    1000 (`InoUnique`), which `stat` and `readdir` report. `mkdir` and
    `create` also pass no parent, so `..` never resolves in RamFS.
17. `syscall_handler_inner` (idt.rs:561) reads arguments 2 to 5 from the
    frame slots of rbp, r8, r9 and r10, not rsi, rdx, r10 and r8 as its
    comments and spec 4.O say (`MCSyscall.cfg`). It also drops the result of
    `handle`, so rax comes back as the caller set it. The SYSCALL
    instruction the userspace wrappers use reaches only the empty LSTAR
    stub (syscall/mod.rs:107), never `handle` (`CallDispatched`).
18. The Delete key deletes two characters (gui/mod.rs:2639). The run loop
    gives the event to `handle_key_event`, which calls `delete_forward`. It
    then gives it to `handle_keyboard`, because `keyevent_to_char` maps
    Delete to `'\x7f'` (keyboard.rs:387), which the editor treats as
    backspace (`DeleteRemovesOne`).
19. `save_file` writes `lines.join("\n")`, and `load_file`
    (gui/mod.rs:183) splits with `str::lines()`, which yields no empty
    line after a final newline. A text ending in an empty line loses it
    when saved and reopened (`SavedReloads`).
20. `cursor_col` counts bytes and moves by one per key. In a file with a
    multi-byte UTF-8 character, Right stops inside it, and the next
    `insert_char` (gui/mod.rs:269) or Enter (`split_at`) panics
    (`CursorOnCharBoundary`).
21. `flush` (ata.rs:368) writes FLUSH CACHE without waiting for BSY after
    the last sector's data. A drive still storing that sector ignores the
    command. `write_sectors` never reads the status after the last sector,
    so `write_block` returns Ok while the block is only in the drive's
    cache, or not stored at all if that sector failed. `flush` also
    returns Ok after its own timeout (`WritesDurable`, `MCATA_Durable.cfg`,
    9 steps).
22. A timed-out poll loop (ata.rs:272) leaves its command running. The
    next call's command is ignored while the drive is BSY or DRQ, and its
    loop takes the old command's DRQ. After a write times out, the next
    `read_block` returns garbage as Ok (`ReadsReturnDisk` under
    `MCATA_Timeout.cfg`, 6 steps).
23. `total_blocks()` of `AtaDevice` (ata.rs:405) returns the sector count,
    and `Superblock::new` (cottonfs.rs:272) takes it as a count of 4 KiB
    blocks. A fresh filesystem claims eight times the drive. Once the low
    eighth of the data area is full, `alloc_block` hands out blocks past
    the end, and every write to them fails (`HealthyCallsSucceed`,
    `MCATA_Healthy.cfg`, 3 steps).
24. `arch::init` enables interrupts (arch/x86_64/mod.rs:56) before
    `kernel_main` calls `mm::init`, so the heap is still
    `LockedHeap::empty()`. A keyboard byte latched by then (a key pressed
    during boot, or the release of the key that chose the boot entry) runs
    `handle_interrupt`, whose first `push_back` must allocate the deque's
    buffer. The allocation fails and `alloc_error_handler` panics
    (`interrupts`, 4 steps).
25. `handle_interrupt`'s `push_back` (keyboard.rs:186) allocates whenever
    the deque is full: on the first event, then at every doubling. It so
    takes the `ALLOCATOR` spin lock in IRQ context, and main-line code
    allocating at that moment (the GUI loop's `BackBuffer::new`, the
    shell's `String` pushes) hangs the CPU. TLC reaches it on the first key
    and on a later regrowth.

## Not modelled, and why

These are left out:

* Block I/O errors inside CottonFS: `CottonFS` assumes every
  `read_block` / `write_block` succeeds. `ATA` shows when one does not, and
  the two are checked separately.
* ATA `detect`/IDENTIFY, `scan_devices` and the storage registry: one-shot
  probing at boot.
* A crash inside one filesystem call.
* Name-length checks in CottonFS.
* `stat`, `statfs` and `get_stats`, which are reads.
* The single-indirect pointer, which the code never uses.

In `Interrupts`: the exception handlers, which print and halt; the APIC,
which the kernel never switches to (the PIC drives every IRQ); and the
PIT divisor. Main-line code holds one handler lock at a time in the
model; holding two at once could only add hangs, not remove one.

Still to model, in this order:

* threads (`proc/thread.rs`) and a process actually running (no state of
  the code reaches one, see finding 6);
* the PS/2 controller setup (`init_ps2`, the port waits), which is one-shot
  port I/O;
* CottonFS as a second implementation of `FileTree`;
* the fd table (`open`, `close`), which no kernel code calls.

Serial, GDT/CPU setup, the shell's command parsing and the GUI's drawing
have no state a safety property tells apart beyond the calls they make
into the modelled parts. Of the console only the cursor is modelled.
The cell contents and colours are read by nothing a property states.
`clear` is reached only by a command the modelled keys cannot type. The
serial copy of each byte is a port write that nothing reads back.
