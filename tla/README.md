# A TLA+ verification of NeptuneOS

NeptuneOS is a small x86_64 kernel: one CPU, a round-robin scheduler, ring 3
programs behind `syscall`/`sysret`, a bitmap page allocator, a slab heap, a VFS
with pipes, RAM files and FAT16, and a shell. This directory holds TLA+ models of
its parts, TLC runs on small instances, and TLAPS proofs for all instances.
`PROJECT.json` maps every modelling definition to the source lines it stands
for, and lists the runs, their mutants, the hazards and the theorems.

## The system and its models

| part | source | modules |
|---|---|---|
| scheduler, spinlock, context switch | `kernel/sched.c`, `spinlock.c`, `arch/x86_64/switch.s` | `Sched`, `SchedFair` |
| timer tick, preemption trampoline | `arch/x86_64/idt.c`, `preempt_stub.s`, `timer.c` | `Sched`, `SchedFair` |
| boot and idle threads | `kernel/kernel.c` | `Sched`, `SchedFair` |
| handles, descriptors, open files | `kernel/syscall.c`, `sched.c`, `vfs.c` | `Handles` |
| pipes | `kernel/pipe.c` | `Pipe`, `ByteStream`; their life in `Handles` |
| memory map, bitmaps, page allocator | `arch/x86_64/hal.c`, `kernel/mem.c` | `MemLayout`, `Pmm`, `Memory` |
| kernel heap | `kernel/heap.c` | `Heap` |
| page tables | `boot/boot.s`, `arch/x86_64/mmu.c` | `PageTables`, `AddressSpaces` |
| images, user page faults, user buffers | `kernel/user.c`, `elf.c`, `idt.c`, `syscall.c` | `UserSpace` |
| system call entry | `syscall_stub.s`, `syscall_msr.c`, `arch/x86_64/sched.c` | `SyscallEntry` |
| input rings, line editing, screen | `kernel/irq.c`, `tty.c`, `arch/x86_64/console.c` | `Tty`; sleeping readers in `Sched` |
| sector cache, disks | `kernel/block.c`, `ata.c` | `BlockCache` |
| FAT16 | `kernel/fat.c` | `Fat`, on `BlockCache` |
| paths, VFS, RAM files | `kernel/vfs.c`, `ramfs.c`, `fs.c`, `syscall.c` | `Vfs` |
| shell, init, cat, ls | `user/` | `Shell`, `ShellSpec`, on `Vfs` |

Facts about the system that the models rest on:

- There is one CPU. Only an interrupt or a context switch interleaves anything.
- `syscall` masks interrupts, and threads with an address space are never
  preempted (`sched_request_preempt`). A system call is therefore one step up to
  the places where it yields or sleeps.
- Spinlocks turn interrupts off. The saved flag lives *in the lock*, so a lock
  taken by one thread before a context switch is released by another after it.
- `kalloc` and `pmm_alloc_page` panic when memory runs out. The error paths
  behind a NULL result cannot be taken and are not modelled.

## Modules

**`Sched`** has one action per stretch of code that nothing can interleave with.
`pc[t]` says what thread `t` does next when it has the CPU. Code under
`sched_lock` is one step up to `context_switch`; the resumed thread then performs
`Release` with the flags the lock holds. `Acquire`, `Release`, `Resched`,
`Yield`, `Create`, `Exit`, `SysWait`, `SleepCond` and `WakeOne` are the functions
of `sched.c` and `spinlock.c`; `Tick`, `OnTick`, `Preempts`, `Trampoline` and
`TrampolineReturn` are the timer path; `InputIrq` and `TtyPop` the console path.
User programs are arbitrary: `Syscall(call)` picks any call. Threads are numbered
by creation, which makes the thread list the set of threads in use in increasing
order. **`SchedFair`** adds fairness and two histories: who got the CPU while a
thread waits (`passed`), and whether the boot and the first program did only what
`kernel.c` and `user/init.c` do (`plain`).

**`Handles`** treats a system call as one step on a record of all tables, so that
the acquires, releases and closes of a call compose as in C. `Pipe(p)` is the
system call; `EnterPipe` and `LeavePipe` are a read or write that yields inside a
pipe. Histories record what the code does not: leaked references, a freed console
handle, a file closed twice.

**`Pipe`** is the ring buffer with threads in the loops of `pipe_read_impl` and
`pipe_write_impl`. It implements **`ByteStream`**, a queue of bytes with end of
file, under the mapping that reads `used` bytes from `read_pos` on.

**`MemLayout`** holds the arithmetic of `arch_mem_init` and `setup_bitmaps`,
**`Pmm`** the allocator on a layout (bitmaps as sets of bits, the counters, and
the next-fit search: the turns over the regions from the cursor's on, and in each
the loop up from a page and the loop over the pages before it; `pmm_alloc_page`
panics when every turn has found none), and **`Memory`** composes the two from the
boot loader's map on.

**`Heap`** counts words of 8 bytes. `Kalloc` tries in the order of the code: a
large free block, the free list of a class, a new slab block, a new large block.
`hdr` is what the header of a block holds; its first word is the class in use and
the next pointer when free, as in C. `live` is a history of what callers hold.

**`PageTables`** builds four-level tables as `boot.s` and `mmu.c` do, through the
stages of `kernel_main` (direct map, sections, heap, the drop of the identity map)
to the spaces of programs, whose stacks grow by the one shared zero page
(`GrowStack`) until a write copies it (`handle_user_cow_fault`). The walk of the
CPU (`Translate`) is the mapping to **`AddressSpaces`**, one translation per space
with a common kernel half, frames of their own for programs, and the zero page,
which all may map and none may write.

**`UserSpace`** loads images page by page, pushes the initial frame, handles the
faults of programs (stack growth on the shared zero page, copy on write, the end
of the program) and the accesses of the kernel behind `user_ptr_range`. Addresses
wrap.

**`SyscallEntry`** has the two words behind GS, `swapgs`, and the kernel and user
stacks of threads that enter, leave, spawn, switch, exit and fault. Threads enter
by `syscall` or by the gate of `int 0x80` (`isr_syscall`), which does not swap.

**`Tty`** has both input rings with their interrupt handlers, the shift state,
`tty_read` with its editing and echo, and the screen with cursor and scrolling.

**`BlockCache`** gives each call as the set of its outcomes, since a transfer may
fail or be the one at which the power goes. `ata_write` looks at no error after the
data (`ata.c:174`), so one of its outcomes is success without the sector written;
the histories `lost` and `dropped` record the sectors. **`Fat`** threads that through
lookup, create, mkdir, list, read and write on cluster chains. `kernel_main` has
its `fat_init` commented out, so this is the driver as it would run once mounted.

**`Vfs`** has both path normalisations, the choice of the backend, and open,
read, write and close. Names are sequences of segments; where the code compares
text (`/bin`, `/dev/ls`), the sets `BinLike` and `LsLike` hold the segments that
begin with these letters. **`Shell`** has the commands, pipelines and redirections
on top of it, with init, `cat` and `ls`. Handles 0 to 2 are ordinary entries of the
table: `handles_init` leaves them uncounted, each shell and program takes a
reference and drops it when it exits, and a shell whose console is gone reads errors
for ever (`Loops`). So does, lines instead of errors, a command that reads the
console to its end, because `tty_read` never returns 0. **`ShellSpec`** is what the
commands do to a map from names to contents; that `cd` makes a name that is not
there is a step of its own in it, `ChdirMakes`.

The `MC*` modules and `.cfg` files give the constants values. Operators whose
comment begins with "Mutant" are wrong versions of the definition that follows
them, as a plausible slip in the code would give; each property is violated by
one.

## Runs

| run | shows | bounds |
|---|---|---|
| `sched` | one RUNNING thread, exact wait queue, lock masks interrupts, safe preemption target, no lost wakeup, dead stays dead, round robin; the idle thread never halts with interrupts off and gives way | 5 threads (boot, idle, init, two more), slice of 2 ticks, 2 characters, 2 nested trampolines |
| `handles` | exact reference counts, one handle per open file, a pipe outlives its use, pipe ends exact | 3 processes, 3 handles, 3 descriptors, 2 files, 1 console handle, `dup2` onto a standard descriptor |
| `pipe` | the ring is a byte stream; a call ends once the other side is closed | ring of 2, transfers up to 3, 2 readers, 2 writers, 2 byte values |
| `memory` | bitmaps, counters and cursor right, the search panics only when no page is free, no page of the kernel or of a bitmap handed out | all maps of two entries below 15 bytes, pages of 2 bytes, bytes of 2 bits; allocations on two larger maps |
| `heap` | blocks apart, each in one place, large enough and aligned; large free list sorted and merged | heap of 64 words, two classes, one size for each class and one above them |
| `fat` | cache agrees with the disk but for writes the drive dropped in silence, chains and directories sound, what was written is read back | 4 clusters of 2 bytes, cache of 2, 2 open files, 5 writing calls, 1 failure |
| `uspace` | pages isolated, images loaded as linked, accepted buffers mapped | 2 threads, 3 images, 9 physical pages, 16 words of addresses |
| `entry` | own kernel stack, GS base right exactly after an even number of crossings between threads that swapped and threads that did not, user stack restored unless another thread called | 3 threads and idle, user stacks of depth 0 and 1 |
| `shell` | files behave as a map, `cat` and `ls` show what is there, failures have a cause, the prompt is clean, the console stays with those counted for it, every wait ends; no deadlock | 24 lines, 2 RAM files, 6 handles, 3 child slots |
| `ptables` | the tables implement one translation per space, with stacks growing on the zero page | tables of 6, 2, 4 and 8 entries, 35 frames, 2 programs |
| `tty` | reads return what was typed and edited, the screen shows it, a finished line reaches its reader | rings of 2 slots, screen of 2 by 2, 4 inputs |
| `ptables_sections` | *violated*: the sections of the kernel do not get their permissions | as `ptables` |

Why the bounds are enough. The scheduler needs two threads besides boot, idle and
init to have a parent, a child and a third party; a slice of 2 lets a tick fall
without preemption; two frames let a preempted thread be preempted again. With as
many handles as descriptors both run out, in either order, and two files are one
pipe; `NStd` is 3 in the code and 1 here, because the console handles behave
alike. A transfer longer than the ring has to be split, and a ring of 2 wraps at
every offset, full and not. Memory maps below 15 bytes put the kernel before,
inside, across and behind an entry, at every alignment. The heap holds two large
blocks side by side, so that they merge, and an odd size that leaves a fragment
out of alignment; all callers but the boot self-test ask for 16-byte alignment.
Four clusters are a chain of two beside a directory and a third chain; a cache of
two entries has collisions. The images of `uspace` have a segment across a page
boundary and one that the loader refuses, and buffers end beyond the address
space. Three threads let a call be interrupted by one that is interrupted itself.
The lines of `shell` name files of every backend, with `.`, `..`, trailing slashes
and names that do not fit, names that only begin like `/bin` and `/dev/ls`, and
commands with a word missing. The tables of `ptables` are large enough that direct
map, heap, kernel image and programs lie under different entries of the top level
and that a 2 MiB page has to be split. A screen of 2 by 2 scrolls on the third row.

The `handles` run stops (`CONSTRAINT Intact`) where a console handle has been
freed. From there on the counts mean nothing, by disagreement 2 below. The
theorems about `Handles` carry the same provision, as `~lost`.

Deadlock is checked in `shell` only. Elsewhere the system may really stop: all
processes exit, pipes are closed, the allocators panic, memory is used up, a
reader waits for input that never comes, and after a first program that exits the
machine may halt for good.

### Fairness

- `SchedFair`: the kernel keeps executing and the PIT keeps ticking (`WF` on
  `Kernel` and `Tick`). Nothing is assumed about programs or keys.
- `Pipe`: a thread in a yield loop runs again. `NoOvertaking` gives it that as
  long as other programs yield or make calls that do; a program that never enters
  the kernel keeps the CPU.
- `Tty`: a reader that is woken runs again, for the same reason.
- `Shell`: nothing is assumed about what is typed; the shell and init return from
  `sys_wait` when there is a dead child, and a child that is ready runs to its
  end.

## Disagreements found

In each of these the code does something else than a comment or declaration of
the repository says. The first is a run; the others are checked with the
configuration named, whose property TLC finds violated.

1. `virt_to_phys` (`mmu.h:57`) takes addresses of the kernel image for addresses
   of the direct map. `mmu_protect_kernel_sections` therefore maps other pages,
   and the sections stay writable and executable, where `mmu.h:81` says "Apply
   proper permissions to kernel sections" (`ptables_sections`).
2. `handles_init` (`syscall.c:66`) runs at the first system call, after init
   already holds the console handles, and leaves their counts at 0. One close
   frees a console handle that others name; `syscall.c:118` says "handles persist
   if other processes hold them" (`MCHandles_persist.cfg`).
3. `SYSCALL_OPEN` closes a file twice when no descriptor is left
   (`syscall.c:477`), although its comment works out that the release closes it
   (`MCHandles_once.cfg`).
4. `user_launch_thread` (`user.c:309`) drops `override_fds`; `shell.c:304` and
   `:315` expect "stdout -> pipe write" and "stdin -> pipe read". The references
   taken for them are never released (`MCHandles_override.cfg`).
5. `spinlock_release_irqrestore` (`spinlock.c:34`) restores the flags in the lock,
   which after a switch belong to the thread that left; `spinlock.h:18` says
   "restores RFLAGS" (`MCSched_flags.cfg`).
6. The free list of a slab class links blocks through the word that holds their
   class (`heap.c:337`), and `kalloc` does not write it again on reuse. Such a
   block is filed under another class, or dropped, when it is freed again, where
   `heap.c:400` expects "sane sizes" (`MCHeap_sane.cfg`). `HoldsRequest` shows
   that this wastes memory but hands out no block that is too small.
7. `syscall_stub.s:142` takes the user stack pointer from a word per CPU, not per
   thread. After "Restore User Stack" (`:141`) a program runs on another stack
   pointer than it called with if another thread made a call in between
   (`SyscallEntry_rsp.cfg`).
8. `handle_user_cow_fault` (`idt.c:91`) leaves the no-execute bit in the physical
   address it copies from, so the kernel faults; `idt.c:415` says that a user
   exception ends the user task (`MCUserSpace_cow.cfg`).

9. The gate of `int 0x80` (`idt.c:526`) and a user fault (`idt.c:416`) reach the
   scheduler without `swapgs`. A thread resumed from there swaps on its own way out,
   and the next `syscall` swaps to the wrong base; `syscall_stub.s:60` says "Swap GS
   to kernel GS to access per-cpu kernel stack" (`SyscallEntry_gs.cfg`).
   `SwapsPaired` says exactly when the base is off: after an odd number of such
   crossings, and so never in a system that uses only `syscall` and has no faults.
10. `sys_chdir` makes the directory it checks: its open creates a RAM file for a name
    that is not there, and `cd` succeeds; `syscall.c:588` says "Verify directory
    exists by opening it" (`MCShell_cd.cfg`).
11. When the first shell exits, its references to the console are the last that are
    counted, and `sched_exit` (`sched.c:312`) frees handles 0 to 2 under init, by
    disagreement 2. The shell that init starts next inherits free handles, gets
    EBADF for every line and loops (`shell.c:213`), unless a program that the first
    one left behind still holds the console. `syscall.c:118` says "handles persist if
    other processes hold them" (`MCShell_restart.cfg`). `PromptReturns` therefore
    claims that a shell is started, not that it reads.

## Proofs

Everything below is proved for every value of the constants, from the named
assumption of the module alone (`SchedAssumption`, `HandlesAssumption`, ...), which
TLC evaluates in the runs. Each theorem about a specification has the same
argument: an inductive invariant holds initially, every action preserves it, and
it implies the property.

**Scheduler** (`SchedProofs`, `SchedWaits`; any number of threads, slice, ring
size, nesting depth and first program).

- `RunningSafety`, `WaitQueueSafety`, `LockSafety`, `PreemptSafety`,
  `ReturnSafety`, `DeadIsForever`, `TypeCorrect`. `OneRunning` is not inductive:
  `sched_resched_locked` returns to a caller that has just made itself BLOCKED or
  DEAD if it finds nobody else, so one must know that it always finds the idle
  thread. That holds because idle never reaches code that sleeps or exits, which
  needs every preemption trampoline to return to where it was entered. `IInv`
  adds these facts (`UnusedSafe`, `IdleSafe`, `FramesSafe`) to the properties.
  `ReschedEffect` says what the scan does.
- `RoundRobin` (`NoOvertaking`). The invariant `Behind` says that whoever passed a
  waiting thread lies behind it in the scan; the scan takes the nearest.
- `IdleSafety` (`IdleWakeable`). The flag idle runs with is the one left in the
  lock or in a frame by the code that gave it the CPU. `UserSafe` says who
  executes which code, and `Phases` follows boot, idle and first program: boot
  keeps interrupts on until `sched_start`, idle loses the CPU only in the
  trampoline, and the first program is there to take it.
- `WakeupSafety` (`NoLostWakeup`). With `UserSafe`, the number of awake readers
  is at least the number of characters whenever somebody sleeps: a character
  that arrives wakes one, a reader that leaves takes one, and nobody sleeps on a
  ring that is not empty.

**Handles** (`HandleReferences`, `HandleOpens`, `HandlesProofs`; any number of
threads, handles, descriptors and files, any descriptor maps).

- `RefcountSafety`, `FileSafety`, `PipeUseSafety`, `PipeEndSafety`, `TypeCorrect`,
  and `PipeRollback`: a `SYSCALL_PIPE` that fails leaves the tables as they were.
- A call opens, installs, releases and closes several things in one step, and
  between them a file is open that no handle has. `Sound` is the invariant of the
  tables, and `SoundBut` the same but for such files; the helpers of `syscall.c`
  have lemmas that say what they make of the one or the other. `IInv` adds that a
  thread inside a pipe still has the descriptor it called with, and that nothing has
  moved before `handles_init`.
- The lemmas that count descriptors argue from `Counting`, a list of facts about
  cardinalities and least numbers. `HandlesProofs` proves it from the library's
  theorems on finite sets, so that the theorems do not depend on it.

**Pipe** (`KernelProofs`; any ring size, length of transfer and number of
threads). `RingImplementsStream` proves `ImplementsStream`: the contents from
`read_pos` on, modulo the size, are the queue of `ByteStream`, and every step of
the ring is a step of the queue or a stutter. `IInv` is the type invariant with
the ring's redundancy (`write_pos` is `read_pos + used` modulo `Size`), and that a
thread in a call has its end open.

**System call entry** (`KernelProofs`; any number of threads and depth).
`StackSafety`, `GsSafety`, `ScratchSafety`. `EntryInv` adds that only the current
thread is in user mode, that `gs:0` names its stack, and whose stack pointer the
scratch word `gs:8` holds. All three cover both entries.

**Sector cache** (`KernelProofs`; any device, cache size and faults).
`ReadTransparent` and `WriteThrough` are about the operators `block_read` and
`block_write`: from a cache that differs from the disk only in sectors whose last
write was lost, every outcome leaves such a cache, only a write that the drive
dropped after its data adds a sector to them, and the next read of a sector finds
what was written.

**Page allocator** (`PmmProofs`; every layout of disjoint regions).
`BitmapSafety`, `CounterSafety`, `PanicSafety`, `FreeSafety`. The invariant
relates the bitmap to a history of the pages handed out; that an address belongs
to one page of one region makes counting possible. For `PanicSafety` the turns are
shown to come to every region, modulo their number, and the two loops to every
page of it, wherever the cursor stands. The assumption on layouts is what the run
`memory` evaluates for the layouts of all small maps.

**Programs** (`UserSpaceProofs`; any images, layout, threads and memory).
`Isolation` (`PagesIsolated`) and `CheckedBuffers` (`PtrRangeSound`). Page tables
name only pages that were allocated, so that the next page is mapped nowhere.

### Only model-checked

- Liveness: `IdleYields`, `CallsReturn`, `PromptReturns`, `LineReturns`. The prover
  does not handle fairness and `ENABLED`.
- Properties of what folds and recursive definitions compute, which need
  induction over data: `HandedOutClean` (the folds of `MemLayout` over the memory
  map), everything about `Fat` and `Shell`, which rest on recursive operators,
  `ReadsAsTyped` (a fold over the input), and `ImplementsSpaces` (folds over the
  pages of the direct map, the sections and the heap).
- `BlocksApart`, `OnePlace`, `HoldsRequest`, `LoadedAsLinked` and `EchoMatches` are
  within reach in principle; no inductive invariant has been worked out for them.
  For the heap it has to follow the positions in a list under insertion, merging
  and splitting, for images the words of a page that several segments meet in.

## What is not modelled

- Functions without a caller: `sched_sleep`, `sched_wake_all`,
  `sched_kill_user_threads`, `vfs_dup`, `mmu_unmap_page`, `fat_list`.
- Exit codes, timer callbacks (the one registered only logs), the counters of the
  heap, the TLB and the global bit, colours and the serial copy of the output.
- Requests of a slab class less 24 bytes: `pick_slab_class` counts 24 bytes of
  header while the payload starts at 32, so they do not fit the block. Only the
  boot self-test makes one.
- The parsing of Multiboot tags and ELF headers, the 8.3 packing of FAT names,
  transfers of several sectors, which no caller makes.
- Kernel terminal, log, serial port, PCI, ACPI, GDT, PIT and PIC: output, or
  straight-line set-up. `echo`, `hello` and `fuzz` only make calls that the
  models allow any program.
