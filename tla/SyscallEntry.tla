---------------------------- MODULE SyscallEntry ----------------------------
(***************************************************************************)
(* How threads get into and out of the NeptuneOS kernel on its one CPU:    *)
(* the syscall instruction and the int 0x80 gate (syscall_stub.s,          *)
(* syscall_msr.c, idt.c), the entry to user mode and the switch of stacks  *)
(* (arch/x86_64/sched.c), and faults of programs, which end them (idt.c,   *)
(* user.c).  The gate and the exception handlers leave GS alone.           *)
(*                                                                         *)
(* All user stacks lie at the same addresses, so a user stack pointer is a *)
(* depth.  The scheduler may resume any thread that is in the kernel.      *)
(***************************************************************************)
EXTENDS Integers

CONSTANTS
  Threads,   \* user threads
  Idle,      \* the idle thread, always in the kernel
  MaxDepth   \* bound: depths of user stacks

ASSUME EntryAssumption == Idle \notin Threads /\ MaxDepth \in Nat

All == Threads \cup {Idle}
Depth == 0..MaxDepth
Boot == "boot"     \* the stack cpu_init gives to cpu_data

VARIABLES
  cur,       \* current_thread
  mode,      \* of a thread: none, launch (not yet in user mode), user, call
             \* (in the kernel through syscall), gate (through int 0x80), dead
  rsp,       \* its user stack pointer
  expected,  \* history: the stack pointer its program relies on
  stack,     \* the kernel stack its system call runs on
  gs,        \* the GS base in use: of cpu_data, or of the user
  gs0,       \* cpu_data.kernel_stack: whose stack
  tss0,      \* rsp0 of the task state, for the gate: whose stack
  gs8,       \* cpu_data's scratch word
  reentered, \* history: has another thread made a call during one of its?
  odd,       \* history: has the CPU gone an odd number of times from a thread
             \* that came in with swapgs to one that did not, or back?
  panic      \* has the kernel stopped?

entryVars == <<cur, mode, rsp, expected, stack, gs, gs0, tss0, gs8, reentered, odd, panic>>

Swap(g) == IF g = "cpu" THEN "user" ELSE "cpu"
At(t, m) == ~panic /\ cur = t /\ mode[t] = m

\* The GS base under which a thread in mode m works.
Expects(m) == IF m \in {"user", "gate"} THEN "user" ELSE "cpu"

\* Any access through GS while it is the user's hits an unmapped page.
Panics ==
  /\ panic' = TRUE
  /\ UNCHANGED <<cur, mode, rsp, expected, stack, gs, gs0, tss0, gs8, reentered, odd>>

\* arch_enter_user, at the end of a launch or of SYSCALL_EXEC.
arch_enter_user(t) ==
  /\ At(t, "launch") \/ At(t, "call") \/ At(t, "gate")
  /\ tss0' = IF mode[t] = "launch" THEN t ELSE stack[t]
  /\ gs' = Swap(gs)
  /\ odd' = IF mode[t] = "gate" THEN ~odd ELSE odd
  /\ mode' = [mode EXCEPT ![t] = "user"]
  /\ rsp' = [rsp EXCEPT ![t] = 0]
  /\ expected' = [expected EXCEPT ![t] = 0]
  /\ reentered' = [reentered EXCEPT ![t] = FALSE]
  /\ UNCHANGED <<cur, stack, gs0, gs8, panic>>

\* The program calls and returns.
Run(t, d) ==
  /\ At(t, "user") /\ d # rsp[t]
  /\ rsp' = [rsp EXCEPT ![t] = d]
  /\ expected' = [expected EXCEPT ![t] = d]
  /\ UNCHANGED <<cur, mode, stack, gs, gs0, tss0, gs8, reentered, odd, panic>>

\* Mutant: the user stack pointer is not written to the scratch word.
EntrySavesNothing(t) ==
  /\ At(t, "user") /\ gs = "user"
  /\ gs' = "cpu"
  /\ stack' = [stack EXCEPT ![t] = gs0]
  /\ mode' = [mode EXCEPT ![t] = "call"]
  /\ reentered' = [u \in Threads |-> reentered[u] \/ (u # t /\ mode[u] = "call")]
  /\ UNCHANGED <<cur, rsp, expected, gs0, tss0, gs8, odd, panic>>

\* syscall_entry up to the handler.
syscall_entry(t) ==
  /\ At(t, "user")
  /\ IF Swap(gs) = "user" THEN Panics
     ELSE /\ gs' = "cpu"
          /\ gs8' = rsp[t]
          /\ stack' = [stack EXCEPT ![t] = gs0]
          /\ mode' = [mode EXCEPT ![t] = "call"]
          /\ reentered' = [u \in Threads |-> reentered[u] \/ (u # t /\ mode[u] = "call")]
          /\ UNCHANGED <<cur, rsp, expected, gs0, tss0, odd, panic>>

\* Mutant: the exit leaves without the swapgs.
SysretKeepsGs(t) ==
  /\ At(t, "call")
  /\ rsp' = [rsp EXCEPT ![t] = gs8]
  /\ mode' = [mode EXCEPT ![t] = "user"]
  /\ UNCHANGED <<cur, expected, stack, gs, gs0, tss0, gs8, reentered, odd, panic>>

\* Its end, after the handler has returned.
sysret(t) ==
  /\ At(t, "call")
  /\ IF gs = "user" THEN Panics
     ELSE /\ rsp' = [rsp EXCEPT ![t] = gs8]
          /\ gs' = "user"
          /\ mode' = [mode EXCEPT ![t] = "user"]
          /\ UNCHANGED <<cur, expected, stack, gs0, tss0, gs8, reentered, odd, panic>>

\* The int 0x80 gate: the CPU takes the stack of the task state and saves the
\* user stack pointer on it; isr_syscall calls the handler without a swapgs.
isr_syscall(t) ==
  /\ At(t, "user")
  /\ stack' = [stack EXCEPT ![t] = tss0]
  /\ mode' = [mode EXCEPT ![t] = "gate"]
  /\ UNCHANGED <<cur, rsp, expected, gs, gs0, tss0, gs8, reentered, odd, panic>>

\* The end of isr_syscall, which takes the stack pointer from the frame.
iretq(t) ==
  /\ At(t, "gate")
  /\ mode' = [mode EXCEPT ![t] = "user"]
  /\ UNCHANGED <<cur, rsp, expected, stack, gs, gs0, tss0, gs8, reentered, odd, panic>>

\* SYSCALL_SPAWN creates a thread.
Spawn(t, u) ==
  /\ At(t, "call") \/ At(t, "gate")
  /\ mode[u] = "none"
  /\ mode' = [mode EXCEPT ![u] = "launch"]
  /\ UNCHANGED <<cur, rsp, expected, stack, gs, gs0, tss0, gs8, reentered, odd, panic>>

\* Mutant: the switch sets the task state's stack only.
SwitchKeepsStack(u, m) ==
  /\ u # cur /\ m[u] \in {"launch", "call", "gate"}
  /\ mode' = m /\ cur' = u
  /\ tss0' = u
  /\ odd' = IF Expects(mode[cur]) = Expects(m[u]) THEN odd ELSE ~odd
  /\ UNCHANGED gs0

\* sched_resched_locked with arch_thread_switch, to a thread in the kernel.
Switch(u, m) ==
  /\ u # cur /\ m[u] \in {"launch", "call", "gate"}
  /\ mode' = m /\ cur' = u
  /\ gs0' = u /\ tss0' = u
  /\ odd' = IF Expects(mode[cur]) = Expects(m[u]) THEN odd ELSE ~odd

\* A call yields, sleeps or waits; or the idle thread gives way.
Yield(u) ==
  /\ ~panic /\ mode[cur] \in {"launch", "call", "gate"}
  /\ Switch(u, mode)
  /\ UNCHANGED <<rsp, expected, stack, gs, gs8, reentered, panic>>

\* SYSCALL_EXIT.
Exit(t, u) ==
  /\ At(t, "call") \/ At(t, "gate")
  /\ Switch(u, [mode EXCEPT ![t] = "dead"])
  /\ UNCHANGED <<rsp, expected, stack, gs, gs8, reentered, panic>>

\* exception_handler and user_exit_handler: GS stays the user's.
Fault(t, u) ==
  /\ At(t, "user")
  /\ Switch(u, [mode EXCEPT ![t] = "dead"])
  /\ UNCHANGED <<rsp, expected, stack, gs, gs8, reentered, panic>>

\* After cpu_init, with the first user thread created.
EntryInit ==
  /\ cur = Idle
  /\ \E t \in Threads :
       mode = [u \in All |-> IF u = Idle THEN "call" ELSE IF u = t THEN "launch" ELSE "none"]
  /\ rsp = [t \in Threads |-> 0] /\ expected = rsp
  /\ stack = [t \in Threads |-> Boot]
  /\ gs = "cpu" /\ gs0 = Boot /\ tss0 = Boot /\ gs8 = 0
  /\ reentered = [t \in Threads |-> FALSE]
  /\ odd = FALSE /\ panic = FALSE

EntryNext ==
  \/ \E t \in Threads :
       \/ arch_enter_user(t) \/ syscall_entry(t) \/ sysret(t) \/ isr_syscall(t) \/ iretq(t)
       \/ \E d \in Depth : Run(t, d)
       \/ \E u \in Threads : Spawn(t, u)
       \/ \E u \in All : Exit(t, u) \/ Fault(t, u)
  \/ \E u \in All : Yield(u)

EntrySpec == EntryInit /\ [][EntryNext]_entryVars

-----------------------------------------------------------------------------
(* Properties *)

\* A system call runs on the kernel stack of the thread that made it, by either
\* way in and however threads were switched since: no call runs over the frames
\* of another.
OwnKernelStack == \A t \in Threads : mode[t] \in {"call", "gate"} => stack[t] = t

\* The GS base is the one the current thread works under exactly when the CPU
\* has gone an even number of times between threads that came in with swapgs
\* and threads that came in without (through int 0x80, or by a fault that ends
\* them); the kernel falls over its GS base only after an odd number.  So no
\* sequence of launches, syscalls, switches, execs and exits unpairs swapgs.
SwapsPaired == (gs = Expects(mode[cur]) <=> ~odd) /\ (panic => odd)

\* The scratch word is enough for a program during whose calls no other
\* thread makes one: its calls return on the stack they were made on.
RestoredUnlessReentered ==
  \A t \in Threads : mode[t] = "user" /\ ~reentered[t] => rsp[t] = expected[t]

\* A call always finds the kernel's GS ("Swap GS to kernel GS to access per-cpu
\* kernel stack", syscall_stub.s:60), also after a program was ended by a fault
\* ("User-mode exception; terminating user task", idt.c:415).
KernelSurvives == ~panic

\* A program comes back from a system call on the stack it called on
\* ("Restore User Stack", syscall_stub.s:141).
UserStackRestored == \A t \in Threads : mode[t] = "user" => rsp[t] = expected[t]
=============================================================================
