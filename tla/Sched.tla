------------------------------- MODULE Sched -------------------------------
(***************************************************************************)
(* The NeptuneOS scheduler (kernel/sched.c) on its single CPU, with what   *)
(* its correctness depends on: the interrupt flag and the IRQ-saving       *)
(* spinlock (spinlock.c), the context switch (switch.s), the timer tick    *)
(* and the preemption trampoline (idt.c, preempt_stub.s), the idle and     *)
(* boot threads (kernel.c), and the system calls that reach the scheduler  *)
(* (syscall.c, tty.c).                                                     *)
(*                                                                         *)
(* A step is a stretch of code that nothing can interleave with.  Code     *)
(* under sched_lock runs with interrupts off, so it is one step up to the  *)
(* context switch; whoever runs next then performs Release.                *)
(*                                                                         *)
(* Threads are numbered in order of creation.  list_append adds at the     *)
(* tail and list_remove keeps the order, so the thread list is the set of  *)
(* threads that are not UNUSED, in increasing order.                       *)
(***************************************************************************)
EXTENDS Integers, Sequences, FiniteSets

CONSTANTS
  MaxThreads,   \* bound: how many threads are ever created
  TimeSlice,    \* time_slice_ticks
  InputSlots,   \* capacity of the input rings that feed input_wq
  MaxFrames,    \* bound: trampoline frames nested on one kernel stack
  SlowBoot,     \* may kernel_main use up a time slice before sched_start?
  InitCalls     \* the calls the program of the first user thread makes

Boot == 1
Idle == 2
InitThread == 3
Thread == 1..MaxThreads

\* What a user program may do next, as far as the scheduler can tell.
Calls == {"yield", "read", "wait", "spawn", "exit", "fault", "other"}

ASSUME SchedAssumption ==
  /\ MaxThreads \in Nat /\ MaxThreads >= InitThread
  /\ TimeSlice \in Nat \ {0}
  /\ InputSlots \in Nat \ {0}
  /\ MaxFrames \in Nat \ {0}
  /\ SlowBoot \in BOOLEAN
  /\ InitCalls \subseteq Calls

VARIABLES
  created,      \* threads created so far
  state,        \* thread->state; UNUSED also stands for a freed struct
  aspace,       \* thread->aspace # 0
  ppid,         \* thread->ppid, as a thread number (0: none)
  pc,           \* what the thread executes next when it holds the CPU
  frame,        \* what preemption trampolines pushed on its stack, top first
  current,      \* current_thread
  irqOn,        \* the CPU's interrupt flag
  lock,         \* sched_lock, with the RFLAGS.IF it saved
  sinceSwitch,  \* sched_ticks - last_switch_tick, up to TimeSlice
  needResched,  \* need_resched
  pending,      \* sched_preempt_pending
  target,       \* sched_preempt_target
  wq,           \* input_wq, head first
  input,        \* characters waiting in the input rings
  callerIF      \* history: IF when the thread called into the scheduler

threadVars == <<created, state, aspace, ppid>>
tickVars   == <<sinceSwitch, needResched>>
trapVars   == <<pending, target, frame>>
inputVars  == <<wq, input>>
vars == <<created, state, aspace, ppid, pc, frame, current, irqOn, lock,
          sinceSwitch, needResched, pending, target, wq, input, callerIF>>

PC == {"none", "create_idle", "create_init", "sched_start", "start",
       "idle", "halted", "check", "launch", "user", "yield", "read", "sleep",
       "wait", "wait_yield", "spawn", "exit", "sysret", "tramp", "trampret",
       "dead"}

\* The states of include/kernel/sched.h, and what a trampoline saves.
TState == {"UNUSED", "RUNNABLE", "RUNNING", "BLOCKED", "DEAD"}
Frame == [ret : PC, flags : BOOLEAN]

Unlocked == [held |-> FALSE, flags |-> FALSE]

-----------------------------------------------------------------------------
(* sched_lock and the context switch.                                      *)

\* Mutant of Acquire: takes the lock but leaves interrupts on.
AcquireIrqsOn ==
  /\ ~lock.held
  /\ lock' = [held |-> TRUE, flags |-> irqOn]
  /\ callerIF' = [callerIF EXCEPT ![current] = irqOn]
  /\ UNCHANGED irqOn

\* spinlock_acquire_irqsave(&sched_lock): the caller's IF is kept in the lock.
Acquire ==
  /\ ~lock.held
  /\ lock' = [held |-> TRUE, flags |-> irqOn]
  /\ irqOn' = FALSE
  /\ callerIF' = [callerIF EXCEPT ![current] = irqOn]

\* spinlock_release_irqrestore(&sched_lock), by whoever the switch resumed:
\* the flags are the ones the lock holds.  arch_irq_restore only ever sets IF.
Release ==
  /\ lock.held
  /\ lock' = Unlocked
  /\ irqOn' = (irqOn \/ lock.flags)
  /\ callerIF' = [callerIF EXCEPT ![current] = FALSE]
  /\ UNCHANGED <<threadVars, pc, trapVars, current, tickVars, inputVars>>

\* The current thread is about to execute p.
At(p) == ~lock.held /\ pc[current] = p

Goto(p) == pc' = [pc EXCEPT ![current] = p]

\* Mutant of ScanDist: the scan always starts at threads_head.
ScanFromHead(t) == t

\* How far down the list the scan of sched_resched_locked meets thread t: it
\* starts at current->next, wraps at the tail and meets current last.
ScanDist(t) == IF t > current THEN t - current ELSE t - current + MaxThreads

\* Mutant of Resched: the thread switched out stays RUNNING.
ReschedKeepsPrev(st) ==
  LET R == {t \in Thread : st[t] = "RUNNABLE"}
  IN  \/ R \subseteq {current} /\ state' = st /\ UNCHANGED <<current, tickVars>>
      \/ \E n \in R \ {current} :
           /\ \A m \in R : ScanDist(n) <= ScanDist(m)
           /\ state' = [st EXCEPT ![n] = "RUNNING"]
           /\ current' = n
           /\ sinceSwitch' = 0
           /\ needResched' = FALSE

\* sched_resched_locked, context_switch included.  st is the thread state as
\* the caller left it; the caller holds sched_lock.
Resched(st) ==
  LET R == {t \in Thread : st[t] = "RUNNABLE"}
  IN  \/ /\ R \subseteq {current}
         /\ state' = st
         /\ UNCHANGED <<current, tickVars>>
      \/ \E n \in R \ {current} :
           /\ \A m \in R : ScanDist(n) <= ScanDist(m)
           /\ state' = [st EXCEPT ![current] = IF @ = "RUNNING"
                                                THEN "RUNNABLE" ELSE @,
                                  ![n] = "RUNNING"]
           /\ current' = n
           /\ sinceSwitch' = 0
           /\ needResched' = FALSE

\* sched_yield, returning to p.
Yield(p) ==
  /\ Acquire
  /\ Goto(p)
  /\ Resched(state)
  /\ UNCHANGED <<created, aspace, ppid, inputVars>>

-----------------------------------------------------------------------------
(* Thread creation and the boot thread.                                    *)

\* sched_create and sched_create_user: a thread at the end of the list.
Create(parent) ==
  /\ created < MaxThreads
  /\ created' = created + 1
  /\ state' = [state EXCEPT ![created + 1] = "RUNNABLE"]
  /\ ppid' = [ppid EXCEPT ![created + 1] = parent]
  /\ aspace' = [aspace EXCEPT ![created + 1] = FALSE]

\* kernel_main creates the idle thread and then the first user thread.
BootCreate ==
  /\ \/ At("create_idle") /\ pc' = [pc EXCEPT ![current] = "create_init",
                                              ![created + 1] = "start"]
     \/ At("create_init") /\ pc' = [pc EXCEPT ![current] = "sched_start",
                                              ![created + 1] = "start"]
  /\ Create(0)
  /\ UNCHANGED <<trapVars, current, irqOn, lock, tickVars, inputVars, callerIF>>

\* thread_trampoline, past the release: the thread's entry function starts.
Start ==
  /\ At("start")
  /\ Goto(IF current = Idle THEN "idle" ELSE "launch")
  /\ UNCHANGED <<threadVars, trapVars, current, irqOn, lock, tickVars, inputVars,
                 callerIF>>

\* sched_exit: also sched_start (the boot thread ends) and the return of an
\* entry function.  Nothing runs after it ("dead" is its final hlt loop).
Exit ==
  /\ At("exit") \/ At("sched_start")
  /\ Acquire
  /\ Goto("dead")
  /\ Resched([state EXCEPT ![current] = "DEAD"])
  /\ UNCHANGED <<created, aspace, ppid, trapVars, inputVars>>

-----------------------------------------------------------------------------
(* Interrupts.  They arrive while IF is set; the handler runs with IF      *)
(* clear and its iretq sets it again.                                      *)

\* Where the interrupted code continues: past the hlt it was halted in.
AfterIrq == IF pc[current] = "halted" THEN "check" ELSE pc[current]

\* Mutant of Preempts: without the sched_preempt_pending test.
PreemptsAgain(nr) == nr /\ pc[current] # "user" /\ ~aspace[current]

\* sched_request_preempt's tests, nr being need_resched after the tick.
Preempts(nr) ==
  /\ nr
  /\ pc[current] # "user"
  /\ ~aspace[current]
  /\ ~pending

\* Mutant of OnTick: the end of the slice is never noticed.
OnTickNever ==
  /\ sinceSwitch' = IF sinceSwitch < TimeSlice THEN sinceSwitch + 1
                                               ELSE sinceSwitch
  /\ UNCHANGED needResched

\* sched_on_tick; past the end of the slice the count is not distinguished.
OnTick ==
  /\ sinceSwitch' = IF sinceSwitch < TimeSlice THEN sinceSwitch + 1
                                               ELSE sinceSwitch
  /\ needResched' = (needResched \/ sinceSwitch' >= TimeSlice)

\* isr_irq0: timer_on_tick, sched_on_tick, then sched_request_preempt.
Tick ==
  /\ irqOn
  /\ Len(frame[current]) < MaxFrames
  /\ current = Boot /\ ~SlowBoot => sinceSwitch + 1 < TimeSlice
  /\ OnTick
  /\ \/ /\ Preempts(needResched')
        /\ pending' = TRUE
        /\ target' = AfterIrq
        /\ Goto("tramp")
     \/ /\ ~Preempts(needResched')
        /\ Goto(AfterIrq)
        /\ UNCHANGED <<pending, target>>
  /\ UNCHANGED <<threadVars, frame, current, irqOn, lock, inputVars, callerIF>>

\* Mutant of WakeOne: wakes the head but leaves it on the queue.
WakeOneNoUnlink ==
  /\ state' = IF wq = <<>> THEN state
                           ELSE [state EXCEPT ![Head(wq)] = "RUNNABLE"]
  /\ UNCHANGED wq

\* sched_wake_one(&input_wq).
WakeOne ==
  \/ wq = <<>> /\ UNCHANGED <<wq, state>>
  \/ /\ wq # <<>>
     /\ wq' = Tail(wq)
     /\ state' = [state EXCEPT ![Head(wq)] = "RUNNABLE"]

\* isr_irq1 and isr_irq4: a full ring drops the character and wakes nobody.
InputIrq ==
  /\ irqOn /\ ~lock.held
  /\ \/ input < InputSlots /\ input' = input + 1 /\ WakeOne
     \/ input = InputSlots /\ UNCHANGED <<input, wq, state>>
  /\ Goto(AfterIrq)
  /\ UNCHANGED <<created, aspace, ppid, trapVars, current, irqOn, lock, tickVars,
                 callerIF>>

-----------------------------------------------------------------------------
(* The preemption trampoline and the idle thread.                          *)

\* Mutant of Trampoline: cli before pushfq.
TrampolineCliFirst ==
  /\ At("tramp")
  /\ frame' = [frame EXCEPT ![current] =
                  <<[ret |-> target, flags |-> FALSE]>> \o @]
  /\ pending' = FALSE
  /\ lock' = [held |-> TRUE, flags |-> FALSE]
  /\ irqOn' = FALSE
  /\ callerIF' = [callerIF EXCEPT ![current] = FALSE]
  /\ Goto("trampret")
  /\ Resched(state)
  /\ UNCHANGED <<created, aspace, ppid, target, inputVars>>

\* sched_preempt_trampoline: push target and flags, cli, clear the pending
\* flag, call sched_yield.
Trampoline ==
  /\ At("tramp")
  /\ frame' = [frame EXCEPT ![current] =
                  <<[ret |-> target, flags |-> irqOn]>> \o @]
  /\ pending' = FALSE
  /\ lock' = [held |-> TRUE, flags |-> FALSE]
  /\ irqOn' = FALSE
  /\ callerIF' = [callerIF EXCEPT ![current] = FALSE]
  /\ Goto("trampret")
  /\ Resched(state)
  /\ UNCHANGED <<created, aspace, ppid, target, inputVars>>

\* The rest of the trampoline: popfq and ret.
TrampolineReturn ==
  /\ At("trampret")
  /\ Goto(Head(frame[current]).ret)
  /\ irqOn' = Head(frame[current]).flags
  /\ frame' = [frame EXCEPT ![current] = Tail(@)]
  /\ UNCHANGED <<threadVars, current, lock, tickVars, pending, target,
                 inputVars, callerIF>>

\* idle_thread: hlt ...
IdleHalt ==
  /\ At("idle")
  /\ Goto("halted")
  /\ UNCHANGED <<threadVars, trapVars, current, irqOn, lock, tickVars, inputVars,
                 callerIF>>

\* ... then sched_maybe_preempt.
IdleCheck ==
  /\ At("check")
  /\ \/ needResched /\ Yield("idle") /\ UNCHANGED trapVars
     \/ /\ ~needResched
        /\ Goto("idle")
        /\ UNCHANGED <<threadVars, trapVars, current, irqOn, lock, tickVars,
                       inputVars, callerIF>>

-----------------------------------------------------------------------------
(* User threads.                                                           *)

\* user_launch_thread and user_smoke_thread: load the image and enter ring 3
\* with interrupts on, or return when the image cannot be loaded.
Launch ==
  /\ At("launch")
  /\ \/ /\ aspace' = [aspace EXCEPT ![current] = TRUE]
        /\ irqOn' = TRUE
        /\ Goto("user")
     \/ Goto("exit") /\ UNCHANGED <<aspace, irqOn>>
  /\ UNCHANGED <<created, state, ppid, trapVars, current, lock, tickVars,
                 inputVars, callerIF>>

\* Ring 3 executes a syscall instruction, which masks IF (SFMASK), or faults
\* and is ended by exception_handler behind an interrupt gate.
Syscall(call) ==
  /\ At("user")
  /\ current = InitThread => call \in InitCalls
  /\ call = "spawn" => created < MaxThreads
  /\ irqOn' = FALSE
  /\ Goto(CASE call = "fault" -> "exit"
            [] call = "other" -> "sysret"
            [] OTHER -> call)
  /\ UNCHANGED <<threadVars, trapVars, current, lock, tickVars, inputVars,
                 callerIF>>

\* syscall_entry's return path: sysretq reloads the user's flags.
SysRet ==
  /\ At("sysret")
  /\ irqOn' = TRUE
  /\ Goto("user")
  /\ UNCHANGED <<threadVars, trapVars, current, lock, tickVars, inputVars,
                 callerIF>>

\* SYSCALL_YIELD, and the loops of pipe_read_impl and pipe_write_impl, which
\* call sched_yield until the pipe lets them go on.
SysYield ==
  /\ At("yield")
  /\ \E p \in {"sysret", "yield"} : Yield(p)
  /\ UNCHANGED trapVars

\* SYSCALL_SPAWN.
SysSpawn ==
  /\ At("spawn")
  /\ Create(current)
  /\ pc' = [pc EXCEPT ![current] = "sysret", ![created + 1] = "start"]
  /\ UNCHANGED <<trapVars, current, irqOn, lock, tickVars, inputVars, callerIF>>

Children == {t \in Thread : state[t] # "UNUSED" /\ ppid[t] = current}

\* Mutant of SysWait: reaps a child that still runs.
SysWaitReapsAny ==
  /\ At("wait")
  /\ \E z \in Children :
       /\ state' = [state EXCEPT ![z] = "UNUSED"]
       /\ ppid' = [ppid EXCEPT ![z] = 0]
       /\ pc' = [pc EXCEPT ![current] = "sysret", ![z] = "none"]
  /\ UNCHANGED <<created, aspace, trapVars, current, irqOn, lock, tickVars,
                 inputVars, callerIF>>

\* One pass of sched_wait_child: reap the first dead child on the list,
\* give up without children, else go round after a sched_yield.
SysWait ==
  /\ At("wait")
  /\ \/ \E z \in Children :
          /\ state[z] = "DEAD"
          /\ \A y \in Children : state[y] = "DEAD" => z <= y
          /\ state' = [state EXCEPT ![z] = "UNUSED"]
          /\ ppid' = [ppid EXCEPT ![z] = 0]
          /\ pc' = [pc EXCEPT ![current] = "sysret", ![z] = "none"]
     \/ /\ \A z \in Children : state[z] # "DEAD"
        /\ Goto(IF Children = {} THEN "sysret" ELSE "wait_yield")
        /\ UNCHANGED <<state, ppid>>
  /\ UNCHANGED <<created, aspace, trapVars, current, irqOn, lock, tickVars,
                 inputVars, callerIF>>

SysWaitYield ==
  /\ At("wait_yield")
  /\ Yield("wait")
  /\ UNCHANGED trapVars

\* tty_read's loop: take a character, which may or may not end the read, or
\* go and wait for one.
TtyPop ==
  /\ At("read")
  /\ \/ /\ input > 0
        /\ input' = input - 1
        /\ \E p \in {"read", "sysret"} : Goto(p)
     \/ input = 0 /\ Goto("sleep") /\ UNCHANGED input
  /\ UNCHANGED <<threadVars, trapVars, current, irqOn, lock, tickVars, wq,
                 callerIF>>

\* Mutant of SleepCond: sched_sleep, which does not look at the rings again.
SleepUncond ==
  /\ At("sleep")
  /\ Acquire
  /\ Goto("read")
  /\ wq' = Append(wq, current)
  /\ Resched([state EXCEPT ![current] = "BLOCKED"])
  /\ UNCHANGED <<created, aspace, ppid, trapVars, input>>

\* irq_wait_input: sched_sleep_cond(&input_wq, irq_has_input).
SleepCond ==
  /\ At("sleep")
  /\ \/ /\ input > 0
        /\ Goto("read")
        /\ UNCHANGED <<state, current, irqOn, lock, tickVars, wq, callerIF>>
     \/ /\ input = 0
        /\ Acquire
        /\ Goto("read")
        /\ wq' = Append(wq, current)
        /\ Resched([state EXCEPT ![current] = "BLOCKED"])
  /\ UNCHANGED <<created, aspace, ppid, trapVars, input>>

-----------------------------------------------------------------------------
\* After sched_init: kernel_main is the boot thread, interrupts are on.
Init ==
  /\ created = 1
  /\ state = [t \in Thread |-> IF t = Boot THEN "RUNNING" ELSE "UNUSED"]
  /\ aspace = [t \in Thread |-> FALSE]
  /\ ppid = [t \in Thread |-> 0]
  /\ pc = [t \in Thread |-> IF t = Boot THEN "create_idle" ELSE "none"]
  /\ frame = [t \in Thread |-> <<>>]
  /\ current = Boot
  /\ irqOn = TRUE
  /\ lock = Unlocked
  /\ sinceSwitch = 0
  /\ needResched = FALSE
  /\ pending = FALSE
  /\ target = "none"
  /\ wq = <<>>
  /\ input = 0
  /\ callerIF = [t \in Thread |-> FALSE]

\* What the kernel does by itself once it holds the CPU.
Kernel ==
  \/ Release \/ BootCreate \/ Start \/ Exit
  \/ Trampoline \/ TrampolineReturn \/ IdleHalt \/ IdleCheck
  \/ Launch \/ SysRet \/ SysYield \/ SysSpawn \/ SysWait \/ SysWaitYield
  \/ TtyPop \/ SleepCond

Next == Kernel \/ Tick \/ InputIrq \/ \E call \in Calls : Syscall(call)

Spec == Init /\ [][Next]_vars
-----------------------------------------------------------------------------
(* Properties.                                                             *)

\* Every variable keeps its type.
TypeOK ==
  /\ created \in 1..MaxThreads
  /\ state \in [Thread -> TState]
  /\ aspace \in [Thread -> BOOLEAN]
  /\ ppid \in [Thread -> 0..MaxThreads]
  /\ pc \in [Thread -> PC]
  /\ frame \in [Thread -> Seq(Frame)]
  /\ current \in Thread
  /\ irqOn \in BOOLEAN
  /\ lock \in [held : BOOLEAN, flags : BOOLEAN]
  /\ sinceSwitch \in 0..TimeSlice
  /\ needResched \in BOOLEAN
  /\ pending \in BOOLEAN
  /\ target \in PC
  /\ wq \in Seq(Thread)
  /\ input \in 0..InputSlots
  /\ callerIF \in [Thread -> BOOLEAN]

\* The CPU always runs a thread in state RUNNING, and it is the only one.
\* sched_resched_locked returns to its caller when nobody is runnable, even
\* if the caller just made itself BLOCKED or DEAD; this never happens.
OneRunning ==
  \A t \in Thread : state[t] = "RUNNING" <=> t = current

\* The wait queue's links (sched_sleep_cond, sched_wake_one) hold exactly the
\* BLOCKED threads, each once: nobody sleeps unreachable from input_wq, and
\* no wakeup hits a thread that is running, dead or freed.
WaitQueueExact ==
  /\ \A t \in Thread : state[t] = "BLOCKED" <=> \E i \in DOMAIN wq : wq[i] = t
  /\ \A i, j \in DOMAIN wq : wq[i] = wq[j] => i = j

\* An interrupt never finds sched_lock taken, so sched_wake_one in a handler
\* never spins on the lock of the thread it interrupted.
LockMasksIrqs == lock.held => ~irqOn

\* The single sched_preempt_target is not overwritten between the tick that
\* sets it and the trampoline that pushes it: while it is live the preempted
\* thread keeps the CPU and the address is not the trampoline's own.
PreemptTargetSafe ==
  /\ pending <=> pc[current] = "tramp"
  /\ pending => target \notin {"tramp", "halted", "none"}
  /\ \A t \in Thread \ {current} : pc[t] # "tramp"

\* Where the idle thread may be, and the boot thread before it made idle.
IdleCode == {"none", "start", "idle", "halted", "check", "tramp", "trampret"}
BootCode == {"create_idle", "tramp", "trampret"}

\* Thread t executes only code in S, now and after the interrupts and
\* trampolines stacked on it return.
OnlyAt(t, S) ==
  /\ pc[t] \in S
  /\ \A i \in DOMAIN frame[t] : frame[t][i].ret \in S
  /\ pending /\ t = current => target \in S

\* A thread that was not created yet is UNUSED, and one in use has code to run.
UnusedSafe ==
  /\ \A t \in Thread : t > created => state[t] = "UNUSED"
  /\ \A t \in Thread : state[t] # "UNUSED" => pc[t] # "none"

\* The idle thread, once it exists, is always there to be switched to and
\* never reaches code that sleeps or exits; nothing can leave the CPU before.
IdleSafe ==
  /\ created >= Idle => state[Idle] \in {"RUNNABLE", "RUNNING"}
  /\ OnlyAt(Idle, IdleCode)
  /\ created < Idle => OnlyAt(current, BootCode)

\* Every return from a preemption trampoline, nested ones included, finds
\* its own frame on the stack.
FramesSafe ==
  /\ \A t \in Thread :
       /\ pc[t] = "trampret" => frame[t] # <<>>
       /\ \A i \in DOMAIN frame[t] :
            /\ frame[t][i].ret \notin {"tramp", "halted", "none"}
            /\ frame[t][i].ret = "trampret" => i < Len(frame[t])
  /\ pending /\ target = "trampret" => frame[current] # <<>>

\* What the invariants above rest on: sched_resched_locked always finds a
\* thread to run when its caller leaves (the idle thread, which never sleeps
\* or exits), and no trampoline returns through another one's frame.
ReturnsSafe == UnusedSafe /\ IdleSafe /\ FramesSafe

\* Characters are never left in a ring while the readers who could take them
\* sleep: as long as someone sleeps on input_wq there is an awake reader in
\* tty_read for every character (irq_wait_input, kb_push, irq_com_push).
NoLostWakeup ==
  wq # <<>> =>
    input <= Cardinality({t \in Thread : /\ pc[t] \in {"read", "sleep"}
                                         /\ state[t] \in {"RUNNABLE", "RUNNING"}})

\* sched_wait_child frees a thread only when it is DEAD, off the CPU and off
\* the wait queue, and a thread that called sched_exit never runs again.
DeadStaysDead ==
  [][\A t \in Thread :
       /\ state[t] = "DEAD" =>
            state'[t] \in {"DEAD", "UNUSED"} /\ current' # t
       /\ state[t] # "UNUSED" /\ state'[t] = "UNUSED" =>
            /\ state[t] = "DEAD"
            /\ current # t
            /\ \A i \in DOMAIN wq : wq[i] # t]_vars

\* A thread leaves the scheduler with the interrupt flag it entered it with
\* (a new thread has none to restore).
RestoresFlags ==
  [][lock.held /\ ~lock'.held /\ pc[current] # "start" =>
       irqOn' = callerIF[current]]_vars
=============================================================================
