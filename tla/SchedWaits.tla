----------------------------- MODULE SchedWaits -----------------------------
(***************************************************************************)
(* What waits in the scheduler, for any number of threads: the idle thread *)
(* that halts can be woken, and no reader sleeps through its input.        *)
(***************************************************************************)
EXTENDS SchedProofs

(* The idle loop.  The interrupt flag idle_thread runs with is the one that *)
(* the code that gave it the CPU leaves in the lock, or in a frame of the   *)
(* trampoline that took the CPU away from it.                               *)

Awake == {"RUNNABLE", "RUNNING"}
Over  == {"DEAD", "UNUSED"}

\* A step leaves the threads alone that do not run: only sched_wait_child
\* touches one, and it is DEAD.
LEMMA OthersStay ==
  ASSUME IInv, Next, NEW t \in Thread, t # current, t <= created, state[t] # "DEAD"
  PROVE  pc'[t] = pc[t] /\ frame'[t] = frame[t] /\ aspace'[t] = aspace[t]
<1>1. /\ pc \in [Thread -> PC] /\ frame \in [Thread -> Seq(Frame)]
      /\ aspace \in [Thread -> BOOLEAN] /\ current \in Thread
      /\ created \in Nat /\ t # created + 1
  BY SchedAssumption DEF IInv, TypeOK, Thread
<1>2. CASE BootCreate \/ SysSpawn
  <2>1. PICK parent, q :
          /\ Create(parent)
          /\ pc' = [pc EXCEPT ![current] = q, ![created + 1] = "start"]
          /\ UNCHANGED frame
    BY <1>2, ZenonT(30) DEF BootCreate, SysSpawn, trapVars
  <2>2. QED
    BY <1>1, <2>1, ZenonT(30) DEF Create
<1>3. CASE SysWait
  BY <1>1, <1>3, ZenonT(30) DEF SysWait, Goto, trapVars
<1>4. CASE Release
  BY <1>4, ZenonT(30) DEF Release, threadVars, trapVars
<1>5. ASSUME NEW q, Goto(q),
             UNCHANGED frame \/ \E s : frame' = [frame EXCEPT ![current] = s],
             UNCHANGED aspace \/ aspace' = [aspace EXCEPT ![current] = TRUE]
      PROVE  pc'[t] = pc[t] /\ frame'[t] = frame[t] /\ aspace'[t] = aspace[t]
  BY <1>1, <1>5, ZenonT(30) DEF Goto
<1>6. CASE Trampoline \/ TrampolineReturn
  BY <1>5, <1>6, ZenonT(30) DEF Trampoline, TrampolineReturn, threadVars
<1>7. CASE \/ Start \/ Exit \/ IdleHalt \/ IdleCheck \/ Launch \/ SysRet \/ SysYield
           \/ SysWaitYield \/ TtyPop \/ SleepCond \/ Tick \/ InputIrq
           \/ \E call \in Calls : Syscall(call)
  <2>1. PICK q : Goto(q)
    BY <1>7, ZenonT(30) DEF Start, Exit, IdleHalt, IdleCheck, Launch, SysRet, SysYield, Yield,
       SysWaitYield, TtyPop, SleepCond, Tick, InputIrq, Syscall
  <2>2. UNCHANGED frame /\ (UNCHANGED aspace \/ aspace' = [aspace EXCEPT ![current] = TRUE])
    BY <1>7, ZenonT(30) DEF Start, Exit, IdleHalt, IdleCheck, Launch, SysRet, SysYield, Yield,
       SysWaitYield, TtyPop, SleepCond, Tick, InputIrq, Syscall, threadVars, trapVars
  <2>3. QED
    BY <1>5, <2>1, <2>2, ZenonT(30)
<1>8. QED
  BY <1>2, <1>3, <1>4, <1>6, <1>7, ZenonT(30) DEF Next, Kernel

\* A thread that has ended stays so, and one that is awake does too unless it
\* calls sched_exit or sched_sleep_cond itself.
LEMMA StateStep ==
  ASSUME IInv, Next, NEW t \in Thread, t <= created
  PROVE  /\ state[t] \in Over => state'[t] \in Over
         /\ state[t] \in Awake /\ (t = current => pc[t] \notin {"exit", "sched_start", "sleep"})
              => state'[t] \in Awake
<1>1. /\ state \in [Thread -> TState] /\ current \in Thread
      /\ created \in Nat /\ t # created + 1 /\ state[current] = "RUNNING"
  BY SchedAssumption DEF IInv, TypeOK, Thread, OneRunning
<1>2. CASE state'[t] = state[t]
  BY <1>2, ZenonT(30)
<1>3. ASSUME NEW st, ReschedPost(st), st[t] = state[t]
      PROVE  /\ state[t] \in Over => state'[t] \in Over
             /\ state[t] \in Awake => state'[t] \in Awake
  <2>1. state'[t] \in TState /\ \A x \in {"BLOCKED", "DEAD", "UNUSED"} : state'[t] = x <=> state[t] = x
    BY <1>3, ZenonT(30) DEF ReschedPost
  <2>2. QED
    BY <2>1, ZenonT(30) DEF Over, Awake, TState
<1>4. ASSUME NEW x \in {"DEAD", "BLOCKED"}, Resched([state EXCEPT ![current] = x]),
             pc[current] \in {"exit", "sched_start", "sleep"}
      PROVE  /\ state[t] \in Over => state'[t] \in Over
             /\ state[t] \in Awake /\ t # current => state'[t] \in Awake
  <2> DEFINE st == [state EXCEPT ![current] = x]
  <2>1. ReschedPost(st)
    BY <1>4, LeaveEffect, ZenonT(30) DEF IdleCode, BootCode
  <2>2. t # current => st[t] = state[t]
    BY <1>1, ZenonT(30)
  <2> HIDE DEF st
  <2>3. state[t] \in Over => t # current
    BY <1>1, ZenonT(30) DEF Over
  <2>4. QED
    BY <1>3, <2>1, <2>2, <2>3, ZenonT(30)
<1>5. CASE BootCreate \/ SysSpawn
  <2>1. PICK parent : Create(parent)
    BY <1>5, ZenonT(30) DEF BootCreate, SysSpawn
  <2>2. QED
    BY <1>1, <1>2, <2>1, ZenonT(30) DEF Create
<1>6. CASE Exit \/ SleepCond
  <2>1. \/ UNCHANGED state
        \/ /\ pc[current] \in {"exit", "sched_start", "sleep"}
           /\ \E x \in {"DEAD", "BLOCKED"} : Resched([state EXCEPT ![current] = x])
    BY <1>6, ZenonT(30) DEF Exit, SleepCond, At
  <2>2. QED
    BY <1>2, <1>4, <2>1, ZenonT(30)
<1>7. CASE SysWait
  <2>1. state'[t] = state[t] \/ (state[t] = "DEAD" /\ state'[t] = "UNUSED")
    BY <1>1, <1>7, ZenonT(30) DEF SysWait, Children
  <2>2. QED
    BY <2>1, ZenonT(30) DEF Over, Awake
<1>8. CASE InputIrq
  <2>1. state'[t] = state[t] \/ (state[t] = "BLOCKED" /\ state'[t] = "RUNNABLE")
    BY <1>1, <1>8, HeadSleeps, ZenonT(30) DEF InputIrq, WakeOne
  <2>2. QED
    BY <2>1, ZenonT(30) DEF Over, Awake
<1>9. CASE \/ Release \/ Start \/ Trampoline \/ TrampolineReturn \/ IdleHalt \/ IdleCheck
           \/ Launch \/ SysRet \/ SysYield \/ SysWaitYield \/ TtyPop \/ Tick
           \/ \E call \in Calls : Syscall(call)
  <2>1. UNCHANGED state \/ Resched(state)
    BY <1>9, ZenonT(30) DEF Release, Start, Trampoline, TrampolineReturn, IdleHalt, IdleCheck, Launch,
       SysRet, SysYield, SysWaitYield, Yield, TtyPop, Tick, Syscall, threadVars
  <2>2. QED
    BY <1>2, <1>3, <2>1, YieldEffect, ZenonT(30)
<1>10. QED
  BY <1>5, <1>6, <1>7, <1>8, <1>9, ZenonT(30) DEF Next, Kernel

\* The CPU goes to a thread that was RUNNABLE, with a fresh time slice, and
\* only from code of the current thread that calls sched_resched_locked.
LEMMA Handover ==
  ASSUME IInv, Next, current' # current
  PROVE  /\ current' \in Thread /\ state[current'] = "RUNNABLE" /\ ~needResched'
         /\ Exit \/ SleepCond \/ Trampoline \/ IdleCheck \/ SysYield \/ SysWaitYield
<1>1. current \in Thread /\ state \in [Thread -> TState]
  BY ZenonT(30) DEF IInv, TypeOK
<1>2. ASSUME NEW st, Resched(st), \A n \in Thread : n # current => st[n] = state[n]
      PROVE  current' \in Thread /\ state[current'] = "RUNNABLE" /\ ~needResched'
  BY <1>2, ZenonT(30) DEF Resched
<1>3. CASE Exit
  <2>1. \A n \in Thread : n # current => [state EXCEPT ![current] = "DEAD"][n] = state[n]
    BY <1>1, ZenonT(30)
  <2>2. QED
    BY <1>2, <1>3, <2>1, ZenonT(30) DEF Exit
<1>4. CASE SleepCond
  <2>1. \A n \in Thread : n # current => [state EXCEPT ![current] = "BLOCKED"][n] = state[n]
    BY <1>1, ZenonT(30)
  <2>2. QED
    BY <1>2, <1>4, <2>1, ZenonT(30) DEF SleepCond
<1>5. CASE Trampoline \/ IdleCheck \/ SysYield \/ SysWaitYield
  BY <1>2, <1>5, ZenonT(30) DEF Trampoline, IdleCheck, SysYield, SysWaitYield, Yield
<1>6. QED
  BY <1>3, <1>4, <1>5, ZenonT(30) DEF Next, Kernel, Release, BootCreate, Start,
     TrampolineReturn, IdleHalt, Launch, SysRet, SysSpawn, SysWait, TtyPop, Tick,
     InputIrq, Syscall

\* The flag the current thread has once it has released the lock.
IfOn == irqOn \/ (lock.held /\ lock.flags)

\* The first program ended before it started another one.
Gone == created = InitThread /\ state[InitThread] \in Over

\* kernel_main keeps the CPU, with interrupts on, until sched_start, and then
\* it is over.
BootPhase ==
  IF current = Boot
  THEN /\ irqOn /\ ~lock.held /\ ~needResched
       /\ \/ pc[Boot] = "create_idle" /\ created = Boot
          \/ pc[Boot] = "create_init" /\ created = Idle
          \/ pc[Boot] = "sched_start" /\ created = InitThread
       /\ created >= Idle => pc[Idle] = "start"
  ELSE created >= InitThread /\ state[Boot] \in Over

\* The idle thread loses the CPU only in the trampoline, which has its
\* interrupts on again when it comes back; sched_maybe_preempt finds nobody.
IdlePhase ==
  /\ ~aspace[Idle]
  /\ \A i \in DOMAIN frame[Idle] : frame[Idle][i].flags
  /\ current \notin {Boot, Idle} => pc[Idle] = "trampret"
  /\ current = Idle =>
       /\ pc[Idle] \in {"start", "idle"} => IfOn
       /\ pc[Idle] \in {"halted", "check", "tramp"} => irqOn
       /\ needResched => pc[Idle] = "tramp" \/ Gone

\* The first program is there to take the CPU from the idle thread, unless it
\* could not be loaded and nothing else was ever started.
InitPhase ==
  /\ frame[InitThread] = <<>>
  /\ created >= InitThread =>
       \/ /\ pc[InitThread] \in UserCode \ {"read", "sleep"}
          /\ state[InitThread] \in Awake
       \/ /\ created = InitThread /\ pc[InitThread] = "start"
          /\ state[InitThread] \in Awake
          /\ current = InitThread => ~IfOn
       \/ /\ created = InitThread /\ pc[InitThread] \in {"launch", "exit"}
          /\ current = InitThread /\ ~IfOn
       \/ Gone

Phases == BootPhase /\ IdlePhase /\ InitPhase

\* Once kernel_main is over it stays so.
LEMMA BootOver ==
  ASSUME IInv, IInv', Next, current # Boot, BootPhase
  PROVE  BootPhase' /\ current' # Boot /\ created' >= created /\ created' \in Nat
<1>1. created \in Nat /\ created >= InitThread /\ state[Boot] \in Over
  BY SchedAssumption DEF IInv, TypeOK, BootPhase
<1>2. created' >= created /\ created' \in Nat
  <2>1. created' = created \/ created' = created + 1
    BY ZenonT(30) DEF Next, Kernel, Release, BootCreate, Create, Start, Exit, Trampoline, TrampolineReturn,
       IdleHalt, IdleCheck, Launch, SysRet, SysYield, Yield, SysSpawn, SysWait, SysWaitYield,
       TtyPop, SleepCond, Tick, InputIrq, Syscall, threadVars
  <2>2. QED
    BY <1>1, <2>1
<1>3. state'[Boot] \in Over
  BY <1>1, StateStep, BootThreads DEF Boot, InitThread
<1>4. current' # Boot
  BY <1>3, BootThreads, ZenonT(30) DEF IInv, OneRunning, Over
<1>5. QED
  BY <1>1, <1>2, <1>3, <1>4 DEF BootPhase, InitThread

\* The first program keeps to its calls.
LEMMA InitRuns ==
  ASSUME IInv, IInv', UserSafe, Next, ~Strays, Phases, current = InitThread
  PROVE  InitPhase'
<1>1. /\ pc \in [Thread -> PC] /\ InitThread \in Thread /\ created \in Nat
      /\ InitThread <= created /\ state[InitThread] = "RUNNING"
      /\ frame[InitThread] = <<>>
      /\ aspace \in [Thread -> BOOLEAN] /\ InitThread # Idle
  <2>1. pc \in [Thread -> PC] /\ aspace \in [Thread -> BOOLEAN] /\ created \in 1..MaxThreads
    BY Zenon DEF IInv, TypeOK
  <2>2. state[InitThread] = "RUNNING" /\ frame[InitThread] = <<>>
    BY BootThreads, ZenonT(30) DEF IInv, OneRunning, Phases, InitPhase
  <2>3. current # Boot /\ InitThread # Idle
    BY DEF Boot, Idle, InitThread
  <2>4. created >= InitThread /\ BootPhase
    BY <2>3, ZenonT(30) DEF Phases, BootPhase
  <2>5. QED
    BY <2>1, <2>2, <2>3, <2>4, BootThreads, SchedAssumption DEF InitThread
<1>2. \A q : Goto(q) => pc'[InitThread] = q
  BY <1>1, ZenonT(30) DEF Goto
<1>3. ASSUME pc[InitThread] \in UserCode \ {"read", "sleep"} PROVE InitPhase'
  <2>1. aspace[InitThread]
    BY <1>1, <1>3, ZenonT(30) DEF UserSafe
  <2>2. state'[InitThread] \in Awake
    BY <1>1, <1>3, StateStep, ZenonT(30) DEF Awake, UserCode
  <2>3. CASE SysSpawn \/ SysWait
    <3>1. pc'[InitThread] \in {"sysret", "wait_yield"} /\ UNCHANGED frame
      <4>1. CASE SysSpawn
        <5>1. InitThread # created + 1
          BY <1>1
        <5>2. QED
          BY <1>1, <4>1, <5>1, ZenonT(30) DEF SysSpawn, trapVars
      <4>2. CASE SysWait
        <5>1. \A z \in Children : state[z] = "DEAD" => z # InitThread
          BY <1>1, ZenonT(30)
        <5>2. QED
          BY <1>1, <1>2, <4>2, <5>1, ZenonT(30) DEF SysWait, trapVars
      <4>3. QED
        BY <2>3, <4>1, <4>2, ZenonT(30)
    <3>2. QED
      BY <1>1, <2>2, <3>1, ZenonT(30) DEF InitPhase, UserCode
  <2>4. CASE SysRet \/ SysYield \/ SysWaitYield \/ \E call \in Calls : Syscall(call)
    <3>1. PICK q \in {"user", "sysret", "yield", "wait", "read", "exit", "spawn"} : Goto(q)
      BY <2>4, ZenonT(30) DEF SysRet, SysYield, SysWaitYield, Yield, Syscall, Calls
    <3>2. q \notin {"read", "exit"}
      BY <1>1, <1>2, <2>4, <3>1, ZenonT(30) DEF SysRet, SysYield, SysWaitYield, Yield, Syscall, At, Strays
    <3>3. UNCHANGED frame
      BY <2>4, ZenonT(30) DEF SysRet, SysYield, SysWaitYield, Syscall, trapVars
    <3>4. QED
      BY <1>1, <1>2, <2>2, <3>1, <3>2, <3>3, ZenonT(30) DEF InitPhase, UserCode
  <2>5. CASE Tick \/ InputIrq
    <3>1. Goto(AfterIrq) /\ UNCHANGED frame
      BY <2>1, <2>5, ZenonT(30) DEF Tick, Preempts, InputIrq, trapVars
    <3>2. AfterIrq = pc[InitThread]
      BY <1>3, ZenonT(30) DEF AfterIrq, UserCode
    <3>3. QED
      BY <1>1, <1>2, <1>3, <2>2, <3>1, <3>2, ZenonT(30) DEF InitPhase
  <2>6. CASE Release
    BY <1>1, <1>3, <2>2, <2>6, ZenonT(30) DEF Release, InitPhase, trapVars
  <2>7. QED
    BY <1>3, <2>3, <2>4, <2>5, <2>6, ZenonT(30) DEF Next, Kernel, BootCreate, Start, Exit, Trampoline,
       TrampolineReturn, IdleHalt, IdleCheck, Launch, TtyPop, SleepCond, At, UserCode
<1>4. ASSUME created = InitThread, pc[InitThread] \in {"start", "launch", "exit"}, ~IfOn
      PROVE  InitPhase'
  <2>1. CASE Start
    <3>1. pc'[InitThread] = "launch" /\ UNCHANGED <<state, created, current, frame, irqOn, lock>>
      BY <1>1, <1>2, <2>1, ZenonT(30) DEF Start, threadVars, trapVars
    <3>2. QED
      BY <1>1, <1>4, <3>1, ZenonT(30) DEF InitPhase, IfOn
  <2>2. CASE Launch
    <3>1. /\ UNCHANGED <<state, created, current, frame, lock>>
          /\ \/ pc'[InitThread] = "user"
             \/ pc'[InitThread] = "exit" /\ UNCHANGED irqOn
      BY <1>2, <2>2, ZenonT(30) DEF Launch, trapVars
    <3>2. QED
      BY <1>1, <1>4, <3>1 DEF InitPhase, IfOn, UserCode, Awake
  <2>3. CASE Exit
    <3>1. UNCHANGED <<created, frame>> /\ ReschedPost([state EXCEPT ![current] = "DEAD"])
      BY <2>3, LeaveEffect, ZenonT(30) DEF Exit, At, IdleCode, BootCode, trapVars
    <3>2. state'[InitThread] = "DEAD"
      <4>1. [state EXCEPT ![current] = "DEAD"][InitThread] = "DEAD"
        BY <1>1, ZenonT(30) DEF IInv, TypeOK
      <4>2. QED
        BY <1>1, <3>1, <4>1, ZenonT(30) DEF ReschedPost
    <3>3. QED
      BY <1>1, <1>4, <3>1, <3>2, ZenonT(30) DEF InitPhase, Gone, Over
  <2>4. CASE Release
    BY <1>1, <1>4, <2>4, ZenonT(30) DEF Release, InitPhase, IfOn, Unlocked, trapVars, threadVars, Awake
  <2>5. QED
    BY <1>1, <1>4, <2>1, <2>2, <2>3, <2>4, ZenonT(30) DEF Next, Kernel, BootCreate, Trampoline,
       TrampolineReturn, IdleHalt, IdleCheck, SysRet, SysYield, SysSpawn, SysWait, SysWaitYield,
       TtyPop, SleepCond, Tick, InputIrq, Syscall, At, IfOn
<1>5. QED
  BY <1>1, <1>3, <1>4, ZenonT(30) DEF Phases, InitPhase, Gone, Over

\* A step of a thread that is neither the boot nor the idle thread.
LEMMA BusyStep ==
  ASSUME IInv, IInv', UserSafe, Next, ~Strays, Phases, current \notin {Boot, Idle}
  PROVE  Phases'
<1>1. /\ Idle \in Thread /\ InitThread \in Thread /\ current \in Thread
      /\ created \in Nat /\ InitThread <= created /\ Idle <= created
      /\ current <= created
  <2>1. created \in 1..MaxThreads /\ current \in Thread
    BY ZenonT(30) DEF IInv, TypeOK
  <2>2. created >= InitThread
    BY ZenonT(30) DEF Phases, BootPhase
  <2>3. current > created => state[current] = "UNUSED"
    BY <2>1, ZenonT(30) DEF IInv, UnusedSafe
  <2>4. state[current] = "RUNNING"
    BY <2>1, ZenonT(30) DEF IInv, OneRunning
  <2>5. QED
    BY <2>1, <2>2, <2>3, <2>4, BootThreads, SchedAssumption DEF InitThread, Idle, Thread
<1>2. BootPhase' /\ current' # Boot /\ created' >= created /\ created' \in Nat
  BY BootOver, ZenonT(30) DEF Phases
<1>3. IdlePhase'
  <2>1. state[Idle] # "DEAD" /\ pc[Idle] = "trampret" /\ ~aspace[Idle]
        /\ \A i \in DOMAIN frame[Idle] : frame[Idle][i].flags
    BY <1>1, ZenonT(30) DEF IInv, IdleSafe, Phases, IdlePhase
  <2>2. pc'[Idle] = "trampret" /\ ~aspace'[Idle] /\ frame'[Idle] = frame[Idle]
    BY <1>1, <2>1, OthersStay, ZenonT(30)
  <2>3. current' = Idle => ~needResched'
    BY Handover, ZenonT(30)
  <2>4. QED
    BY <2>1, <2>2, <2>3, ZenonT(30) DEF IdlePhase
<1>4. InitPhase'
  <2>1. CASE current = InitThread
    BY <2>1, InitRuns, ZenonT(30)
  <2>2. CASE current # InitThread
    <3>1. created # InitThread
      BY <1>1, <2>2 DEF Boot, Idle, InitThread, Thread
    <3>2. /\ pc[InitThread] \in UserCode \ {"read", "sleep"}
          /\ state[InitThread] \in Awake /\ frame[InitThread] = <<>>
      BY <1>1, <3>1, ZenonT(30) DEF Phases, InitPhase, Gone
    <3>3. pc'[InitThread] = pc[InitThread] /\ frame'[InitThread] = <<>>
      BY <1>1, <2>2, <3>2, OthersStay, ZenonT(30) DEF Awake
    <3>4. state'[InitThread] \in Awake
      BY <1>1, <2>2, <3>2, StateStep, ZenonT(30)
    <3>5. QED
      BY <3>2, <3>3, <3>4, ZenonT(30) DEF InitPhase
  <2>3. QED
    BY <2>1, <2>2, ZenonT(30)
<1>5. QED
  BY <1>2, <1>3, <1>4, ZenonT(30) DEF Phases

\* What the idle thread may do, and with it the interrupts.
LEMMA IdleActs ==
  ASSUME IInv, Next, current = Idle
  PROVE  \/ Release \/ Start \/ IdleHalt \/ IdleCheck \/ Trampoline \/ TrampolineReturn
         \/ Tick \/ InputIrq
<1>1. pc[Idle] \in IdleCode
  BY ZenonT(30) DEF IInv, IdleSafe, OnlyAt
<1>2. QED
  BY <1>1, ZenonT(30) DEF Next, Kernel, BootCreate, Exit, Launch, SysRet, SysYield, SysSpawn, SysWait,
     SysWaitYield, TtyPop, SleepCond, Syscall, At, IdleCode

\* The idle thread leaves the CPU in the trampoline, with the flag off.
LEMMA IdleGives ==
  ASSUME IInv, IInv', Next, Phases, current = Idle, current' # current
  PROVE  Trampoline /\ ~IfOn'
<1>1. Trampoline \/ IdleCheck
  BY Handover, IdleActs, ZenonT(30) DEF Exit, SleepCond, SysYield, SysWaitYield, IdleHalt, Start,
     TrampolineReturn, At, Release, Tick, InputIrq
<1>2. ~IdleCheck
  <2>1. SUFFICES ASSUME IdleCheck PROVE FALSE
    BY ZenonT(30)
  <2>2. needResched /\ pc[Idle] = "check"
    BY <2>1, ZenonT(30) DEF IdleCheck, At
  <2>3. Gone /\ state[Boot] \in Over
    BY <2>2, ZenonT(30) DEF Phases, IdlePhase, BootPhase, Boot, Idle
  <2>4. current' \in Thread /\ state[current'] = "RUNNABLE"
    BY Handover, ZenonT(30)
  <2>5. current' <= created
    BY <2>4, SchedAssumption DEF IInv, UnusedSafe, TypeOK, Thread
  <2>6. current' \in {Boot, Idle, InitThread}
    BY <2>3, <2>4, <2>5 DEF Gone, Boot, Idle, InitThread, Thread
  <2>7. QED
    BY <2>3, <2>4, <2>6, ZenonT(30) DEF Gone, Over
<1>3. QED
  BY <1>1, <1>2 DEF Trampoline, IfOn

\* A step of the idle thread.
LEMMA IdleStep ==
  ASSUME IInv, IInv', UserSafe, Next, Phases, current = Idle
  PROVE  Phases'
<1>1. /\ Idle \in Thread /\ InitThread \in Thread /\ Idle # InitThread /\ Idle # Boot
      /\ created \in Nat /\ InitThread <= created /\ Idle <= created
      /\ UNCHANGED created
      /\ state[Idle] = "RUNNING" /\ pc[Idle] \in IdleCode
      /\ pc \in [Thread -> PC] /\ frame \in [Thread -> Seq(Frame)]
      /\ aspace \in [Thread -> BOOLEAN]
  <2>1. created \in 1..MaxThreads /\ Idle # Boot /\ Idle # InitThread
    BY DEF IInv, TypeOK, Idle, Boot, InitThread
  <2>2. created >= InitThread
    BY <2>1, ZenonT(30) DEF Phases, BootPhase
  <2>3. UNCHANGED created
    BY IdleActs, ZenonT(30) DEF Release, Start, IdleHalt, IdleCheck, Yield, Trampoline, TrampolineReturn,
       Tick, InputIrq, threadVars
  <2>4. state[Idle] = "RUNNING" /\ pc[Idle] \in IdleCode
    BY BootThreads, ZenonT(30) DEF IInv, OneRunning, IdleSafe, OnlyAt
  <2>5. pc \in [Thread -> PC] /\ frame \in [Thread -> Seq(Frame)] /\ aspace \in [Thread -> BOOLEAN]
    BY Zenon DEF IInv, TypeOK
  <2>6. Idle <= created /\ created \in Nat
    BY <2>1, <2>2, SchedAssumption DEF Idle, InitThread
  <2>7. QED
    BY <2>1, <2>2, <2>3, <2>4, <2>5, <2>6, BootThreads, ZenonT(30)
<1>2. BootPhase' /\ current' # Boot
  BY <1>1, BootOver, ZenonT(30) DEF Phases
<1>3. Gone => Gone'
  BY <1>1, StateStep, ZenonT(30) DEF Gone
<1>4. InitPhase'
  <2>1. state[InitThread] \in Awake => state'[InitThread] \in Awake
    BY <1>1, StateStep, ZenonT(30)
  <2>2. frame[InitThread] = <<>>
    BY ZenonT(30) DEF Phases, InitPhase
  <2>3. state[InitThread] \in Awake =>
          pc'[InitThread] = pc[InitThread] /\ frame'[InitThread] = <<>>
    BY <1>1, <2>2, OthersStay, ZenonT(30) DEF Awake
  <2>4. frame'[InitThread] = <<>>
    BY <1>1, <2>2, IdleActs, ZenonT(30) DEF Release, Start, IdleHalt, IdleCheck, Trampoline, TrampolineReturn,
       Tick, InputIrq, trapVars
  <2>5. current' = InitThread => ~IfOn'
    BY <1>1, IdleGives, ZenonT(30)
  <2>6. QED
    BY <1>1, <1>3, <2>1, <2>3, <2>4, <2>5, ZenonT(30) DEF Phases, InitPhase
<1>5. IdlePhase'
  <2>1. ~aspace[Idle] /\ \A i \in DOMAIN frame[Idle] : frame[Idle][i].flags
    BY ZenonT(30) DEF Phases, IdlePhase
  <2>2. ~aspace'[Idle]
    BY <2>1, IdleActs, ZenonT(30) DEF Release, Start, IdleHalt, IdleCheck, Yield, Trampoline, TrampolineReturn,
       Tick, InputIrq, threadVars
  <2>3. /\ pc[Idle] \in {"start", "idle"} => IfOn
        /\ pc[Idle] \in {"halted", "check", "tramp"} => irqOn
        /\ needResched => pc[Idle] = "tramp" \/ Gone
    BY ZenonT(30) DEF Phases, IdlePhase
  <2>4. \A q : Goto(q) => pc'[Idle] = q
    BY <1>1, ZenonT(30) DEF Goto
  <2>5. CASE Release
    BY <1>1, <1>3, <2>1, <2>2, <2>3, <2>5, ZenonT(30) DEF Release, IdlePhase, IfOn, Unlocked, threadVars,
       trapVars, tickVars
  <2>6. CASE Start \/ IdleHalt
    <3>1. UNCHANGED <<current, frame, irqOn, lock, needResched>> /\ ~lock.held
          /\ pc[Idle] \in {"start", "idle"}
      BY <2>6, ZenonT(30) DEF Start, IdleHalt, At, trapVars, tickVars
    <3>2. pc'[Idle] \in {"idle", "halted"}
      BY <2>4, <2>6, ZenonT(30) DEF Start, IdleHalt
    <3>3. QED
      BY <1>3, <2>1, <2>2, <2>3, <3>1, <3>2, ZenonT(30) DEF IdlePhase, IfOn
  <2>7. CASE IdleCheck
    <3>1. current' = current
      BY <1>1, <2>7, IdleGives, ZenonT(30) DEF Trampoline, IdleCheck, At
    <3>2. pc'[Idle] = "idle" /\ UNCHANGED frame /\ pc[Idle] = "check" /\ ~lock.held
      BY <2>4, <2>7, ZenonT(30) DEF IdleCheck, Yield, At, trapVars
    <3>3. IfOn'
      <4>1. irqOn
        BY <2>3, <3>2, ZenonT(30)
      <4>2. CASE Acquire
        <5>1. lock'.held /\ lock'.flags
          BY <4>1, <4>2, ZenonT(30) DEF Acquire
        <5>2. QED
          BY <5>1, ZenonT(30) DEF IfOn
      <4>3. CASE UNCHANGED irqOn
        BY <4>1, <4>3, ZenonT(30) DEF IfOn
      <4>4. QED
        BY <2>7, <4>2, <4>3, ZenonT(30) DEF IdleCheck, Yield
    <3>4. needResched' => needResched
      BY <2>7, <3>1, ZenonT(30) DEF IdleCheck, Yield, Resched, tickVars
    <3>5. QED
      BY <1>3, <2>1, <2>2, <2>3, <3>1, <3>2, <3>3, <3>4, ZenonT(30) DEF IdlePhase
  <2>8. CASE Tick
    <3>1. UNCHANGED <<current, frame, irqOn>> /\ irqOn
      BY <2>8, ZenonT(30) DEF Tick
    <3>2. CASE Preempts(needResched')
      <4>1. pc'[Idle] = "tramp"
        BY <2>4, <2>8, <3>2, ZenonT(30) DEF Tick
      <4>2. QED
        BY <2>1, <2>2, <3>1, <4>1, ZenonT(30) DEF IdlePhase
    <3>3. CASE ~Preempts(needResched')
      <4>1. pc'[Idle] = AfterIrq
        BY <2>4, <2>8, <3>3, ZenonT(30) DEF Tick
      <4>2. needResched' => pc[Idle] = "tramp"
        BY <1>1, <2>1, <3>3, ZenonT(30) DEF Preempts, IdleCode, IInv, PreemptTargetSafe
      <4>3. QED
        BY <2>1, <2>2, <3>1, <4>1, <4>2, ZenonT(30) DEF IdlePhase, IfOn, AfterIrq
    <3>4. QED
      BY <3>2, <3>3, ZenonT(30)
  <2>9. CASE InputIrq
    <3>1. UNCHANGED <<current, frame, irqOn, needResched>> /\ irqOn /\ pc'[Idle] = AfterIrq
      BY <2>4, <2>9, ZenonT(30) DEF InputIrq, trapVars, tickVars
    <3>2. QED
      BY <1>3, <2>1, <2>2, <2>3, <3>1, ZenonT(30) DEF IdlePhase, IfOn, AfterIrq
  <2>10. CASE Trampoline
    <3>1. pc'[Idle] = "trampret" /\ irqOn
      BY <2>3, <2>4, <2>10, ZenonT(30) DEF Trampoline, At
    <3>2. \A i \in DOMAIN frame'[Idle] : frame'[Idle][i].flags
      <4> DEFINE f == [ret |-> target, flags |-> irqOn]
                 s == frame[Idle]
      <4>1. f \in Frame /\ f.flags /\ s \in Seq(Frame)
        BY <1>1, <3>1, ZenonT(30) DEF Frame, IInv, TypeOK
      <4>2. frame'[Idle] = <<f>> \o s
        BY <1>1, <2>10, ZenonT(30) DEF Trampoline
      <4> HIDE DEF f, s
      <4>3. \A i \in DOMAIN (<<f>> \o s) :
              (<<f>> \o s)[i] = f \/ (i - 1 \in DOMAIN s /\ (<<f>> \o s)[i] = s[i - 1])
        BY <4>1, PushFrame
      <4>4. \A i \in DOMAIN s : s[i].flags
        BY <2>1, ZenonT(30) DEF s
      <4>5. QED
        BY <4>1, <4>2, <4>3, <4>4, ZenonT(30)
    <3>3. current' = Idle /\ needResched' => Gone'
      <4>1. SUFFICES ASSUME current' = Idle, needResched' PROVE Gone
        BY <1>3, ZenonT(30)
      <4>2. \A t \in Thread : state[t] = "RUNNABLE" => t = Idle
        BY <2>10, <4>1, ZenonT(30) DEF Trampoline, Resched
      <4>3. state[InitThread] \notin Awake
        BY <1>1, <4>2, ZenonT(30) DEF Awake, IInv, OneRunning
      <4>4. QED
        BY <1>1, <4>3, ZenonT(30) DEF Phases, InitPhase
    <3>4. QED
      BY <2>2, <3>1, <3>2, <3>3, ZenonT(30) DEF IdlePhase
  <2>11. CASE TrampolineReturn
    <3> DEFINE s == frame[Idle]
    <3>1. s \in Seq(Frame) /\ s # <<>>
      BY <1>1, <2>11, ZenonT(30) DEF IInv, FramesSafe, TrampolineReturn, At
    <3>2. /\ UNCHANGED <<current, needResched>> /\ irqOn' = Head(s).flags /\ pc[Idle] = "trampret"
          /\ frame'[Idle] = Tail(s)
      BY <1>1, <2>11, ZenonT(30) DEF TrampolineReturn, At, tickVars
    <3> HIDE DEF s
    <3>3. \A i \in DOMAIN s : s[i].flags
      BY <2>1, ZenonT(30) DEF s
    <3>4. irqOn' /\ \A i \in DOMAIN Tail(s) : Tail(s)[i].flags
      BY <3>1, <3>2, <3>3, PopFrame, ZenonT(30)
    <3>5. QED
      BY <1>3, <2>2, <2>3, <3>2, <3>4, ZenonT(30) DEF IdlePhase, IfOn
  <2>12. QED
    BY <2>5, <2>6, <2>7, <2>8, <2>9, <2>10, <2>11, IdleActs, ZenonT(30)
<1>6. QED
  BY <1>2, <1>4, <1>5, ZenonT(30) DEF Phases

\* A step of the boot thread.
LEMMA BootStep ==
  ASSUME IInv, IInv', Next, ~Strays, Phases, current = Boot
  PROVE  Phases'
<1>1. /\ irqOn /\ ~lock.held /\ ~needResched
      /\ \/ pc[Boot] = "create_idle" /\ created = Boot
         \/ pc[Boot] = "create_init" /\ created = Idle
         \/ pc[Boot] = "sched_start" /\ created = InitThread
      /\ created >= Idle => pc[Idle] = "start"
  BY ZenonT(30) DEF Phases, BootPhase
<1>2. Boot = 1 /\ Idle = 2 /\ InitThread = 3 /\ {1, 2, 3} \subseteq Thread
  BY BootThreads, ZenonT(30) DEF Boot, Idle, InitThread
<1>3. /\ pc \in [Thread -> PC] /\ state \in [Thread -> TState] /\ aspace \in [Thread -> BOOLEAN]
      /\ ~aspace[Idle] /\ \A i \in DOMAIN frame[Idle] : frame[Idle][i].flags
      /\ frame[InitThread] = <<>> /\ state[Boot] = "RUNNING"
  BY BootThreads, Zenon DEF IInv, TypeOK, OneRunning, Phases, IdlePhase, InitPhase
<1>4. BootCreate \/ Exit \/ Tick \/ InputIrq
  BY <1>1, ZenonT(30) DEF Next, Kernel, Release, Start, IdleHalt, IdleCheck, Trampoline, TrampolineReturn,
     Launch, SysRet, SysYield, SysSpawn, SysWait, SysWaitYield, TtyPop, SleepCond, Syscall, At
<1>5. UNCHANGED frame
  BY <1>4, ZenonT(30) DEF BootCreate, Exit, Tick, InputIrq, trapVars
<1>6. ~aspace'[Idle]
  <2>1. UNCHANGED aspace \/ \E parent : Create(parent)
    BY <1>4, ZenonT(30) DEF BootCreate, Exit, Tick, InputIrq, threadVars
  <2>2. QED
    BY <1>2, <1>3, <2>1, ZenonT(30) DEF Create
<1>7. CASE BootCreate
  <2>1. /\ created' = created + 1 /\ UNCHANGED <<current, irqOn, lock, needResched>>
        /\ state' = [state EXCEPT ![created + 1] = "RUNNABLE"]
    BY <1>7, ZenonT(30) DEF BootCreate, Create, tickVars
  <2>2. CASE pc[Boot] = "create_idle"
    <3>1. pc'[Boot] = "create_init" /\ pc'[Idle] = "start" /\ created' = 2
      BY <1>1, <1>2, <1>3, <1>7, <2>1, <2>2 DEF BootCreate, At
    <3>2. QED
      <4>1. BootPhase'
        BY <1>1, <1>2, <1>3, <1>5, <1>6, <2>1, <3>1, ZenonT(30) DEF BootPhase
      <4>2. IdlePhase'
        BY <1>1, <1>2, <1>3, <1>5, <1>6, <2>1, <3>1, ZenonT(30) DEF IdlePhase
      <4>3. InitPhase'
        BY <1>1, <1>2, <1>3, <1>5, <1>6, <2>1, <3>1 DEF InitPhase
      <4>4. QED
        BY <4>1, <4>2, <4>3, ZenonT(30) DEF Phases
  <2>3. CASE pc[Boot] = "create_init"
    <3>1. /\ pc'[Boot] = "sched_start" /\ pc'[Idle] = pc[Idle] /\ pc'[InitThread] = "start"
          /\ created' = 3 /\ state'[InitThread] = "RUNNABLE"
      BY <1>1, <1>2, <1>3, <1>7, <2>1, <2>3 DEF BootCreate, At
    <3>2. BootPhase' /\ IdlePhase'
      BY <1>1, <1>2, <1>3, <1>5, <1>6, <2>1, <2>3, <3>1 DEF BootPhase, IdlePhase
    <3>3. InitPhase'
      BY <1>2, <1>3, <1>5, <2>1, <3>1, ZenonT(30) DEF InitPhase, Awake
    <3>4. QED
      BY <3>2, <3>3, ZenonT(30) DEF Phases
  <2>4. QED
    BY <1>7, <2>2, <2>3, ZenonT(30) DEF BootCreate, At
<1>8. ASSUME UNCHANGED created, created >= InitThread, current' # InitThread PROVE InitPhase'
  <2>1. state[InitThread] \in Over => state'[InitThread] \in Over
    BY <1>2, <1>8, StateStep, ZenonT(30)
  <2>2. state[InitThread] \in Awake => /\ state'[InitThread] \in Awake
                                       /\ pc'[InitThread] = pc[InitThread]
    BY <1>2, <1>8, StateStep, OthersStay DEF Awake
  <2>3. QED
    BY <1>2, <1>3, <1>5, <1>8, <2>1, <2>2 DEF Phases, InitPhase, Gone
<1>9. CASE Exit
  <2>1. created = 3 /\ UNCHANGED created
    BY <1>1, <1>2, <1>9, ZenonT(30) DEF Exit, At
  <2>2. state[Idle] = "RUNNABLE" /\ pc[Idle] = "start"
    BY <1>1, <1>2, <2>1, BootThreads DEF IInv, IdleSafe, OneRunning
  <2>3. ReschedPost([state EXCEPT ![current] = "DEAD"])
    BY <1>1, <1>9, LeaveEffect, ZenonT(30) DEF Exit, At, IdleCode, BootCode
  <2>4. state'[Boot] = "DEAD"
    <3>1. [state EXCEPT ![current] = "DEAD"][Boot] = "DEAD"
      BY <1>2, <1>3, ZenonT(30)
    <3>2. QED
      BY <1>2, <2>3, <3>1, ZenonT(30) DEF ReschedPost
  <2>5. current' # current
    BY <1>2, <2>4, ZenonT(30) DEF IInv, OneRunning
  <2>6. current' = Idle
    <3>1. current' \in Thread /\ ScanDist(current') <= ScanDist(Idle)
      BY <1>2, <2>2, <2>5, NearestRuns, ZenonT(30)
    <3>2. current' \in Nat /\ current' > 1
      BY <1>2, <2>5, <3>1, SchedAssumption DEF Thread
    <3>3. ScanDist(Idle) = 1 /\ ScanDist(current') = current' - 1
      BY <1>2, <3>2 DEF ScanDist
    <3>4. QED
      BY <1>2, <3>1, <3>2, <3>3
  <2>7. ~needResched' /\ pc'[Idle] = "start"
    BY <1>2, <1>3, <2>1, <2>2, <2>5, Handover, OthersStay
  <2>8. IfOn'
    <3>1. lock'.held /\ lock'.flags
      BY <1>1, <1>9, ZenonT(30) DEF Exit, Acquire
    <3>2. QED
      BY <3>1, ZenonT(30) DEF IfOn
  <2>9. BootPhase' /\ IdlePhase'
    BY <1>2, <1>3, <1>5, <1>6, <2>1, <2>4, <2>6, <2>7, <2>8 DEF BootPhase, IdlePhase, Over
  <2>10. QED
    BY <1>2, <1>8, <2>1, <2>6, <2>9 DEF Phases
<1>10. CASE Tick \/ InputIrq
  <2>1. UNCHANGED <<current, created, irqOn, lock>>
    BY <1>10, ZenonT(30) DEF Tick, InputIrq, threadVars
  <2>2. ~needResched' /\ Goto(AfterIrq)
    <3>1. CASE Tick
      <4>1. ~(sinceSwitch' >= TimeSlice)
        BY ZenonT(30) DEF Strays
      <4>2. ~needResched'
        BY <1>1, <3>1, <4>1, ZenonT(30) DEF Tick, OnTick
      <4>3. QED
        BY <3>1, <4>2, ZenonT(30) DEF Tick, Preempts
    <3>2. CASE InputIrq
      BY <1>1, <3>2, ZenonT(30) DEF InputIrq, tickVars
    <3>3. QED
      BY <1>10, <3>1, <3>2, ZenonT(30)
  <2>3. pc'[Boot] = pc[Boot] /\ pc'[Idle] = pc[Idle]
    BY <1>1, <1>2, <1>3, <2>2, ZenonT(30) DEF Goto, AfterIrq
  <2>4. BootPhase' /\ IdlePhase'
    BY <1>1, <1>2, <1>3, <1>5, <1>6, <2>1, <2>2, <2>3, ZenonT(30) DEF BootPhase, IdlePhase
  <2>5. InitPhase'
    <3>1. CASE created >= InitThread
      BY <1>2, <1>8, <2>1, <3>1
    <3>2. CASE ~(created >= InitThread)
      BY <1>3, <1>5, <2>1, <3>2, ZenonT(30) DEF InitPhase
    <3>3. QED
      BY <3>1, <3>2, ZenonT(30)
  <2>6. QED
    BY <2>4, <2>5, ZenonT(30) DEF Phases
<1>11. QED
  BY <1>4, <1>7, <1>9, <1>10, ZenonT(30)

\* With this image's boot and first program, idle_thread never executes hlt
\* with interrupts off: for any number of threads and whatever the programs
\* do that the first one starts.
THEOREM IdleSafety == FairOrderSpec => []IdleWakeable
<1> DEFINE I == UserSafe /\ (plain => Phases)
<1>1. FairOrderInit => Init /\ I
  <2>1. SUFFICES ASSUME FairOrderInit PROVE Init /\ I
    BY ZenonT(30)
  <2>2. Init /\ UserSafe
    BY <2>1, UserInit, ZenonT(30) DEF FairOrderInit
  <2>3. Boot = 1 /\ Idle = 2 /\ InitThread = 3 /\ {1, 2, 3} \subseteq Thread
    BY BootThreads, ZenonT(30) DEF Boot, Idle, InitThread
  <2>4. Phases
    BY <2>2, <2>3 DEF Init, Phases, BootPhase, IdlePhase, InitPhase, Unlocked
  <2>5. QED
    BY <2>2, <2>4, ZenonT(30)
<1>2. [FairOrderNext]_fairVars => [Next]_vars
  BY ZenonT(30) DEF FairOrderNext, fairVars
<1>3. IInv /\ IInv' /\ I /\ [FairOrderNext]_fairVars => I'
  <2>1. ASSUME IInv, IInv', I, FairOrderNext PROVE I'
    <3>1. Next /\ UserSafe'
      BY <2>1, UserStep, ZenonT(30) DEF FairOrderNext
    <3>2. ASSUME plain' PROVE Phases'
      <4>1. Phases /\ ~Strays
        BY <2>1, <3>2, ZenonT(30) DEF FairOrderNext
      <4>2. QED
        BY <2>1, <3>1, <4>1, BootStep, IdleStep, BusyStep, ZenonT(30)
    <3>3. QED
      BY <3>1, <3>2, ZenonT(30)
  <2>2. ASSUME I, UNCHANGED fairVars PROVE I'
    <3>1. UserSafe'
      BY <2>2, ZenonT(30) DEF fairVars, vars, UserSafe, TrapsSafe
    <3>2. UNCHANGED plain /\ (Phases => Phases')
      BY <2>2, ZenonT(30) DEF fairVars, vars, Phases, BootPhase, IdlePhase, InitPhase, Gone, IfOn
    <3>3. QED
      BY <2>2, <3>1, <3>2, ZenonT(30)
  <2>3. QED
    BY <2>1, <2>2, ZenonT(30)
<1>4. IInv /\ I => IdleWakeable
  <2>1. SUFFICES ASSUME IInv, I, plain, pc[current] = "halted" PROVE irqOn
    BY ZenonT(30) DEF IdleWakeable
  <2>2. current = Idle
    BY <2>1, ZenonT(30) DEF UserSafe, Own, IInv, TypeOK
  <2>3. QED
    BY <2>1, <2>2, ZenonT(30) DEF Phases, IdlePhase
<1>5. FairOrderInit /\ [][FairOrderNext]_fairVars => []IdleWakeable
  <2>1. FairOrderInit /\ [][FairOrderNext]_fairVars => []IInv
    BY <1>1, <1>2, Invariance, PTL DEF Spec
  <2>2. QED
    BY <2>1, <1>1, <1>3, <1>4, PTL
<1>6. QED
  BY <1>5, PTL DEF FairOrderSpec

-----------------------------------------------------------------------------
(* A reader for every character.                                           *)

\* Who could take a character from the rings.
Readers == {t \in Thread : /\ pc[t] \in {"read", "sleep"}
                           /\ state[t] \in {"RUNNABLE", "RUNNING"}}

\* Only the current thread moves, a reader stays one, and nobody who is awake
\* falls asleep or ends: there are as many readers as before.
LEMMA ReadersStay ==
  ASSUME IInv, NEW q \in PC, Goto(q),
         pc[current] \in {"read", "sleep"} => q \in {"read", "sleep"},
         UNCHANGED state \/ Resched(state)
  PROVE  Readers \subseteq Readers'
<1>1. pc \in [Thread -> PC] /\ current \in Thread /\ state \in [Thread -> TState]
  BY ZenonT(30) DEF IInv, TypeOK
<1>2. \A t \in Thread : pc'[t] = IF t = current THEN q ELSE pc[t]
  BY <1>1, ZenonT(30) DEF Goto
<1>3. \A t \in Thread : state[t] \in {"RUNNABLE", "RUNNING"} => state'[t] \in {"RUNNABLE", "RUNNING"}
  <2>1. CASE UNCHANGED state
    BY <2>1, ZenonT(30)
  <2>2. CASE Resched(state)
    BY <2>2, <1>1, YieldEffect, ZenonT(30) DEF ReschedPost, TState
  <2>3. QED
    BY <2>1, <2>2, ZenonT(30)
<1>4. QED
  BY <1>2, <1>3, ZenonT(30) DEF Readers

\* A thread that ends, or frees a dead child, or starts one, is no reader and
\* touches none.
LEMMA ReadersApart ==
  ASSUME IInv, Exit \/ SysWait \/ BootCreate \/ SysSpawn
  PROVE  Readers \subseteq Readers'
<1>1. /\ pc \in [Thread -> PC] /\ current \in Thread /\ state \in [Thread -> TState]
      /\ pc[current] \notin {"read", "sleep"}
  BY ZenonT(30) DEF IInv, TypeOK, Exit, SysWait, BootCreate, SysSpawn, At
<1>2. SUFFICES ASSUME NEW t \in Thread, t # current, pc[t] \in {"read", "sleep"},
                      state[t] \in {"RUNNABLE", "RUNNING"}
               PROVE  pc'[t] = pc[t] /\ state'[t] \in {"RUNNABLE", "RUNNING"}
  BY <1>1, ZenonT(30) DEF Readers
<1>3. CASE Exit
  <2>1. Goto("dead") /\ ReschedPost([state EXCEPT ![current] = "DEAD"])
    BY <1>3, LeaveEffect, ZenonT(30) DEF Exit, At, IdleCode, BootCode
  <2>2. [state EXCEPT ![current] = "DEAD"][t] = state[t]
    BY <1>1, <1>2, ZenonT(30)
  <2>3. state'[t] \in TState /\ state'[t] \notin {"BLOCKED", "DEAD", "UNUSED"}
    BY <1>2, <2>1, <2>2, ZenonT(30) DEF ReschedPost
  <2>4. QED
    BY <1>1, <1>2, <2>1, <2>3, ZenonT(30) DEF Goto, TState
<1>4. CASE SysWait
  BY <1>1, <1>2, <1>4, ZenonT(30) DEF SysWait, Children, Goto
<1>5. CASE BootCreate \/ SysSpawn
  <2>1. PICK parent, q :
          /\ Create(parent)
          /\ pc' = [pc EXCEPT ![current] = q, ![created + 1] = "start"]
    BY <1>5, ZenonT(30) DEF BootCreate, SysSpawn
  <2>2. created \in Nat /\ (t > created => state[t] = "UNUSED")
    BY <1>2, SchedAssumption DEF IInv, UnusedSafe, TypeOK
  <2>3. t # created + 1
    BY <1>2, <2>2
  <2>4. QED
    BY <1>1, <1>2, <2>1, <2>3, ZenonT(30) DEF Create
<1>6. QED
  BY <1>3, <1>4, <1>5, ZenonT(30)

\* The characters in the rings are counted.
LEMMA InputCount == (IInv => input \in Nat) /\ (IInv' => input' \in Nat)
<1>1. ASSUME NEW n \in 0 .. InputSlots PROVE n \in Nat
  BY SchedAssumption
<1>2. IInv => input \in 0 .. InputSlots
  BY ZenonT(30) DEF IInv, TypeOK
<1>3. IInv' => input' \in 0 .. InputSlots
  BY ZenonT(30) DEF IInv, TypeOK
<1>4. QED
  BY <1>1, <1>2, <1>3, ZenonT(30)

\* What becomes of n characters for c readers when there are d of them later.
LEMMA Enough ==
  ASSUME NEW n \in Nat, NEW c \in Nat, NEW d \in Nat, n <= c
  PROVE  /\ c <= d => n <= d /\ n - 1 <= d
         /\ d = c - 1 => n - 1 <= d
         /\ c + 1 <= d => n + 1 <= d
  OBVIOUS

INSTANCE FiniteSetTheorems

\* Sets of threads have a size.
LEMMA ThreadSets ==
  ASSUME NEW S, S \subseteq Thread
  PROVE  IsFiniteSet(S) /\ Cardinality(S) \in Nat
<1>1. IsFiniteSet(Thread)
  BY FS_Interval, SchedAssumption DEF Thread
<1>2. QED
  BY <1>1, FS_Subset, FS_CardinalityType, ZenonT(30)

\* As many readers as before and no more input: no wakeup is lost.
LEMMA KeepsUp ==
  ASSUME IInv, IInv', NoLostWakeup, Readers \subseteq Readers',
         UNCHANGED wq, input' \in {input, input - 1}
  PROVE  NoLostWakeup'
<1>1. Cardinality(Readers) \in Nat /\ Cardinality(Readers') \in Nat /\ IsFiniteSet(Readers')
  <2>1. Readers \subseteq Thread /\ Readers' \subseteq Thread
    BY ZenonT(30) DEF Readers
  <2>2. QED
    BY <2>1, ThreadSets, ZenonT(30)
<1>2. Cardinality(Readers) <= Cardinality(Readers')
  BY <1>1, FS_Subset, ZenonT(30)
<1>3. input \in Nat
  BY InputCount, ZenonT(30)
<1>4. NoLostWakeup <=> (wq # <<>> => input <= Cardinality(Readers))
  BY ZenonT(30) DEF NoLostWakeup, Readers
<1>5. NoLostWakeup' <=> (wq' # <<>> => input' <= Cardinality(Readers'))
  BY ZenonT(30) DEF NoLostWakeup, Readers
<1>6. SUFFICES ASSUME wq # <<>> PROVE input' <= Cardinality(Readers')
  BY <1>5, ZenonT(30)
<1>7. input <= Cardinality(Readers)
  BY <1>4, <1>6, ZenonT(30)
<1>8. input <= Cardinality(Readers') /\ input - 1 <= Cardinality(Readers')
  BY <1>1, <1>2, <1>3, <1>7, Enough, ZenonT(30)
<1>9. QED
  BY <1>8, ZenonT(30)

\* tty_read takes a character: one less to read for the reader that returns.
LEMMA WakePop ==
  ASSUME IInv, IInv', NoLostWakeup, TtyPop
  PROVE  NoLostWakeup'
<1>1. /\ pc \in [Thread -> PC] /\ current \in Thread /\ UNCHANGED <<state, wq>>
      /\ pc[current] = "read" /\ state[current] = "RUNNING"
      /\ input \in Nat
  <2>1. /\ pc \in [Thread -> PC] /\ current \in Thread
        /\ state[current] = "RUNNING"
    BY ZenonT(30) DEF IInv, TypeOK, OneRunning
  <2>2. UNCHANGED <<state, wq>> /\ pc[current] = "read"
    BY ZenonT(30) DEF TtyPop, At, threadVars
  <2>3. QED
    BY <2>1, <2>2, InputCount, ZenonT(30)
<1>2. CASE Goto("sysret") /\ input > 0 /\ input' = input - 1
  <2>1. Readers' = Readers \ {current} /\ current \in Readers
    BY <1>1, <1>2, ZenonT(30) DEF Readers, Goto
  <2>2. IsFiniteSet(Readers) /\ Cardinality(Readers) \in Nat
    BY ThreadSets, ZenonT(30) DEF Readers
  <2>3. Cardinality(Readers') = Cardinality(Readers) - 1
    BY <2>1, <2>2, FS_RemoveElement, ZenonT(30)
  <2>4. NoLostWakeup <=> (wq # <<>> => input <= Cardinality(Readers))
    BY ZenonT(30) DEF NoLostWakeup, Readers
  <2>5. NoLostWakeup' <=> (wq' # <<>> => input' <= Cardinality(Readers'))
    BY ZenonT(30) DEF NoLostWakeup, Readers
  <2>6. Cardinality(Readers') \in Nat
    BY ThreadSets, ZenonT(30) DEF Readers
  <2>7. QED
    BY <1>1, <1>2, <2>2, <2>3, <2>4, <2>5, <2>6, Enough, ZenonT(30)
<1>3. ASSUME NEW q \in {"read", "sleep"}, Goto(q), input' \in {input, input - 1}
      PROVE  NoLostWakeup'
  <2>1. q \in PC
    BY ZenonT(30) DEF PC
  <2>2. Readers \subseteq Readers'
    BY <1>1, <1>3, <2>1, ReadersStay, ZenonT(30)
  <2>3. QED
    BY <1>1, <1>3, <2>2, KeepsUp, ZenonT(30)
<1>4. CASE Goto("sleep") /\ UNCHANGED input
  BY <1>3, <1>4, ZenonT(30)
<1>5. CASE Goto("read") /\ input' = input - 1
  BY <1>3, <1>5, ZenonT(30)
<1>6. QED
  BY <1>2, <1>4, <1>5, ZenonT(30) DEF TtyPop

\* A character arrives: the thread sched_wake_one takes off the queue sleeps in
\* tty_read, and becomes its reader.
LEMMA WakeInput ==
  ASSUME IInv, IInv', UserSafe, NoLostWakeup, InputIrq
  PROVE  NoLostWakeup'
<1>1. /\ pc \in [Thread -> PC] /\ current \in Thread /\ state \in [Thread -> TState]
      /\ input \in Nat /\ Goto(AfterIrq) /\ pc[current] \in PC
  BY InputCount, ZenonT(30) DEF IInv, TypeOK, InputIrq
<1>2. AfterIrq \in PC /\ (pc[current] \in {"read", "sleep"} => AfterIrq = pc[current])
  BY <1>1, ZenonT(30) DEF AfterIrq, PC
<1>3. CASE wq = <<>>
  BY <1>3, ZenonT(30) DEF InputIrq, WakeOne, NoLostWakeup
<1>4. CASE UNCHANGED <<input, wq, state>>
  <2>1. Readers \subseteq Readers'
    BY <1>1, <1>2, <1>4, ReadersStay, ZenonT(30)
  <2>2. QED
    BY <1>4, <2>1, KeepsUp, ZenonT(30)
<1>5. CASE wq # <<>> /\ input' = input + 1 /\ state' = [state EXCEPT ![Head(wq)] = "RUNNABLE"]
  <2> DEFINE h == Head(wq)
  <2>1. h \in Thread /\ state[h] = "BLOCKED"
    BY <1>5, HeadSleeps, ZenonT(30)
  <2>2. pc[h] = "read"
    BY <2>1, ZenonT(30) DEF UserSafe
  <2> HIDE DEF h
  <2>3. \A t \in Thread : pc'[t] = IF t = current THEN AfterIrq ELSE pc[t]
    BY <1>1, ZenonT(30) DEF Goto
  <2>4. \A t \in Thread : state'[t] = IF t = h THEN "RUNNABLE" ELSE state[t]
    BY <1>1, <1>5, ZenonT(30) DEF h
  <2>5. h \notin Readers /\ Readers \cup {h} \subseteq Readers'
    BY <1>2, <2>1, <2>2, <2>3, <2>4, ZenonT(30) DEF Readers
  <2>6. IsFiniteSet(Readers) /\ IsFiniteSet(Readers') /\ Cardinality(Readers) \in Nat
        /\ Cardinality(Readers') \in Nat
    <3>1. Readers \subseteq Thread /\ Readers' \subseteq Thread
      BY ZenonT(30) DEF Readers
    <3>2. QED
      BY <3>1, ThreadSets, ZenonT(30)
  <2>7. Cardinality(Readers \cup {h}) = Cardinality(Readers) + 1
    BY <2>5, <2>6, FS_AddElement, ZenonT(30)
  <2>8. Cardinality(Readers \cup {h}) <= Cardinality(Readers')
    BY <2>5, <2>6, FS_Subset, ZenonT(30)
  <2>9. wq # <<>> => input <= Cardinality(Readers)
    BY ZenonT(30) DEF NoLostWakeup, Readers
  <2>10. input' <= Cardinality(Readers')
    BY <1>1, <1>5, <2>6, <2>7, <2>8, <2>9, Enough, ZenonT(30)
  <2>11. QED
    BY <2>10, ZenonT(30) DEF NoLostWakeup, Readers
<1>6. QED
  BY <1>3, <1>4, <1>5, ZenonT(30) DEF InputIrq, WakeOne

\* Every step keeps a reader awake for every character, while someone sleeps.
LEMMA WakeStep ==
  ASSUME IInv, IInv', UserSafe, NoLostWakeup, Next
  PROVE  NoLostWakeup'
<1>1. /\ pc[current] \in PC /\ current \in Thread
      /\ pc[current] \in {"read", "sleep"} => aspace[current]
  BY ZenonT(30) DEF IInv, TypeOK, UserSafe, UserCode
<1>2. ASSUME NEW q \in PC, Goto(q), UNCHANGED inputVars,
             pc[current] \in {"read", "sleep"} => q \in {"read", "sleep"},
             UNCHANGED state \/ Resched(state)
      PROVE  NoLostWakeup'
  <2>1. Readers \subseteq Readers'
    BY <1>2, ReadersStay, ZenonT(30)
  <2>2. QED
    BY <1>2, <2>1, KeepsUp, ZenonT(30) DEF inputVars
<1>3. CASE Exit \/ SysWait \/ BootCreate \/ SysSpawn
  <2>1. UNCHANGED inputVars
    BY <1>3, ZenonT(30) DEF Exit, SysWait, BootCreate, SysSpawn
  <2>2. QED
    BY <1>3, <2>1, ReadersApart, KeepsUp, ZenonT(30) DEF inputVars
<1>4. CASE Release
  BY <1>4, ZenonT(30) DEF Release, NoLostWakeup, threadVars, inputVars
<1>5. CASE Tick
  <2>1. UNCHANGED <<state, inputVars>>
    BY <1>5, ZenonT(30) DEF Tick, threadVars
  <2>2. CASE Preempts(needResched')
    <3>1. Goto("tramp") /\ ~aspace[current] /\ "tramp" \in PC
      BY <1>5, <2>2, ZenonT(30) DEF Tick, Preempts, PC
    <3>2. QED
      BY <1>1, <1>2, <2>1, <3>1, ZenonT(30)
  <2>3. CASE Goto(AfterIrq)
    <3>1. AfterIrq \in PC /\ (pc[current] \in {"read", "sleep"} => AfterIrq \in {"read", "sleep"})
      BY <1>1, ZenonT(30) DEF AfterIrq, PC
    <3>2. QED
      BY <1>2, <2>1, <2>3, <3>1, ZenonT(30)
  <2>4. QED
    BY <1>5, <2>2, <2>3, ZenonT(30) DEF Tick
<1>6. CASE SleepCond
  <2>1. CASE input = 0
    <3>1. input' = 0
      BY <1>6, <2>1, ZenonT(30) DEF SleepCond
    <3>2. Cardinality(Readers') \in Nat
      <4>1. Readers' \subseteq Thread
        BY ZenonT(30) DEF Readers
      <4>2. QED
        BY <4>1, ThreadSets, ZenonT(30)
    <3>3. input' <= Cardinality(Readers')
      BY <3>1, <3>2
    <3>4. QED
      BY <3>3, ZenonT(30) DEF NoLostWakeup, Readers
  <2>2. CASE input # 0
    <3>1. Goto("read") /\ UNCHANGED <<state, inputVars>> /\ "read" \in PC
      BY <1>6, <2>2, ZenonT(30) DEF SleepCond, inputVars, PC
    <3>2. QED
      BY <1>2, <3>1, ZenonT(30)
  <2>3. QED
    BY <2>1, <2>2, ZenonT(30)
<1>7. CASE \/ Start \/ Trampoline \/ TrampolineReturn \/ IdleHalt \/ IdleCheck
           \/ Launch \/ SysRet \/ SysYield \/ SysWaitYield
           \/ \E call \in Calls : Syscall(call)
  <2>1. PICK q : Goto(q)
    BY <1>7, ZenonT(30) DEF Start, Trampoline, TrampolineReturn, IdleHalt, IdleCheck, Launch,
       SysRet, SysYield, SysWaitYield, Syscall, Yield
  <2>2. pc' \in [Thread -> PC] /\ pc \in [Thread -> PC]
    BY ZenonT(30) DEF IInv, TypeOK
  <2>3. q \in PC
    BY <1>1, <2>1, <2>2, ZenonT(30) DEF Goto
  <2>4. pc[current] \notin {"read", "sleep"}
    BY <1>7, ZenonT(30) DEF Start, Trampoline, TrampolineReturn, IdleHalt, IdleCheck, Launch,
       SysRet, SysYield, SysWaitYield, Syscall, At
  <2>5. UNCHANGED inputVars /\ (UNCHANGED state \/ Resched(state))
    BY <1>7, ZenonT(30) DEF Start, Trampoline, TrampolineReturn, IdleHalt, IdleCheck, Launch,
       SysRet, SysYield, SysWaitYield, Syscall, Yield, threadVars
  <2>6. QED
    BY <1>2, <2>1, <2>3, <2>4, <2>5, ZenonT(30)
<1>8. QED
  BY <1>3, <1>4, <1>5, <1>6, <1>7, WakePop, WakeInput, ZenonT(30) DEF Next, Kernel

\* As long as someone sleeps on input_wq there is an awake reader in tty_read
\* for every character in the rings (irq_wait_input, kb_push, irq_com_push):
\* for any number of readers and any size of the rings.
THEOREM WakeupSafety == Spec => []NoLostWakeup
<1> DEFINE I == UserSafe /\ NoLostWakeup
<1>1. Init => I
  BY UserInit, ZenonT(30) DEF Init, NoLostWakeup
<1>2. IInv /\ IInv' /\ I /\ [Next]_vars => I'
  <2>1. ASSUME IInv, IInv', I, Next PROVE I'
    BY <2>1, UserStep, WakeStep, ZenonT(30)
  <2>2. ASSUME I, UNCHANGED vars PROVE I'
    BY <2>2, ZenonT(30) DEF vars, UserSafe, TrapsSafe, NoLostWakeup
  <2>3. QED
    BY <2>1, <2>2, ZenonT(30)
<1>3. I => NoLostWakeup
  BY ZenonT(30)
<1>4. QED
  BY <1>1, <1>2, <1>3, Invariance, PTL DEF Spec
=============================================================================
