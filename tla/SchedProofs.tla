---------------------------- MODULE SchedProofs ----------------------------
(***************************************************************************)
(* The safety of Sched for any number of threads, any time slice, any size *)
(* of the input rings and any first program.                               *)
(***************************************************************************)
EXTENDS SchedFair, TLAPS

\* The inductive invariant.
IInv == /\ TypeOK
        /\ OneRunning
        /\ WaitQueueExact
        /\ LockMasksIrqs
        /\ PreemptTargetSafe
        /\ UnusedSafe
        /\ IdleSafe
        /\ FramesSafe

\* The three threads kernel_main knows of are threads.
LEMMA BootThreads == Boot \in Thread /\ Idle \in Thread /\ InitThread \in Thread
  BY SchedAssumption DEF Thread, Boot, Idle, InitThread

\* The state sched_init leaves satisfies the invariant.
LEMMA InitIInv == Init => IInv
<1> SUFFICES ASSUME Init PROVE IInv
  OBVIOUS
<1> USE BootThreads, SchedAssumption
<1>1. TypeOK
  <2>1. created \in 1..MaxThreads
    BY DEF Init, InitThread
  <2>2. frame \in [Thread -> Seq(Frame)] /\ wq \in Seq(Thread)
    BY DEF Init
  <2>3. sinceSwitch \in 0..TimeSlice /\ input \in 0..InputSlots
        /\ ppid \in [Thread -> 0..MaxThreads]
    BY DEF Init
  <2>4. state \in [Thread -> TState] /\ pc \in [Thread -> PC] /\ target \in PC
        /\ current \in Thread
    BY DEF Init, PC, TState
  <2>5. irqOn \in BOOLEAN /\ needResched \in BOOLEAN /\ pending \in BOOLEAN
        /\ aspace \in [Thread -> BOOLEAN] /\ callerIF \in [Thread -> BOOLEAN]
        /\ lock \in [held : BOOLEAN, flags : BOOLEAN]
    BY Zenon DEF Init, Unlocked
  <2>6. QED
    BY <2>1, <2>2, <2>3, <2>4, <2>5, Zenon DEF TypeOK
<1>2. OneRunning
  BY DEF Init, OneRunning
<1>3. WaitQueueExact
  BY DEF Init, WaitQueueExact
<1>4. LockMasksIrqs /\ PreemptTargetSafe
  BY DEF Init, LockMasksIrqs, PreemptTargetSafe, Unlocked
<1>5. ReturnsSafe
  BY DEF Init, ReturnsSafe, UnusedSafe, IdleSafe, FramesSafe, OnlyAt, IdleCode, BootCode, Thread, Boot, Idle
<1>6. QED
  BY <1>1, <1>2, <1>3, <1>4, <1>5 DEF IInv, ReturnsSafe

\* What a trampoline's push does to the frames on a stack.
LEMMA PushFrame ==
  ASSUME NEW s \in Seq(Frame), NEW f \in Frame
  PROVE  /\ <<f>> \o s \in Seq(Frame)
         /\ <<f>> \o s # <<>>
         /\ Len(<<f>> \o s) = Len(s) + 1 /\ Len(s) \in Nat
         /\ DOMAIN (<<f>> \o s) = 1..Len(<<f>> \o s) /\ DOMAIN s = 1..Len(s)
         /\ (<<f>> \o s)[1] = f
         /\ \A i \in DOMAIN (<<f>> \o s) : i # 1 => (<<f>> \o s)[i] = s[i - 1] /\ i - 1 \in DOMAIN s
<1> <<f>> \in Seq(Frame) /\ Len(<<f>>) = 1
  OBVIOUS
<1> QED
  OBVIOUS

\* What its pop does.
LEMMA PopFrame ==
  ASSUME NEW s \in Seq(Frame), s # <<>>
  PROVE  /\ Head(s) \in Frame
         /\ Head(s) = s[1]
         /\ 1 \in DOMAIN s
         /\ Tail(s) \in Seq(Frame)
         /\ Len(Tail(s)) = Len(s) - 1
         /\ \A i \in DOMAIN Tail(s) : Tail(s)[i] = s[i + 1] /\ i + 1 \in DOMAIN s
  OBVIOUS

\* The state sched_resched_locked leaves when st was what its caller left:
\* exactly the current thread RUNNING, nobody newly BLOCKED, DEAD or UNUSED.
ReschedPost(st) ==
  /\ state' \in [Thread -> TState]
  /\ current' \in Thread
  /\ sinceSwitch' \in 0..TimeSlice
  /\ needResched' \in BOOLEAN
  /\ \A t \in Thread : state'[t] = "RUNNING" <=> t = current'
  /\ \A t \in Thread : \A x \in {"BLOCKED", "DEAD", "UNUSED"} :
       state'[t] = x <=> st[t] = x

\* It does so whenever there is a thread to run: the current one, or another
\* that is RUNNABLE.
LEMMA ReschedEffect ==
  ASSUME TypeOK, NEW st \in [Thread -> TState], Resched(st),
         \A t \in Thread : st[t] = "RUNNING" => t = current,
         \/ st[current] = "RUNNING"
         \/ \E t \in Thread : t # current /\ st[t] = "RUNNABLE"
  PROVE  ReschedPost(st)
<1> DEFINE R == {t \in Thread : st[t] = "RUNNABLE"}
<1>1. CASE R \subseteq {current} /\ state' = st /\ UNCHANGED <<current, tickVars>>
  <2>1. current' = current /\ sinceSwitch' = sinceSwitch /\ needResched' = needResched
    BY <1>1 DEF tickVars
  <2>2. st[current] = "RUNNING"
    BY <1>1
  <2>3. QED
    BY <1>1, <2>1, <2>2 DEF TypeOK, ReschedPost
<1>2. CASE ~(R \subseteq {current} /\ state' = st /\ UNCHANGED <<current, tickVars>>)
  <2>1. PICK n \in R \ {current} :
          /\ state' = [st EXCEPT ![current] = IF @ = "RUNNING"
                                               THEN "RUNNABLE" ELSE @,
                                 ![n] = "RUNNING"]
          /\ current' = n /\ sinceSwitch' = 0 /\ needResched' = FALSE
    BY <1>2 DEF Resched
  <2>2. \A t \in Thread :
          state'[t] = IF t = n THEN "RUNNING"
                      ELSE IF t = current /\ st[t] = "RUNNING" THEN "RUNNABLE"
                      ELSE st[t]
    BY <2>1 DEF TypeOK
  <2>3. state' \in [Thread -> TState] /\ current' \in Thread
    BY <2>1, Zenon DEF TypeOK, TState
  <2>4. sinceSwitch' \in 0..TimeSlice
    BY <2>1, SchedAssumption
  <2>5. needResched' \in BOOLEAN /\ st[n] = "RUNNABLE" /\ current' = n
    BY <2>1, Zenon
  <2>6. QED
    BY <2>2, <2>3, <2>4, <2>5 DEF ReschedPost
<1>3. QED
  BY <1>1, <1>2

\* A thread that runs anything but the idle loop and the boot code may give
\* up the CPU for good: the idle thread is there to take it.
LEMMA IdleThere ==
  ASSUME IInv, pc[current] \notin IdleCode, pc[current] \notin BootCode
  PROVE  current # Idle /\ state[Idle] = "RUNNABLE"
<1>1. current # Idle
  BY DEF IInv, IdleSafe, OnlyAt
<1>2. created >= Idle
  BY BootThreads DEF IInv, TypeOK, IdleSafe, OnlyAt, Idle
<1>3. QED
  BY <1>1, <1>2, BootThreads DEF IInv, IdleSafe, OneRunning

\* sched_yield: the current thread stays eligible.
LEMMA YieldEffect == ASSUME IInv, Resched(state) PROVE ReschedPost(state)
  BY ReschedEffect, Zenon DEF IInv, TypeOK, OneRunning

\* sched_exit and sched_sleep_cond: the current thread leaves.
LEMMA LeaveEffect ==
  ASSUME IInv, NEW x \in {"DEAD", "BLOCKED"},
         Resched([state EXCEPT ![current] = x]),
         pc[current] \notin IdleCode, pc[current] \notin BootCode
  PROVE  ReschedPost([state EXCEPT ![current] = x])
<1> DEFINE st == [state EXCEPT ![current] = x]
<1>1. st \in [Thread -> TState]
  BY DEF IInv, TypeOK, TState
<1>2. \A t \in Thread : st[t] = IF t = current THEN x ELSE state[t]
  BY DEF IInv, TypeOK
<1>3. \A t \in Thread : st[t] = "RUNNING" => t = current
  BY <1>2 DEF IInv, OneRunning
<1>4. \E t \in Thread : t # current /\ st[t] = "RUNNABLE"
  BY <1>2, IdleThere, BootThreads
<1>5. QED
  BY <1>1, <1>3, <1>4, ReschedEffect, Zenon DEF IInv

\* Every step preserves the types.
LEMMA TypeStep == ASSUME IInv, Next PROVE TypeOK'
<1> USE SchedAssumption, BootThreads
<1> TypeOK
  BY DEF IInv
<1>1. ASSUME Release PROVE TypeOK'
  BY <1>1 DEF TypeOK, Release, Unlocked, threadVars, trapVars, tickVars, inputVars
<1>2. ASSUME BootCreate PROVE TypeOK'
  <2>1. created' \in 1..MaxThreads /\ created + 1 \in Thread
    BY <1>2 DEF TypeOK, BootCreate, Create, Thread
  <2>2. ppid' \in [Thread -> 0..MaxThreads]
    BY <1>2 DEF TypeOK, BootCreate, Create, Thread
  <2>3. state' \in [Thread -> TState] /\ pc' \in [Thread -> PC]
    BY <1>2, <2>1, Zenon DEF TypeOK, BootCreate, Create, TState, PC
  <2>4. aspace' \in [Thread -> BOOLEAN]
    BY <1>2, <2>1 DEF TypeOK, BootCreate, Create
  <2>5. QED
    BY <1>2, <2>1, <2>2, <2>3, <2>4, Zenon
      DEF TypeOK, BootCreate, trapVars, tickVars, inputVars
<1>3. ASSUME Start PROVE TypeOK'
  BY <1>3 DEF TypeOK, Start, Goto, threadVars, trapVars, tickVars, inputVars, PC
<1>4. ASSUME IdleHalt PROVE TypeOK'
  BY <1>4 DEF TypeOK, IdleHalt, Goto, threadVars, trapVars, tickVars, inputVars, PC
<1>5. ASSUME Launch PROVE TypeOK'
  <2>1. pc' \in [Thread -> PC]
    BY <1>5, Zenon DEF TypeOK, Launch, Goto, PC
  <2>2. aspace' \in [Thread -> BOOLEAN] /\ irqOn' \in BOOLEAN
    BY <1>5, Zenon DEF TypeOK, Launch
  <2>3. QED
    BY <1>5, <2>1, <2>2 DEF TypeOK, Launch, trapVars, tickVars, inputVars
<1>6. ASSUME NEW call \in Calls, Syscall(call) PROVE TypeOK'
  <2>1. pc' \in [Thread -> PC]
    BY <1>6, SMTT(30) DEF TypeOK, Syscall, Calls, Goto, PC
  <2>2. QED
    BY <1>6, <2>1, Zenon DEF TypeOK, Syscall, threadVars, trapVars, tickVars, inputVars
<1>7. ASSUME SysRet PROVE TypeOK'
  BY <1>7 DEF TypeOK, SysRet, Goto, threadVars, trapVars, tickVars, inputVars, PC
<1>8. ASSUME SysSpawn PROVE TypeOK'
  <2>1. created' \in 1..MaxThreads /\ created + 1 \in Thread
    BY <1>8 DEF TypeOK, SysSpawn, Create, Thread
  <2>2. ppid' \in [Thread -> 0..MaxThreads]
    BY <1>8 DEF TypeOK, SysSpawn, Create, Thread
  <2>3. state' \in [Thread -> TState] /\ pc' \in [Thread -> PC]
    BY <1>8, <2>1, Zenon DEF TypeOK, SysSpawn, Create, TState, PC
  <2>4. aspace' \in [Thread -> BOOLEAN]
    BY <1>8, <2>1 DEF TypeOK, SysSpawn, Create
  <2>5. QED
    BY <1>8, <2>1, <2>2, <2>3, <2>4, Zenon
      DEF TypeOK, SysSpawn, trapVars, tickVars, inputVars
<1>9. ASSUME SysWait PROVE TypeOK'
  <2>1. state' \in [Thread -> TState] /\ pc' \in [Thread -> PC]
    BY <1>9, Zenon DEF TypeOK, SysWait, Children, Goto, TState, PC
  <2>2. ppid' \in [Thread -> 0..MaxThreads]
    <3>1. 0 \in 0..MaxThreads
      OBVIOUS
    <3>2. \/ ppid' = ppid
          \/ \E z \in Thread : ppid' = [ppid EXCEPT ![z] = 0]
      BY <1>9 DEF SysWait, Children
    <3>3. QED
      BY <3>1, <3>2, Zenon DEF TypeOK
  <2>3. QED
    BY <1>9, <2>1, <2>2, Zenon DEF TypeOK, SysWait, trapVars, tickVars, inputVars
<1>10. ASSUME TtyPop PROVE TypeOK'
  <2>1. pc' \in [Thread -> PC]
    BY <1>10, Zenon DEF TypeOK, TtyPop, Goto, PC
  <2>2. input' \in 0..InputSlots
    BY <1>10 DEF TypeOK, TtyPop
  <2>3. QED
    BY <1>10, <2>1, <2>2 DEF TypeOK, TtyPop, threadVars, trapVars, tickVars
<1>11. ASSUME Tick PROVE TypeOK'
  <2>1. sinceSwitch' \in 0..TimeSlice
    BY <1>11 DEF TypeOK, Tick, OnTick
  <2>2. needResched' \in BOOLEAN
    BY <1>11 DEF Tick, OnTick
  <2>3. pc' \in [Thread -> PC] /\ target' \in PC
    BY <1>11, Zenon DEF TypeOK, Tick, OnTick, AfterIrq, Goto, PC
  <2>4. pending' \in BOOLEAN
    BY <1>11, Zenon DEF TypeOK, Tick, OnTick
  <2>5. QED
    BY <1>11, <2>1, <2>2, <2>3, <2>4 DEF TypeOK, Tick, OnTick, threadVars, inputVars
<1>12. ASSUME InputIrq PROVE TypeOK'
  <2>1. input' \in 0..InputSlots
    BY <1>12 DEF TypeOK, InputIrq
  <2>2. wq' \in Seq(Thread) /\ state' \in [Thread -> TState]
    <3>1. CASE wq # <<>> /\ wq' = Tail(wq)
               /\ state' = [state EXCEPT ![Head(wq)] = "RUNNABLE"]
      <4>1. Head(wq) \in Thread /\ Tail(wq) \in Seq(Thread)
        BY <3>1 DEF TypeOK
      <4>2. QED
        BY <3>1, <4>1 DEF TypeOK, TState
    <3>2. CASE UNCHANGED <<wq, state>>
      BY <3>2 DEF TypeOK
    <3>3. QED
      BY <1>12, <3>1, <3>2 DEF InputIrq, WakeOne
  <2>3. pc' \in [Thread -> PC]
    BY <1>12 DEF TypeOK, InputIrq, AfterIrq, Goto, PC
  <2>4. QED
    BY <1>12, <2>1, <2>2, <2>3 DEF TypeOK, InputIrq, trapVars, tickVars
<1>13. ASSUME TrampolineReturn PROVE TypeOK'
  <2>1. /\ Head(frame[current]) \in Frame
        /\ Tail(frame[current]) \in Seq(Frame)
    BY <1>13, PopFrame DEF TypeOK, IInv, FramesSafe, TrampolineReturn, At
  <2>2. pc' \in [Thread -> PC] /\ frame' \in [Thread -> Seq(Frame)]
    BY <1>13, <2>1, Zenon DEF TypeOK, TrampolineReturn, Goto, Frame
  <2>3. irqOn' \in BOOLEAN
    BY <1>13, <2>1 DEF TrampolineReturn, Frame
  <2>4. QED
    BY <1>13, <2>2, <2>3 DEF TypeOK, TrampolineReturn, threadVars, tickVars, inputVars
<1>14. ASSUME NEW p \in PC, Yield(p), UNCHANGED trapVars PROVE TypeOK'
  <2>1. ReschedPost(state)
    BY <1>14, YieldEffect DEF Yield
  <2>2. pc' \in [Thread -> PC]
    BY <1>14 DEF TypeOK, Yield, Goto
  <2>3. /\ irqOn' \in BOOLEAN /\ lock' \in [held : BOOLEAN, flags : BOOLEAN]
        /\ callerIF' \in [Thread -> BOOLEAN]
    BY <1>14, Zenon DEF TypeOK, Yield, Acquire
  <2>4. QED
    BY <1>14, <2>1, <2>2, <2>3 DEF TypeOK, ReschedPost, Yield, trapVars, inputVars
<1>15. ASSUME IdleCheck PROVE TypeOK'
  <2>1. CASE Yield("idle") /\ UNCHANGED trapVars
    BY <2>1, <1>14 DEF PC
  <2>2. CASE Goto("idle") /\ ~Yield("idle")
    BY <1>15, <2>2, Zenon DEF IdleCheck, TypeOK, Goto, threadVars, trapVars, tickVars,
                       inputVars, PC
  <2>3. QED
    BY <1>15, <2>1, <2>2 DEF IdleCheck
<1>16. ASSUME SysYield PROVE TypeOK'
  BY <1>16, <1>14 DEF SysYield, PC
<1>17. ASSUME SysWaitYield PROVE TypeOK'
  BY <1>17, <1>14 DEF SysWaitYield, PC
<1>18. ASSUME Trampoline PROVE TypeOK'
  <2>1. ReschedPost(state)
    BY <1>18, YieldEffect DEF Trampoline
  <2>2. pc' \in [Thread -> PC]
    BY <1>18 DEF TypeOK, Trampoline, Goto, PC
  <2>3. [ret |-> target, flags |-> irqOn] \in Frame
    BY ZenonT(30) DEF TypeOK, Frame
  <2>4. frame' \in [Thread -> Seq(Frame)]
    BY <1>18, <2>3, PushFrame DEF TypeOK, Trampoline
  <2>5. /\ irqOn' \in BOOLEAN /\ lock' \in [held : BOOLEAN, flags : BOOLEAN]
        /\ callerIF' \in [Thread -> BOOLEAN] /\ pending' \in BOOLEAN
    BY <1>18, Zenon DEF TypeOK, Trampoline
  <2>6. QED
    BY <1>18, <2>1, <2>2, <2>4, <2>5, SMTT(30) DEF TypeOK, ReschedPost, Trampoline, inputVars
<1>19. ASSUME Exit PROVE TypeOK'
  <2>1. ReschedPost([state EXCEPT ![current] = "DEAD"])
    BY <1>19, LeaveEffect, ZenonT(30) DEF Exit, At, IdleCode, BootCode
  <2>2. pc' \in [Thread -> PC]
    BY <1>19, ZenonT(30) DEF TypeOK, Exit, Goto, PC
  <2>3. /\ irqOn' \in BOOLEAN /\ lock' \in [held : BOOLEAN, flags : BOOLEAN]
        /\ callerIF' \in [Thread -> BOOLEAN]
    BY <1>19, Zenon DEF TypeOK, Exit, Acquire
  <2>4. QED
    BY <1>19, <2>1, <2>2, <2>3, ZenonT(30) DEF TypeOK, ReschedPost, Exit, trapVars, inputVars
<1>20. ASSUME SleepCond PROVE TypeOK'
  <2>1. pc' \in [Thread -> PC]
    BY <1>20, Zenon DEF TypeOK, SleepCond, Goto, PC
  <2>2. CASE UNCHANGED <<state, current, irqOn, lock, tickVars, wq, callerIF>>
    BY <1>20, <2>1, <2>2, ZenonT(30) DEF TypeOK, SleepCond, trapVars, tickVars
  <2>3. CASE /\ Acquire
             /\ wq' = Append(wq, current)
             /\ Resched([state EXCEPT ![current] = "BLOCKED"])
    <3>1. ReschedPost([state EXCEPT ![current] = "BLOCKED"])
      BY <1>20, <2>3, LeaveEffect, ZenonT(30) DEF SleepCond, At, IdleCode, BootCode
    <3>2. /\ irqOn' \in BOOLEAN /\ lock' \in [held : BOOLEAN, flags : BOOLEAN]
          /\ callerIF' \in [Thread -> BOOLEAN]
      BY <2>3, Zenon DEF TypeOK, Acquire
    <3>3. wq' \in Seq(Thread)
      BY <2>3 DEF TypeOK
    <3>4. QED
      BY <1>20, <2>1, <3>1, <3>2, <3>3, Zenon DEF TypeOK, ReschedPost, SleepCond, trapVars
  <2>4. QED
    BY <1>20, <2>2, <2>3, ZenonT(30) DEF SleepCond
<1>21. QED
  BY <1>1, <1>2, <1>3, <1>4, <1>5, <1>6, <1>7, <1>8, <1>9, <1>10, <1>11, <1>12,
     <1>13, <1>15, <1>16, <1>17, <1>18, <1>19, <1>20 DEF Next, Kernel

\* No step lets interrupts in while sched_lock is held.
LEMMA LockStep == ASSUME IInv, Next PROVE LockMasksIrqs'
<1> USE DEF LockMasksIrqs
<1>1. ASSUME Acquire PROVE LockMasksIrqs'
  BY <1>1, ZenonT(30) DEF Acquire
<1>2. ASSUME UNCHANGED <<lock, irqOn>> PROVE LockMasksIrqs'
  BY <1>2, ZenonT(30) DEF IInv
<1>3. ASSUME ~lock.held, UNCHANGED lock PROVE LockMasksIrqs'
  BY <1>3, ZenonT(30)
<1>4. CASE Release
  BY <1>4, ZenonT(30) DEF Release, Unlocked
<1>5. CASE BootCreate \/ Start \/ IdleHalt \/ SysSpawn \/ SysWait \/ TtyPop \/ Tick \/ InputIrq
  BY <1>5, <1>2, ZenonT(30) DEF BootCreate, Start, IdleHalt, SysSpawn, SysWait, TtyPop, Tick, OnTick, InputIrq
<1>6. CASE TrampolineReturn \/ Launch \/ SysRet \/ \E call \in Calls : Syscall(call)
  BY <1>6, <1>3, ZenonT(30) DEF TrampolineReturn, Launch, SysRet, Syscall, At
<1>7. CASE Exit \/ SysYield \/ SysWaitYield
  BY <1>7, <1>1, ZenonT(30) DEF Exit, SysYield, SysWaitYield, Yield
<1>8. CASE Trampoline
  BY <1>8, ZenonT(30) DEF Trampoline
<1>9. CASE IdleCheck \/ SleepCond
  BY <1>9, <1>1, <1>2, ZenonT(30) DEF IdleCheck, SleepCond, Yield
<1>10. QED
  BY <1>4, <1>5, <1>6, <1>7, <1>8, <1>9, ZenonT(30) DEF Next, Kernel

\* The invariant apart from types and lock.
Inv2 == /\ OneRunning
        /\ WaitQueueExact
        /\ PreemptTargetSafe
        /\ UnusedSafe
        /\ IdleSafe
        /\ FramesSafe

\* A thread outside the boot code runs after the idle thread was created.
LEMMA IdleCreated ==
  ASSUME IInv, pc[current] \notin BootCode
  PROVE  created >= Idle /\ ~(created < Idle) /\ ~pending
  BY DEF IInv, TypeOK, IdleSafe, OnlyAt, Idle, PreemptTargetSafe, BootCode

\* Frames stay matched when only the current thread moves, to a place that
\* is not the end of a trampoline, or a thread gets its first place.
LEMMA SameFrames ==
  ASSUME IInv, ~pending', UNCHANGED frame,
         \A t \in Thread : pc'[t] = pc[t] \/ pc'[t] # "trampret"
  PROVE  FramesSafe'
  BY ZenonT(30) DEF IInv, FramesSafe

\* The current thread moves on within its own code.
LEMMA GotoStep ==
  ASSUME IInv, TypeOK', NEW p \in PC, Goto(p),
         p \notin {"tramp", "trampret", "none"},
         pc[current] \notin BootCode,
         pc[current] \in IdleCode => p \in IdleCode,
         UNCHANGED <<created, state, frame, current, pending, target, wq>>
  PROVE  Inv2'
<1> USE DEF IInv
<1>1. OneRunning' /\ WaitQueueExact'
  BY ZenonT(30) DEF OneRunning, WaitQueueExact
<1>2. \A t \in Thread : pc'[t] = IF t = current THEN p ELSE pc[t]
  BY ZenonT(30) DEF TypeOK, Goto
<1>3. ~pending /\ ~(created' < Idle)
  BY IdleCreated, ZenonT(30)
<1>4. PreemptTargetSafe'
  BY <1>2, <1>3, ZenonT(30) DEF PreemptTargetSafe, TypeOK
<1>5. UnusedSafe'
  BY <1>2, ZenonT(30) DEF UnusedSafe
<1>6. IdleSafe'
  BY <1>2, <1>3, BootThreads, ZenonT(30) DEF IdleSafe, OnlyAt
<1>7. FramesSafe'
  BY <1>2, <1>3, SameFrames, ZenonT(30)
<1>8. QED
  BY <1>1, <1>4, <1>5, <1>6, <1>7, ZenonT(30) DEF Inv2

\* The current thread calls sched_resched_locked from within its own code,
\* having left the thread states as in st.
LEMMA SwitchStep ==
  ASSUME IInv, TypeOK', NEW p \in PC, Goto(p),
         p \notin {"tramp", "trampret", "none"},
         pc[current] \notin BootCode,
         pc[current] \in IdleCode => p \in IdleCode,
         UNCHANGED <<created, frame, pending, target>>,
         NEW st, ReschedPost(st),
         \A t \in Thread : t # current => st[t] = state[t],
         st[current] # "UNUSED",
         current = Idle => st[current] = "RUNNING"
  PROVE  OneRunning' /\ PreemptTargetSafe' /\ UnusedSafe' /\ IdleSafe' /\ FramesSafe'
<1> USE DEF IInv
<1>1. OneRunning'
  BY ZenonT(30) DEF OneRunning, ReschedPost
<1>2. \A t \in Thread : pc'[t] = IF t = current THEN p ELSE pc[t]
  BY ZenonT(30) DEF TypeOK, Goto
<1>3. ~pending /\ created >= Idle /\ ~(created' < Idle)
  BY IdleCreated, ZenonT(30)
<1>4. \A t \in Thread : pc'[t] # "tramp"
  BY <1>2, ZenonT(30) DEF PreemptTargetSafe
<1>5. PreemptTargetSafe'
  BY <1>3, <1>4, ZenonT(30) DEF PreemptTargetSafe, TypeOK
<1>6. UnusedSafe'
  <2>1. \A t \in Thread : state'[t] = "UNUSED" <=> st[t] = "UNUSED"
    BY ZenonT(30) DEF ReschedPost
  <2>2. state[current] = "RUNNING" /\ current \in Thread
    BY ZenonT(30) DEF OneRunning, TypeOK
  <2>3. QED
    BY <1>2, <2>1, <2>2, ZenonT(30) DEF UnusedSafe
<1>7. state'[Idle] \in {"RUNNABLE", "RUNNING"}
  BY <1>3, BootThreads, SMTT(30) DEF IdleSafe, ReschedPost, TState
<1>8. IdleSafe'
  BY <1>2, <1>3, <1>7, BootThreads, Zenon DEF IdleSafe, OnlyAt
<1>9. FramesSafe'
  BY <1>2, <1>3, SameFrames, ZenonT(30)
<1>10. QED
  BY <1>1, <1>5, <1>6, <1>8, <1>9, ZenonT(30)

\* A change of thread states that makes nobody BLOCKED and wakes nobody
\* leaves the wait queue exact.
LEMMA SameWaiters ==
  ASSUME IInv, UNCHANGED wq,
         \A t \in Thread : state'[t] = "BLOCKED" <=> state[t] = "BLOCKED"
  PROVE  WaitQueueExact'
  BY ZenonT(30) DEF IInv, WaitQueueExact

\* sched_yield, from user or idle code.
LEMMA YieldStep ==
  ASSUME IInv, TypeOK', NEW p \in PC, Yield(p), UNCHANGED trapVars,
         p \notin {"tramp", "trampret", "none"},
         pc[current] \notin BootCode,
         pc[current] \in IdleCode => p \in IdleCode
  PROVE  Inv2'
<1>1. ReschedPost(state)
  BY YieldEffect, ZenonT(30) DEF Yield
<1>2. OneRunning' /\ PreemptTargetSafe' /\ UnusedSafe' /\ IdleSafe' /\ FramesSafe'
  <2>1. state[current] = "RUNNING"
    BY ZenonT(30) DEF IInv, OneRunning, TypeOK
  <2>2. Goto(p) /\ UNCHANGED <<created, frame, pending, target>>
    BY ZenonT(30) DEF Yield, trapVars
  <2>3. QED
    BY <1>1, <2>1, <2>2, SwitchStep, ZenonT(30)
<1>3. WaitQueueExact'
  BY <1>1, SameWaiters, ZenonT(30) DEF ReschedPost, Yield, inputVars
<1>4. QED
  BY <1>2, <1>3, ZenonT(30) DEF Inv2

\* sched_exit.
LEMMA ExitStep == ASSUME IInv, TypeOK', Exit PROVE Inv2'
<1> DEFINE st == [state EXCEPT ![current] = "DEAD"]
<1>1. pc[current] \notin BootCode /\ pc[current] \notin IdleCode
  BY ZenonT(30) DEF Exit, At, BootCode, IdleCode
<1>2. ReschedPost(st)
  BY <1>1, LeaveEffect, ZenonT(30) DEF Exit
<1>3. \A t \in Thread : st[t] = IF t = current THEN "DEAD" ELSE state[t]
  BY ZenonT(30) DEF IInv, TypeOK
<1>4. OneRunning' /\ PreemptTargetSafe' /\ UnusedSafe' /\ IdleSafe' /\ FramesSafe'
  <2>1. Goto("dead") /\ UNCHANGED <<created, frame, pending, target>>
    BY ZenonT(30) DEF Exit, trapVars
  <2>2. current # Idle /\ current \in Thread /\ "dead" \in PC
    BY <1>1, IdleThere, Zenon DEF IInv, TypeOK, PC
  <2> HIDE DEF st
  <2>3. QED
    BY <1>1, <1>2, <1>3, <2>1, <2>2, SwitchStep, ZenonT(30)
<1>5. WaitQueueExact'
  <2>1. \A t \in Thread : state'[t] = "BLOCKED" <=> st[t] = "BLOCKED"
    BY <1>2, ZenonT(30) DEF ReschedPost
  <2>2. state[current] = "RUNNING"
    BY ZenonT(30) DEF IInv, OneRunning, TypeOK
  <2>3. QED
    BY <1>3, <2>1, <2>2, SameWaiters DEF Exit, inputVars
<1>6. QED
  BY <1>4, <1>5, ZenonT(30) DEF Inv2

\* sched_sleep_cond, when the caller goes to sleep.
LEMMA SleepStep == ASSUME IInv, TypeOK', SleepCond, input = 0 PROVE Inv2'
<1> DEFINE st == [state EXCEPT ![current] = "BLOCKED"]
<1>1. pc[current] \notin BootCode /\ pc[current] \notin IdleCode
  BY ZenonT(30) DEF SleepCond, At, BootCode, IdleCode
<1>2. /\ Resched(st) /\ Goto("read") /\ wq' = Append(wq, current)
      /\ UNCHANGED <<created, frame, pending, target>>
  BY DEF SleepCond, trapVars
<1>3. ReschedPost(st)
  BY <1>1, <1>2, LeaveEffect, ZenonT(30)
<1>4. \A t \in Thread : st[t] = IF t = current THEN "BLOCKED" ELSE state[t]
  BY ZenonT(30) DEF IInv, TypeOK
<1>5. current # Idle /\ current \in Thread /\ "read" \in PC
  BY <1>1, IdleThere, Zenon DEF IInv, TypeOK, PC
<1>6. OneRunning' /\ PreemptTargetSafe' /\ UnusedSafe' /\ IdleSafe' /\ FramesSafe'
  <2> HIDE DEF st
  <2>1. QED
    BY <1>1, <1>2, <1>3, <1>4, <1>5, SwitchStep, Zenon
<1>7. WaitQueueExact'
  <2>1. \A t \in Thread : state'[t] = "BLOCKED" <=> st[t] = "BLOCKED"
    BY <1>3, ZenonT(30) DEF ReschedPost
  <2>2. \A i \in DOMAIN wq : wq[i] # current
    BY <1>5, ZenonT(30) DEF IInv, OneRunning, WaitQueueExact
  <2>3. /\ DOMAIN wq' = 1..Len(wq) + 1 /\ DOMAIN wq = 1..Len(wq) /\ Len(wq) \in Nat
        /\ wq'[Len(wq) + 1] = current
        /\ \A i \in DOMAIN wq : wq'[i] = wq[i]
    <3>1. wq \in Seq(Thread)
      BY ZenonT(30) DEF IInv, TypeOK
    <3>2. /\ wq' \in Seq(Thread) /\ Len(wq') = Len(wq) + 1
          /\ wq'[Len(wq) + 1] = current
          /\ \A i \in 1..Len(wq) : wq'[i] = wq[i]
      BY <1>2, <1>5, <3>1
    <3>3. QED
      BY <3>1, <3>2
  <2>4. \A t \in Thread : state[t] = "BLOCKED" <=> \E i \in DOMAIN wq : wq[i] = t
    BY ZenonT(30) DEF IInv, WaitQueueExact
  <2>5. ASSUME NEW t \in Thread
        PROVE  state'[t] = "BLOCKED" <=> \E i \in DOMAIN wq' : wq'[i] = t
    <3>1. (\E i \in DOMAIN wq' : wq'[i] = t)
             <=> (t = current \/ \E i \in DOMAIN wq : wq[i] = t)
      BY <2>3
    <3>2. QED
      BY <1>4, <2>1, <2>4, <3>1, ZenonT(30)
  <2>6. \A i, j \in DOMAIN wq' : wq'[i] = wq'[j] => i = j
    BY <2>2, <2>3 DEF IInv, WaitQueueExact
  <2>7. QED
    BY <2>5, <2>6, ZenonT(30) DEF WaitQueueExact
<1>8. QED
  BY <1>6, <1>7, ZenonT(30) DEF Inv2

\* sched_create and sched_create_user; the creator goes on to p.
LEMMA CreateStep ==
  ASSUME IInv, TypeOK', NEW parent, Create(parent),
         NEW p \in PC, p \notin {"tramp", "trampret", "none"},
         pc' = [pc EXCEPT ![current] = p, ![created + 1] = "start"],
         pc[current] \notin {"tramp", "trampret"},
         pc[current] \in IdleCode => p \in IdleCode,
         UNCHANGED <<frame, current, pending, target, wq>>
  PROVE  Inv2'
<1> USE DEF IInv
<1>1. /\ created + 1 \in Thread /\ state[created + 1] = "UNUSED"
      /\ created + 1 # current /\ created' = created + 1
  BY DEF TypeOK, Create, UnusedSafe, OneRunning, Thread
<1>2. \A t \in Thread : state'[t] = IF t = created + 1 THEN "RUNNABLE" ELSE state[t]
  BY <1>1, ZenonT(30) DEF TypeOK, Create
<1>3. \A t \in Thread : pc'[t] = IF t = created + 1 THEN "start"
                                  ELSE IF t = current THEN p ELSE pc[t]
  BY <1>1, SMTT(30) DEF TypeOK
<1>4. OneRunning'
  BY <1>1, <1>2, ZenonT(30) DEF OneRunning
<1>5. WaitQueueExact'
  BY <1>1, <1>2, SameWaiters, ZenonT(30)
<1>6. PreemptTargetSafe' /\ ~pending
  BY <1>1, <1>3, ZenonT(30) DEF PreemptTargetSafe, TypeOK
<1>7. UnusedSafe'
  BY <1>1, <1>2, <1>3 DEF UnusedSafe, TypeOK, Thread
<1>8. created' >= Idle /\ ~(created' < Idle)
  BY <1>1 DEF TypeOK, Idle
<1>9. state'[Idle] \in {"RUNNABLE", "RUNNING"}
  <2>1. Idle = created + 1 \/ created >= Idle
    BY DEF TypeOK, Idle
  <2>2. QED
    BY <1>2, <2>1, BootThreads, ZenonT(30) DEF IdleSafe
<1>10. pc'[Idle] \in IdleCode
  BY <1>3, BootThreads, Zenon DEF IdleSafe, OnlyAt, IdleCode
<1>11. IdleSafe'
  BY <1>6, <1>8, <1>9, <1>10, ZenonT(30) DEF IdleSafe, OnlyAt
<1>12. FramesSafe'
  <2>1. ~pending' /\ UNCHANGED frame
    BY <1>6, ZenonT(30)
  <2>2. \A t \in Thread : pc'[t] = pc[t] \/ pc'[t] # "trampret"
    <3>1. ASSUME NEW t \in Thread PROVE pc'[t] \in {pc[t], p, "start"}
      BY <1>3, Zenon
    <3>2. QED
      BY <3>1, Zenon
  <2>3. QED
    BY <2>1, <2>2, SameFrames, Zenon
<1>13. QED
  BY <1>4, <1>5, <1>6, <1>7, <1>11, <1>12, ZenonT(30) DEF Inv2

\* sched_wait_child, one pass.
LEMMA WaitStep == ASSUME IInv, TypeOK', SysWait PROVE Inv2'
<1> USE DEF IInv
<1>1. CASE \A z \in Children : state[z] # "DEAD"
  <2>1. PICK p \in {"sysret", "wait_yield"} : Goto(p)
    BY <1>1, ZenonT(30) DEF SysWait
  <2>2. UNCHANGED <<created, state, frame, current, pending, target, wq>>
    BY <1>1, ZenonT(30) DEF SysWait, trapVars, inputVars
  <2>3. /\ pc[current] \notin BootCode /\ pc[current] \notin IdleCode
        /\ p \in PC /\ p \notin {"tramp", "trampret", "none"}
    BY ZenonT(30) DEF SysWait, At, BootCode, IdleCode, PC
  <2>4. QED
    BY <2>1, <2>2, <2>3, GotoStep, ZenonT(30)
<1>2. CASE ~(\A z \in Children : state[z] # "DEAD")
  <2>1. PICK z \in Thread : /\ state[z] = "DEAD"
                            /\ state' = [state EXCEPT ![z] = "UNUSED"]
                            /\ pc' = [pc EXCEPT ![current] = "sysret", ![z] = "none"]
    BY <1>2, ZenonT(30) DEF SysWait, Children
  <2>2. /\ UNCHANGED <<created, frame, current, pending, target, wq>>
        /\ pc[current] \notin BootCode /\ pc[current] # "tramp"
    BY ZenonT(30) DEF SysWait, At, BootCode, trapVars, inputVars
  <2>3. \A t \in Thread : state'[t] = IF t = z THEN "UNUSED" ELSE state[t]
    BY <2>1, ZenonT(30) DEF TypeOK
  <2>4. z # current
    BY <2>1, ZenonT(30) DEF OneRunning
  <2>5. \A t \in Thread : pc'[t] = IF t = z THEN "none"
                                    ELSE IF t = current THEN "sysret" ELSE pc[t]
    BY <2>1, <2>4, Zenon DEF TypeOK
  <2>6. OneRunning'
    BY <2>1, <2>2, <2>3 DEF OneRunning
  <2>7. WaitQueueExact'
    BY <2>1, <2>2, <2>3, SameWaiters
  <2>8. PreemptTargetSafe' /\ ~pending
    BY <2>2, <2>4, <2>5, SMTT(30) DEF PreemptTargetSafe, TypeOK
  <2>9. created >= Idle /\ ~(created' < Idle)
    BY <2>2, IdleCreated, ZenonT(30)
  <2>10. z # Idle /\ current # Idle
    BY <2>1, <2>9, ZenonT(30) DEF IdleSafe, OnlyAt, SysWait, At, IdleCode
  <2>11. UnusedSafe'
    BY <2>2, <2>3, <2>5, ZenonT(30) DEF UnusedSafe
  <2>12. IdleSafe'
    BY <2>2, <2>3, <2>5, <2>8, <2>9, <2>10, BootThreads, ZenonT(30) DEF IdleSafe, OnlyAt
  <2>13. FramesSafe'
    BY <2>2, <2>5, <2>8, SameFrames, ZenonT(30)
  <2>14. QED
    BY <2>6, <2>7, <2>8, <2>11, <2>12, <2>13, ZenonT(30) DEF Inv2
<1>3. QED
  BY <1>1, <1>2, ZenonT(30)

\* The timer interrupt, when sched_request_preempt diverts the thread.
LEMMA PreemptStep ==
  ASSUME IInv, TypeOK', Tick, Preempts(needResched')
  PROVE  Inv2'
<1> USE DEF IInv
<1>1. /\ ~pending /\ pending' = TRUE /\ target' = AfterIrq /\ Goto("tramp")
      /\ UNCHANGED <<created, state, frame, current, wq>>
  BY ZenonT(30) DEF Tick, OnTick, Preempts, threadVars, inputVars
<1>2. \A t \in Thread : pc'[t] = IF t = current THEN "tramp" ELSE pc[t]
  BY <1>1, ZenonT(30) DEF TypeOK, Goto
<1>3. OneRunning' /\ WaitQueueExact'
  BY <1>1, ZenonT(30) DEF OneRunning, WaitQueueExact
<1>4. pc[current] # "tramp" /\ pc[current] # "none"
  BY <1>1, ZenonT(30) DEF PreemptTargetSafe, UnusedSafe, OneRunning, TypeOK
<1>5. /\ AfterIrq \notin {"tramp", "halted", "none"}
      /\ AfterIrq = "trampret" => pc[current] = "trampret"
  BY <1>4, ZenonT(30) DEF AfterIrq
<1>6. PreemptTargetSafe'
  BY <1>1, <1>2, <1>5, ZenonT(30) DEF PreemptTargetSafe, TypeOK
<1>7. UnusedSafe'
  BY <1>1, <1>2, ZenonT(30) DEF UnusedSafe
<1>8. OnlyAt(Idle, IdleCode)'
  BY <1>1, <1>2, BootThreads, SMTT(30) DEF IdleSafe, OnlyAt, IdleCode, AfterIrq
<1>9. created' < Idle => OnlyAt(current, BootCode)'
  BY <1>1, <1>2, ZenonT(30) DEF IdleSafe, OnlyAt, BootCode, AfterIrq, TypeOK
<1>10. IdleSafe'
  BY <1>1, <1>8, <1>9, SMTT(30) DEF IdleSafe
<1>11. FramesSafe'
  BY <1>1, <1>2, <1>5, SMTT(30) DEF FramesSafe, TypeOK
<1>12. QED
  BY <1>3, <1>6, <1>7, <1>10, <1>11, ZenonT(30) DEF Inv2

\* The timer interrupt, when it just returns.
LEMMA TickStep ==
  ASSUME IInv, TypeOK', Goto(AfterIrq),
         UNCHANGED <<created, frame, current, pending, target>>,
         UNCHANGED state \/ \E h \in Thread : /\ state[h] = "BLOCKED"
                                              /\ state' = [state EXCEPT ![h] = "RUNNABLE"]
  PROVE  OneRunning' /\ PreemptTargetSafe' /\ UnusedSafe' /\ IdleSafe' /\ FramesSafe'
<1> USE DEF IInv
<1>1. \A t \in Thread : pc'[t] = IF t = current THEN AfterIrq ELSE pc[t]
  BY ZenonT(30) DEF TypeOK, Goto
<1>2. \A t \in Thread :
        state'[t] = state[t] \/ (state[t] = "BLOCKED" /\ state'[t] = "RUNNABLE")
  BY ZenonT(30) DEF TypeOK
<1>3. OneRunning'
  BY <1>2, ZenonT(30) DEF OneRunning
<1>4. /\ AfterIrq \in {"none", "tramp", "trampret"} <=> pc[current] \in {"none", "tramp", "trampret"}
      /\ pc[current] \in {"none", "tramp", "trampret"} => AfterIrq = pc[current]
      /\ pc[current] \in IdleCode => AfterIrq \in IdleCode
      /\ pc[current] \in BootCode => AfterIrq \in BootCode
  BY ZenonT(30) DEF AfterIrq, IdleCode, BootCode
<1>5. PreemptTargetSafe'
  BY <1>1, <1>4, ZenonT(30) DEF PreemptTargetSafe, TypeOK
<1>6. UnusedSafe'
  BY <1>1, <1>2, <1>4, SMTT(30) DEF UnusedSafe
<1>7. IdleSafe'
  BY <1>1, <1>2, <1>4, BootThreads, ZenonT(30) DEF IdleSafe, OnlyAt, TypeOK
<1>8. FramesSafe'
  BY <1>1, <1>4, ZenonT(30) DEF FramesSafe, TypeOK
<1>9. QED
  BY <1>3, <1>5, <1>6, <1>7, <1>8, ZenonT(30)

\* The keyboard and serial interrupts: sched_wake_one takes the head of the
\* queue off it and makes it RUNNABLE.
LEMMA InputStep == ASSUME IInv, TypeOK', InputIrq PROVE Inv2'
<1> USE DEF IInv
<1>1. Goto(AfterIrq) /\ UNCHANGED <<created, frame, current, pending, target>>
  BY ZenonT(30) DEF InputIrq, trapVars
<1>2. CASE UNCHANGED <<wq, state>>
  <2>1. WaitQueueExact'
    BY <1>2, ZenonT(30) DEF WaitQueueExact
  <2>2. QED
    BY <1>1, <1>2, <2>1, TickStep, ZenonT(30) DEF Inv2
<1>3. CASE /\ wq # <<>>
           /\ wq' = Tail(wq)
           /\ state' = [state EXCEPT ![Head(wq)] = "RUNNABLE"]
  <2>1. wq \in Seq(Thread)
    BY ZenonT(30) DEF TypeOK
  <2>2. /\ DOMAIN wq = 1..Len(wq) /\ Len(wq) \in Nat \ {0}
        /\ Head(wq) = wq[1] /\ Head(wq) \in Thread
    BY <1>3, <2>1
  <2>3. /\ DOMAIN wq' = 1..Len(wq) - 1
        /\ \A i \in 1..Len(wq) - 1 : wq'[i] = wq[i + 1]
    BY <1>3, <2>1
  <2>4. state[Head(wq)] = "BLOCKED"
    BY <2>2 DEF WaitQueueExact
  <2>5. \A t \in Thread : state'[t] = IF t = Head(wq) THEN "RUNNABLE" ELSE state[t]
    BY <1>3, <2>2, ZenonT(30) DEF TypeOK
  <2>6. \A i, j \in DOMAIN wq' : wq'[i] = wq'[j] => i = j
    <3>1. ASSUME NEW i \in DOMAIN wq', NEW j \in DOMAIN wq', wq'[i] = wq'[j]
          PROVE  i = j
      <4>1. i + 1 \in DOMAIN wq /\ j + 1 \in DOMAIN wq /\ wq[i + 1] = wq[j + 1]
        BY <2>2, <2>3, <3>1, SMTT(30)
      <4>2. i + 1 = j + 1
        BY <4>1, ZenonT(30) DEF WaitQueueExact
      <4>3. QED
        BY <2>3, <4>2
    <3>2. QED
      BY <3>1, ZenonT(30)
  <2>7. ASSUME NEW t \in Thread
        PROVE  state'[t] = "BLOCKED" <=> \E i \in DOMAIN wq' : wq'[i] = t
    <3>1. CASE t = Head(wq)
      <4>1. \A i \in DOMAIN wq' : wq'[i] # t
        BY <2>2, <2>3, <3>1 DEF WaitQueueExact
      <4>2. QED
        BY <2>5, <3>1, <4>1, ZenonT(30)
    <3>2. CASE t # Head(wq)
      <4>1. ASSUME NEW i \in DOMAIN wq, wq[i] = t
            PROVE  \E k \in DOMAIN wq' : wq'[k] = t
        <5>1. i - 1 \in DOMAIN wq' /\ wq'[i - 1] = wq[i]
          BY <2>2, <2>3, <3>2, <4>1
        <5>2. QED
          BY <4>1, <5>1, ZenonT(30)
      <4>2. ASSUME NEW i \in DOMAIN wq', wq'[i] = t
            PROVE  \E k \in DOMAIN wq : wq[k] = t
        <5>1. i + 1 \in DOMAIN wq /\ wq[i + 1] = wq'[i]
          BY <2>2, <2>3
        <5>2. QED
          BY <4>2, <5>1, ZenonT(30)
      <4>3. QED
        BY <2>5, <3>2, <4>1, <4>2, ZenonT(30) DEF WaitQueueExact
    <3>3. QED
      BY <3>1, <3>2, ZenonT(30)
  <2>8. WaitQueueExact'
    BY <2>6, <2>7, ZenonT(30) DEF WaitQueueExact
  <2>9. QED
    BY <1>1, <1>3, <2>2, <2>4, <2>8, TickStep, Zenon DEF Inv2
<1>4. QED
  BY <1>2, <1>3, ZenonT(30) DEF InputIrq, WakeOne

\* The preemption trampoline up to the switch: it pushes the target the tick
\* left for this thread.
LEMMA TrampolineStep == ASSUME IInv, TypeOK', Trampoline PROVE Inv2'
<1> USE DEF IInv
<1> DEFINE f == [ret |-> target, flags |-> irqOn]
           s == frame[current]
           q == <<f>> \o s
<1>1. /\ current \in Thread /\ f \in Frame /\ f.ret = target
      /\ frame[current] \in Seq(Frame)
  BY Zenon DEF TypeOK, Frame
<1>2. \A t \in Thread :
        /\ pc'[t] = IF t = current THEN "trampret" ELSE pc[t]
        /\ frame'[t] = IF t = current THEN q ELSE frame[t]
  BY ZenonT(30) DEF TypeOK, Trampoline, Goto
<1>3. /\ pending /\ ~pending' /\ target \notin {"tramp", "halted", "none"}
      /\ created' = created
  BY ZenonT(30) DEF PreemptTargetSafe, Trampoline, At
<1>4. ReschedPost(state)
  BY YieldEffect, ZenonT(30) DEF Trampoline
<1> HIDE DEF f
<1>0. /\ q # <<>> /\ Len(q) = Len(s) + 1 /\ Len(s) \in Nat
      /\ DOMAIN q = 1..Len(q) /\ DOMAIN s = 1..Len(s)
      /\ q[1] = f
      /\ \A i \in DOMAIN q : i # 1 => q[i] = s[i - 1] /\ i - 1 \in DOMAIN s
  <2> HIDE DEF s
  <2>1. s \in Seq(Frame) /\ f \in Frame
    BY <1>1, ZenonT(30) DEF s
  <2>2. QED
    BY ONLY <2>1, PushFrame, Zenon DEF q
<1> HIDE DEF q, s
<1>5. OneRunning'
  BY <1>4, ZenonT(30) DEF ReschedPost, OneRunning
<1>6. WaitQueueExact'
  BY <1>4, SameWaiters, ZenonT(30) DEF ReschedPost, Trampoline, inputVars
<1>7. PreemptTargetSafe'
  BY <1>2, <1>3, ZenonT(30) DEF PreemptTargetSafe, TypeOK
<1>8. UnusedSafe'
  BY <1>2, <1>3, <1>4, ZenonT(30) DEF UnusedSafe, ReschedPost
<1>9. \A i \in DOMAIN q : q[i].ret = target \/ \E k \in DOMAIN s : q[i].ret = s[k].ret
  BY <1>0, <1>1, ZenonT(30)
<1>10. \A S : OnlyAt(current, S) /\ "trampret" \in S =>
         /\ pc'[current] \in S
         /\ \A i \in DOMAIN frame'[current] : frame'[current][i].ret \in S
  BY <1>1, <1>2, <1>3, <1>9, ZenonT(30) DEF OnlyAt, s
<1>11. IdleSafe'
  <2>1. created' >= Idle => state'[Idle] \in {"RUNNABLE", "RUNNING"}
    BY <1>3, <1>4, BootThreads, ZenonT(30) DEF IdleSafe, ReschedPost, TState
  <2>2. OnlyAt(Idle, IdleCode)'
    <3>1. CASE current = Idle
      BY <1>3, <1>10, <3>1, Zenon DEF IdleSafe, OnlyAt, IdleCode
    <3>2. CASE current # Idle
      BY <1>2, <1>3, <3>2, BootThreads, ZenonT(30) DEF IdleSafe, OnlyAt
    <3>3. QED
      BY <3>1, <3>2, ZenonT(30)
  <2>3. ASSUME created' < Idle PROVE OnlyAt(current, BootCode)'
    <3>1. current' = current
      BY <1>3, <1>4, <2>3 DEF UnusedSafe, OneRunning, ReschedPost, TypeOK, Idle, Thread
    <3>2. QED
      BY <1>3, <1>10, <2>3, <3>1, ZenonT(30) DEF IdleSafe, OnlyAt, BootCode
  <2>4. QED
    BY <2>1, <2>2, <2>3, ZenonT(30) DEF IdleSafe
<1>12. FramesSafe'
  <2>1. \A t \in Thread : pc'[t] = "trampret" => frame'[t] # <<>>
    BY <1>0, <1>2, ZenonT(30) DEF FramesSafe
  <2>2. ASSUME NEW i \in DOMAIN q
        PROVE  /\ q[i].ret \notin {"tramp", "halted", "none"}
               /\ q[i].ret = "trampret" => i < Len(q)
    <3>1. CASE i = 1
      <4>1. target = "trampret" => Len(s) > 0
        BY <1>0, <1>1, <1>3 DEF FramesSafe, s
      <4>2. QED
        BY <1>0, <1>1, <1>3, <3>1, <4>1
    <3>2. CASE i # 1
      <4>1. \A k \in DOMAIN s : /\ s[k].ret \notin {"tramp", "halted", "none"}
                                /\ s[k].ret = "trampret" => k < Len(s)
        BY <1>1, ZenonT(30) DEF FramesSafe, s
      <4>2. QED
        BY <1>0, <2>2, <3>2, <4>1
    <3>3. QED
      BY <3>1, <3>2, ZenonT(30)
  <2>3. QED
    BY <1>2, <1>3, <2>1, <2>2, Zenon DEF FramesSafe
<1>13. QED
  BY <1>5, <1>6, <1>7, <1>8, <1>11, <1>12, ZenonT(30) DEF Inv2

\* The end of the trampoline: it pops its own frame.
LEMMA ReturnStep == ASSUME IInv, TypeOK', TrampolineReturn PROVE Inv2'
<1> USE DEF IInv
<1> DEFINE s == frame[current]
<1>1. /\ current \in Thread /\ s \in Seq(Frame) /\ s # <<>>
      /\ pc[current] = "trampret" /\ ~pending
  BY SMTT(30) DEF TypeOK, TrampolineReturn, At, FramesSafe, PreemptTargetSafe
<1>2. /\ Head(s) = s[1] /\ 1 \in DOMAIN s /\ Len(Tail(s)) = Len(s) - 1
      /\ DOMAIN s = 1..Len(s) /\ Len(s) \in Nat
      /\ \A i \in DOMAIN Tail(s) : Tail(s)[i] = s[i + 1] /\ i + 1 \in DOMAIN s
  <2>1. s \in Seq(Frame) /\ s # <<>>
    BY <1>1, ZenonT(30)
  <2> HIDE DEF s
  <2>2. QED
    BY ONLY <2>1, PopFrame
<1>3. \A t \in Thread :
        /\ pc'[t] = IF t = current THEN s[1].ret ELSE pc[t]
        /\ frame'[t] = IF t = current THEN Tail(s) ELSE frame[t]
  BY <1>1, <1>2, ZenonT(30) DEF TypeOK, TrampolineReturn, Goto
<1>4. UNCHANGED <<created, state, current, pending, target, wq>>
  BY SMTT(30) DEF TrampolineReturn, threadVars, inputVars
<1>5. s[1].ret \notin {"tramp", "halted", "none"} /\ (s[1].ret = "trampret" => 1 < Len(s))
  BY <1>1, <1>2, ZenonT(30) DEF FramesSafe
<1>6. OneRunning' /\ WaitQueueExact'
  BY <1>4, ZenonT(30) DEF OneRunning, WaitQueueExact
<1>7. PreemptTargetSafe'
  BY <1>1, <1>3, <1>4, <1>5, ZenonT(30) DEF PreemptTargetSafe
<1>8. UnusedSafe'
  BY <1>3, <1>4, <1>5, ZenonT(30) DEF UnusedSafe
<1>9. ASSUME NEW t \in Thread, NEW S, OnlyAt(t, S)
      PROVE  pc'[t] \in S /\ \A i \in DOMAIN frame'[t] : frame'[t][i].ret \in S
  <2>1. CASE t = current
    <3>1. \A i \in DOMAIN s : s[i].ret \in S
      BY <1>9, <2>1, ZenonT(30) DEF OnlyAt
    <3> HIDE DEF s
    <3>2. pc'[t] = s[1].ret /\ frame'[t] = Tail(s)
      BY ONLY <1>3, <2>1, t \in Thread, ZenonT(30)
    <3>3. QED
      BY ONLY <1>2, <3>1, <3>2, ZenonT(30)
  <2>2. CASE t # current
    BY <1>3, <1>9, <2>2, SMTT(30) DEF OnlyAt
  <2>3. QED
    BY <2>1, <2>2, ZenonT(30)
<1>10. IdleSafe'
  BY <1>1, <1>4, <1>9, BootThreads, ZenonT(30) DEF IdleSafe, OnlyAt
<1>11. FramesSafe'
  <2>1. \A t \in Thread : pc'[t] = "trampret" => frame'[t] # <<>>
    <3>1. s[1].ret = "trampret" => Tail(s) # <<>>
      BY <1>2, <1>5
    <3>2. QED
      BY <1>3, <3>1, Zenon DEF FramesSafe
  <2>2. ASSUME NEW i \in DOMAIN Tail(s)
        PROVE  /\ Tail(s)[i].ret \notin {"tramp", "halted", "none"}
               /\ Tail(s)[i].ret = "trampret" => i < Len(Tail(s))
    <3>1. /\ s[i + 1].ret \notin {"tramp", "halted", "none"}
          /\ s[i + 1].ret = "trampret" => i + 1 < Len(s)
      BY <1>1, <1>2, <2>2, ZenonT(30) DEF FramesSafe
    <3>2. i \in Nat
      BY <1>1, <1>2, <2>2
    <3>3. QED
      BY <1>2, <3>1, <3>2
  <2>3. QED
    BY <1>1, <1>3, <1>4, <2>1, <2>2, Zenon DEF FramesSafe
<1>12. QED
  BY <1>6, <1>7, <1>8, <1>10, <1>11, SMTT(30) DEF Inv2

\* The rest of the invariant only looks at these variables.
LEMMA SameInv2 ==
  ASSUME Inv2, UNCHANGED <<created, state, pc, frame, current, pending, target, wq>>
  PROVE  Inv2'
<1>1. OneRunning' /\ WaitQueueExact'
  BY ZenonT(30) DEF Inv2, OneRunning, WaitQueueExact
<1>2. PreemptTargetSafe' /\ UnusedSafe'
  BY ZenonT(30) DEF Inv2, PreemptTargetSafe, UnusedSafe
<1>3. IdleSafe'
  BY ZenonT(30) DEF Inv2, IdleSafe, OnlyAt
<1>4. FramesSafe'
  BY ZenonT(30) DEF Inv2, FramesSafe
<1>5. QED
  BY <1>1, <1>2, <1>3, <1>4, ZenonT(30) DEF Inv2

\* Every step preserves the rest of the invariant, action by action.
LEMMA NextInv2 == ASSUME IInv, Next PROVE Inv2'
<1>1. TypeOK'
  BY TypeStep, ZenonT(30)
<1>2. ASSUME NEW p \in PC, Goto(p),
             p \notin {"tramp", "trampret", "none"},
             pc[current] \notin BootCode,
             pc[current] \in IdleCode => p \in IdleCode,
             UNCHANGED <<created, state, frame, current, pending, target, wq>>
      PROVE  Inv2'
  BY <1>1, <1>2, GotoStep, ZenonT(30)
<1>3. CASE Release
  <2>1. UNCHANGED <<created, state, pc, frame, current, pending, target, wq>>
    BY <1>3, ZenonT(30) DEF Release, threadVars, trapVars, inputVars
  <2>2. QED
    BY ONLY IInv, <2>1, SameInv2, ZenonT(30) DEF IInv, Inv2
<1>4. CASE BootCreate
  <2>1. PICK p \in {"create_init", "sched_start"} :
          pc' = [pc EXCEPT ![current] = p, ![created + 1] = "start"]
    BY <1>4, ZenonT(30) DEF BootCreate
  <2>2. /\ Create(0) /\ UNCHANGED <<frame, current, pending, target, wq>>
        /\ pc[current] \notin IdleCode /\ pc[current] \notin {"tramp", "trampret"}
    BY <1>4, ZenonT(30) DEF BootCreate, At, IdleCode, trapVars, inputVars
  <2>3. p \in PC /\ p \notin {"tramp", "trampret", "none"}
    BY ZenonT(30) DEF PC
  <2>4. QED
    BY <1>1, <2>1, <2>2, <2>3, CreateStep, Zenon
<1>5. CASE SysSpawn
  <2>1. /\ pc' = [pc EXCEPT ![current] = "sysret", ![created + 1] = "start"]
        /\ Create(current) /\ UNCHANGED <<frame, current, pending, target, wq>>
        /\ pc[current] \notin IdleCode /\ pc[current] \notin {"tramp", "trampret"}
        /\ "sysret" \in PC
    BY <1>5, ZenonT(30) DEF SysSpawn, At, IdleCode, trapVars, inputVars, PC
  <2>2. QED
    BY <1>1, <2>1, CreateStep, Zenon
<1>6. CASE Start
  <2>1. PICK p \in {"idle", "launch"} : /\ Goto(p)
                                        /\ current = Idle <=> p = "idle"
    BY <1>6, ZenonT(30) DEF Start
  <2>2. CASE current = Idle
    BY <1>2, <1>6, <2>1, <2>2, ZenonT(30) DEF Start, At, IdleCode, BootCode, PC, threadVars,
       trapVars, inputVars
  <2>3. CASE current # Idle
    \* The one place where an ordinary thread leaves code it shares with idle.
    <3>1. \A t \in Thread : pc'[t] = IF t = current THEN p ELSE pc[t]
      BY <2>1, ZenonT(30) DEF IInv, TypeOK, Goto
    <3>2. UNCHANGED <<created, state, frame, current, pending, target, wq>>
      BY <1>6, ZenonT(30) DEF Start, threadVars, trapVars, inputVars
    <3>3. pc[current] \notin BootCode
      BY <1>6, ZenonT(30) DEF Start, At, BootCode
    <3>4. ~pending /\ ~(created' < Idle)
      BY <3>2, <3>3, IdleCreated, SMTT(30)
    <3>5. OneRunning' /\ WaitQueueExact'
      BY <3>2, SMTT(30) DEF IInv, OneRunning, WaitQueueExact
    <3>6. PreemptTargetSafe' /\ UnusedSafe'
      BY <3>1, <3>2, <3>4, SMTT(30) DEF IInv, PreemptTargetSafe, UnusedSafe, TypeOK
    <3>7. IdleSafe'
      BY <2>3, <3>1, <3>2, <3>4, BootThreads, Zenon DEF IInv, IdleSafe, OnlyAt
    <3>8. FramesSafe'
      BY <3>1, <3>2, <3>4, SameFrames, ZenonT(30)
    <3>9. QED
      BY <3>5, <3>6, <3>7, <3>8, ZenonT(30) DEF Inv2
  <2>4. QED
    BY <2>2, <2>3, ZenonT(30)
<1>7. CASE Exit
  BY <1>1, <1>7, ExitStep, ZenonT(30)
<1>8. CASE Trampoline
  BY <1>1, <1>8, TrampolineStep, ZenonT(30)
<1>9. CASE TrampolineReturn
  BY <1>1, <1>9, ReturnStep, ZenonT(30)
<1>10. CASE IdleHalt
  BY <1>2, <1>10, ZenonT(30) DEF IdleHalt, At, IdleCode, BootCode, PC, threadVars, trapVars,
     inputVars
<1>11. CASE IdleCheck
  <2>1. pc[current] \notin BootCode /\ "idle" \in PC /\ "idle" \in IdleCode
    BY <1>11, ZenonT(30) DEF IdleCheck, At, BootCode, IdleCode, PC
  <2>2. CASE Yield("idle") /\ UNCHANGED trapVars
    BY <1>1, <2>1, <2>2, YieldStep, ZenonT(30)
  <2>3. CASE Goto("idle") /\ UNCHANGED <<threadVars, trapVars, current, inputVars>>
    BY <1>2, <2>1, <2>3, ZenonT(30) DEF threadVars, trapVars, inputVars
  <2>4. QED
    BY <1>11, <2>2, <2>3, ZenonT(30) DEF IdleCheck
<1>12. CASE Launch
  <2>1. PICK p \in {"user", "exit"} : Goto(p)
    BY <1>12, ZenonT(30) DEF Launch
  <2>2. QED
    BY <1>2, <1>12, <2>1, ZenonT(30) DEF Launch, At, IdleCode, BootCode, PC, trapVars, inputVars
<1>13. CASE SysRet
  BY <1>2, <1>13, ZenonT(30) DEF SysRet, At, IdleCode, BootCode, PC, threadVars, trapVars, inputVars
<1>14. CASE SysYield
  <2>1. PICK p \in {"sysret", "yield"} : Yield(p)
    BY <1>14, ZenonT(30) DEF SysYield
  <2>2. /\ pc[current] \notin BootCode /\ pc[current] \notin IdleCode /\ p \in PC
        /\ p \notin {"tramp", "trampret", "none"} /\ UNCHANGED trapVars
    BY <1>14, ZenonT(30) DEF SysYield, At, BootCode, IdleCode, PC
  <2>3. QED
    BY <1>1, <2>1, <2>2, YieldStep, ZenonT(30)
<1>15. CASE SysWait
  BY <1>1, <1>15, WaitStep, ZenonT(30)
<1>16. CASE SysWaitYield
  <2>1. /\ pc[current] \notin BootCode /\ pc[current] \notin IdleCode
        /\ "wait" \in PC /\ UNCHANGED trapVars /\ Yield("wait")
    BY <1>16, ZenonT(30) DEF SysWaitYield, At, BootCode, IdleCode, PC
  <2>2. QED
    BY <1>1, <2>1, YieldStep, ZenonT(30)
<1>17. CASE TtyPop
  <2>1. PICK p \in {"read", "sysret", "sleep"} : Goto(p)
    BY <1>17, ZenonT(30) DEF TtyPop
  <2>2. QED
    BY <1>2, <1>17, <2>1, ZenonT(30) DEF TtyPop, At, IdleCode, BootCode, PC, threadVars, trapVars
<1>18. CASE SleepCond
  <2>1. CASE input = 0
    BY <1>1, <1>18, <2>1, SleepStep, SMTT(30)
  <2>2. CASE input # 0
    BY <1>2, <1>18, <2>2, ZenonT(30) DEF SleepCond, At, IdleCode, BootCode, PC, trapVars
  <2>3. QED
    BY <2>1, <2>2, ZenonT(30)
<1>19. CASE Tick
  <2>1. CASE Preempts(needResched')
    BY <1>1, <1>19, <2>1, PreemptStep, ZenonT(30)
  <2>2. CASE ~Preempts(needResched')
    <3>1. Goto(AfterIrq) /\ UNCHANGED <<created, state, frame, current, pending, target, wq>>
      BY <1>19, <2>2, ZenonT(30) DEF Tick, OnTick, threadVars, inputVars
    <3>2. WaitQueueExact'
      BY <3>1, ZenonT(30) DEF IInv, WaitQueueExact
    <3>3. QED
      BY <1>1, <3>1, <3>2, TickStep, ZenonT(30) DEF Inv2
  <2>3. QED
    BY <2>1, <2>2, ZenonT(30)
<1>20. CASE InputIrq
  BY <1>1, <1>20, InputStep, ZenonT(30)
<1>21. ASSUME NEW call \in Calls, Syscall(call) PROVE Inv2'
  <2>1. PICK p \in {"yield", "read", "wait", "spawn", "exit", "sysret"} : Goto(p)
    BY <1>21, ZenonT(30) DEF Syscall, Calls
  <2>2. QED
    BY <1>2, <1>21, <2>1, ZenonT(30) DEF Syscall, At, IdleCode, BootCode, PC, threadVars,
       trapVars, inputVars
<1>22. QED
  BY <1>3, <1>4, <1>5, <1>6, <1>7, <1>8, <1>9, <1>10, <1>11, <1>12, <1>13, <1>14,
     <1>15, <1>16, <1>17, <1>18, <1>19, <1>20, <1>21 DEF Next, Kernel

\* Every step preserves the invariant.
LEMMA NextIInv == ASSUME IInv, Next PROVE IInv'
  BY TypeStep, LockStep, NextInv2, ZenonT(30) DEF IInv, Inv2

\* Stuttering preserves it too.
LEMMA StutterIInv == ASSUME IInv, UNCHANGED vars PROVE IInv'
<1>1. Inv2'
  BY SameInv2, ZenonT(30) DEF vars, IInv, Inv2
<1>2. TypeOK'
  BY ZenonT(30) DEF vars, IInv, TypeOK
<1>3. LockMasksIrqs'
  BY ZenonT(30) DEF vars, IInv, LockMasksIrqs
<1>4. QED
  BY <1>1, <1>2, <1>3, ZenonT(30) DEF IInv, Inv2

\* The invariant holds in every reachable state.
THEOREM Invariance == Spec => []IInv
<1>1. IInv /\ [Next]_vars => IInv'
  BY NextIInv, StutterIInv, ZenonT(30)
<1>2. QED
  BY <1>1, InitIInv, PTL DEF Spec

\* The scheduler is type correct.
THEOREM TypeCorrect == Spec => []TypeOK
<1>1. IInv => TypeOK
  BY ZenonT(30) DEF IInv
<1>2. QED
  BY <1>1, Invariance, PTL

\* Exactly one thread runs: the current one (sched_resched_locked), for any
\* number of threads and programs.
THEOREM RunningSafety == Spec => []OneRunning
<1>1. IInv => OneRunning
  BY ZenonT(30) DEF IInv
<1>2. QED
  BY <1>1, Invariance, PTL

\* The threads on a wait queue are exactly the sleeping ones, each once
\* (sched_sleep_cond, sched_wake_one, sched_exit).
THEOREM WaitQueueSafety == Spec => []WaitQueueExact
<1>1. IInv => WaitQueueExact
  BY ZenonT(30) DEF IInv
<1>2. QED
  BY <1>1, Invariance, PTL

\* While sched_lock is held interrupts are off, so no handler spins on it
\* (spin_lock_irqsave).
THEOREM LockSafety == Spec => []LockMasksIrqs
<1>1. IInv => LockMasksIrqs
  BY ZenonT(30) DEF IInv
<1>2. QED
  BY <1>1, Invariance, PTL

\* The address sched_request_preempt leaves for the trampoline is not
\* overwritten before the trampoline uses it.
THEOREM PreemptSafety == Spec => []PreemptTargetSafe
<1>1. IInv => PreemptTargetSafe
  BY ZenonT(30) DEF IInv
<1>2. QED
  BY <1>1, Invariance, PTL

\* sched_resched_locked never returns to a thread that sleeps or has exited,
\* and no trampoline returns through another one's frame.
THEOREM ReturnSafety == Spec => []ReturnsSafe
<1>1. IInv => ReturnsSafe
  BY SMTT(30) DEF IInv, ReturnsSafe
<1>2. QED
  BY <1>1, Invariance, PTL

\* A step makes no DEAD thread anything but UNUSED, and none but a DEAD
\* thread UNUSED.
LEMMA DeadStep ==
  ASSUME IInv, Next, NEW t \in Thread
  PROVE  /\ state[t] = "DEAD" => state'[t] \in {"DEAD", "UNUSED"}
         /\ state[t] # "UNUSED" /\ state'[t] = "UNUSED" => state[t] = "DEAD"
<1> USE DEF IInv
<1>1. CASE UNCHANGED state
  BY <1>1, ZenonT(30)
<1>2. ASSUME NEW parent, Create(parent) PROVE state'[t] = state[t] \/ state[t] = "UNUSED"
  BY <1>2 DEF Create, UnusedSafe, TypeOK, Thread
<1>3. CASE BootCreate \/ SysSpawn
  <2>1. PICK parent : Create(parent)
    BY <1>3, ZenonT(30) DEF BootCreate, SysSpawn
  <2>2. state'[t] = state[t] \/ (state[t] = "UNUSED" /\ state[t] # "DEAD")
    BY <1>2, <2>1, ZenonT(30)
  <2>3. QED
    BY <2>2, SMTT(30)
<1>4. CASE Resched(state)
  BY <1>4, YieldEffect, ZenonT(30) DEF ReschedPost
<1>5. ASSUME NEW x \in {"DEAD", "BLOCKED"},
             ReschedPost([state EXCEPT ![current] = x])
      PROVE  /\ state[t] = "DEAD" => state'[t] \in {"DEAD", "UNUSED"}
             /\ state[t] # "UNUSED" /\ state'[t] = "UNUSED" => state[t] = "DEAD"
  <2>1. state[current] = "RUNNING" /\ current \in Thread
    BY ZenonT(30) DEF OneRunning, TypeOK
  <2>2. [state EXCEPT ![current] = x][t] = IF t = current THEN x ELSE state[t]
    BY SMTT(30) DEF TypeOK
  <2>3. QED
    BY <1>5, <2>1, <2>2, ZenonT(30) DEF ReschedPost
<1>6. CASE Exit
  BY <1>5, <1>6, LeaveEffect, ZenonT(30) DEF Exit, At, IdleCode, BootCode
<1>7. CASE SleepCond
  <2>1. CASE input = 0
    BY <1>5, <1>7, <2>1, LeaveEffect, ZenonT(30) DEF SleepCond, At, IdleCode, BootCode
  <2>2. CASE input # 0
    BY <1>1, <1>7, <2>2, SMTT(30) DEF SleepCond
  <2>3. QED
    BY <2>1, <2>2, SMTT(30)
<1>8. CASE SysWait
  BY <1>8, ZenonT(30) DEF SysWait, Children, TypeOK
<1>9. CASE InputIrq
  <2>1. CASE wq # <<>> /\ state' = [state EXCEPT ![Head(wq)] = "RUNNABLE"]
    <3>1. Head(wq) \in Thread /\ state[Head(wq)] = "BLOCKED"
      BY <2>1, SMTT(30) DEF TypeOK, WaitQueueExact
    <3>2. QED
      BY <2>1, <3>1, ZenonT(30) DEF TypeOK
  <2>2. QED
    BY <1>1, <1>9, <2>1, ZenonT(30) DEF InputIrq, WakeOne
<1>10. CASE IdleCheck \/ SysYield \/ SysWaitYield \/ Trampoline
  BY <1>1, <1>4, <1>10, ZenonT(30) DEF IdleCheck, SysYield, SysWaitYield, Trampoline, Yield, threadVars
<1>11. CASE \/ Release \/ Start \/ TrampolineReturn \/ IdleHalt \/ Launch \/ SysRet
            \/ TtyPop \/ Tick \/ \E call \in Calls : Syscall(call)
  BY <1>1, <1>11, ZenonT(30) DEF Release, Start, TrampolineReturn, IdleHalt, Launch, SysRet,
     TtyPop, Tick, OnTick, Syscall, threadVars
<1>12. QED
  BY <1>3, <1>6, <1>7, <1>8, <1>9, <1>10, <1>11, ZenonT(30) DEF Next, Kernel

\* A thread that called sched_exit never runs again, and sched_wait_child
\* frees only such threads, off the CPU and off the wait queue.
THEOREM DeadIsForever == Spec => DeadStaysDead
<1> DEFINE D == \A t \in Thread :
                  /\ state[t] = "DEAD" =>
                       state'[t] \in {"DEAD", "UNUSED"} /\ current' # t
                  /\ state[t] # "UNUSED" /\ state'[t] = "UNUSED" =>
                       /\ state[t] = "DEAD"
                       /\ current # t
                       /\ \A i \in DOMAIN wq : wq[i] # t
<1>1. ASSUME IInv, IInv', Next PROVE D
  <2>1. \A t \in Thread : state[t] = "DEAD" =>
          /\ t # current
          /\ \A i \in DOMAIN wq : wq[i] # t
    BY <1>1, ZenonT(30) DEF IInv, OneRunning, WaitQueueExact
  <2>2. \A t \in Thread : t = current' => state'[t] = "RUNNING"
    BY <1>1, ZenonT(30) DEF IInv, OneRunning
  <2>3. QED
    BY <1>1, <2>1, <2>2, DeadStep, ZenonT(30)
<1>2. IInv /\ IInv' /\ [Next]_vars => [D]_vars
  BY <1>1, ZenonT(30)
<1>3. QED
  BY <1>2, Invariance, PTL DEF Spec, DeadStaysDead

-----------------------------------------------------------------------------
(* Round robin.  Seen from the current thread the scan meets everyone who  *)
(* has run while a thread waits after it has met that thread.              *)

\* Whoever passed a waiting thread is behind it in the scan.
Behind ==
  \A t \in Thread : state[t] = "RUNNABLE" =>
    \A m \in passed[t] : m \in Thread /\ ScanDist(t) < ScanDist(m)

\* sched_resched_locked, the only code that gives the CPU away, gives it to
\* the nearest waiting thread.
LEMMA NearestRuns ==
  ASSUME IInv, Next, current' # current, NEW t \in Thread, state[t] = "RUNNABLE"
  PROVE  current' \in Thread /\ ScanDist(current') <= ScanDist(t)
<1>1. current \in Thread /\ state \in [Thread -> TState] /\ t # current
  BY ZenonT(30) DEF IInv, TypeOK, OneRunning
<1>2. ASSUME NEW st, Resched(st), st[t] = "RUNNABLE"
      PROVE  current' \in Thread /\ ScanDist(current') <= ScanDist(t)
  BY <1>2, ZenonT(30) DEF Resched
<1>3. CASE Exit
  <2>1. [state EXCEPT ![current] = "DEAD"][t] = "RUNNABLE"
    BY <1>1, ZenonT(30)
  <2>2. QED
    BY <1>2, <1>3, <2>1, ZenonT(30) DEF Exit
<1>4. CASE SleepCond
  <2>1. [state EXCEPT ![current] = "BLOCKED"][t] = "RUNNABLE"
    BY <1>1, ZenonT(30)
  <2>2. QED
    BY <1>2, <1>4, <2>1, ZenonT(30) DEF SleepCond
<1>5. CASE Trampoline \/ IdleCheck \/ SysYield \/ SysWaitYield
  BY <1>2, <1>5, ZenonT(30) DEF Trampoline, IdleCheck, SysYield, SysWaitYield, Yield
<1>6. CASE UNCHANGED current
  BY <1>6, ZenonT(30)
<1>7. QED
  BY <1>3, <1>4, <1>5, <1>6, ZenonT(30) DEF Next, Kernel, Release, BootCreate, Start,
     TrampolineReturn, IdleHalt, Launch, SysRet, SysSpawn, SysWait, TtyPop, Tick,
     InputIrq, Syscall

\* Distances from the thread n that got the CPU: those of the threads met after
\* it shrink alike, and its own is the greatest.
LEMMA Rebase ==
  ASSUME current \in Thread, NEW n \in Thread, current' = n,
         NEW t \in Thread, NEW m \in Thread, t # n
  PROVE  /\ ScanDist(t)' < ScanDist(n)'
         /\ ScanDist(n) <= ScanDist(t) /\ ScanDist(t) < ScanDist(m)
              => ScanDist(t)' < ScanDist(m)'
<1>1. MaxThreads \in Nat /\ current \in 1..MaxThreads /\ n \in 1..MaxThreads
      /\ t \in 1..MaxThreads /\ m \in 1..MaxThreads
  BY SchedAssumption DEF Thread
<1>2. \A x \in Thread : ScanDist(x)' = IF x > n THEN x - n ELSE x - n + MaxThreads
  BY DEF ScanDist
<1>3. \A x \in Thread : ScanDist(x) = IF x > current THEN x - current
                                      ELSE x - current + MaxThreads
  BY DEF ScanDist
<1>4. QED
  BY <1>1, <1>2, <1>3, SMTT(30) DEF Thread

\* Every step keeps the passed ones behind.
LEMMA BehindStep ==
  ASSUME IInv, IInv', Behind, Next, passed' = [t \in Thread |-> Passed(t)]
  PROVE  Behind'
<1>1. current \in Thread /\ current' \in Thread /\ state'[current'] = "RUNNING"
  BY ZenonT(30) DEF IInv, TypeOK, OneRunning
<1>2. SUFFICES ASSUME NEW t \in Thread, state'[t] = "RUNNABLE", NEW m \in passed'[t]
               PROVE  m \in Thread /\ ScanDist(t)' < ScanDist(m)'
  BY DEF Behind
<1>3. m \in Passed(t) /\ t # current'
  BY <1>1, <1>2
<1>4. CASE m = current' /\ current' # current
  BY <1>1, <1>3, <1>4, Rebase, SMTT(30)
<1>5. CASE state[t] = "RUNNABLE" /\ m \in passed[t]
  <2>1. m \in Thread /\ ScanDist(t) < ScanDist(m)
    BY <1>5 DEF Behind
  <2>2. CASE current' = current
    BY <2>1, <2>2, ZenonT(30) DEF ScanDist
  <2>3. CASE current' # current
    <3>1. ScanDist(current') <= ScanDist(t)
      BY <1>5, <2>3, NearestRuns, ZenonT(30)
    <3>2. QED
      BY <1>1, <1>3, <2>1, <3>1, Rebase, ZenonT(30)
  <2>4. QED
    BY <2>2, <2>3
<1>6. QED
  BY <1>2, <1>3, <1>4, <1>5, ZenonT(30) DEF Passed

\* While a thread stays RUNNABLE no other thread gets the CPU twice
\* (sched_resched_locked), for any number of threads.
THEOREM RoundRobin == FairOrderSpec => NoOvertaking
<1> DEFINE Order == current' # current =>
              \A t \in Thread : state[t] = "RUNNABLE" /\ state'[t] = "RUNNABLE" =>
                current' \notin passed[t]
<1>1. FairOrderInit => Init /\ Behind
  BY DEF FairOrderInit, Init, Behind
<1>2. [FairOrderNext]_fairVars => [Next]_vars
  BY DEF FairOrderNext, fairVars
<1>3. IInv /\ IInv' /\ Behind /\ [FairOrderNext]_fairVars => Behind'
  <2>1. ASSUME IInv, IInv', Behind, FairOrderNext PROVE Behind'
    BY <2>1, BehindStep DEF FairOrderNext
  <2>2. ASSUME Behind, UNCHANGED fairVars PROVE Behind'
    BY <2>2, ZenonT(30) DEF Behind, ScanDist, fairVars, vars
  <2>3. QED
    BY <2>1, <2>2
<1>4. IInv /\ IInv' /\ Behind /\ [FairOrderNext]_fairVars => [Order]_fairVars
  <2>1. SUFFICES ASSUME IInv, IInv', Behind, Next, current' # current, NEW t \in Thread,
                        state[t] = "RUNNABLE"
                 PROVE  current' \notin passed[t]
    BY DEF FairOrderNext
  <2>2. ScanDist(current') <= ScanDist(t) /\ current' \in Thread /\ current \in Thread
    BY <2>1, NearestRuns, ZenonT(30) DEF IInv, TypeOK
  <2>3. ScanDist(current') \in Int /\ ScanDist(t) \in Int
    BY <2>2, SchedAssumption DEF ScanDist, Thread
  <2>4. \A m \in passed[t] : ScanDist(t) < ScanDist(m)
    BY <2>1 DEF Behind
  <2>5. QED
    BY <2>2, <2>3, <2>4
<1>5. FairOrderInit /\ [][FairOrderNext]_fairVars => NoOvertaking
  <2>1. FairOrderInit /\ [][FairOrderNext]_fairVars => []IInv
    BY <1>1, <1>2, Invariance, PTL DEF Spec
  <2>2. QED
    BY <2>1, <1>1, <1>3, <1>4, PTL DEF NoOvertaking
<1>6. QED
  BY <1>5, PTL DEF FairOrderSpec

-----------------------------------------------------------------------------
(* Wakeups.  A thread that executes a program or one of its system calls   *)
(* has an address space, so the tick never sends it to the trampoline, and *)
(* a thread that sleeps does so in tty_read.                               *)

\* The code of a thread that has an address space.
UserCode == {"user", "yield", "read", "sleep", "wait", "wait_yield", "spawn",
             "sysret"}

\* idle_thread's loop is the idle thread's, and kernel_main the boot thread's.
Own(t) ==
  {p \in PC : /\ p \in {"idle", "halted", "check"} => t = Idle
              /\ p \in {"create_idle", "create_init", "sched_start"} => t = Boot}

\* A trampoline returns to the thread's own code, and never to user code:
\* none was pushed over it.
TrapsSafe ==
  /\ pending => target \in Own(current) \ UserCode
  /\ \A t \in Thread : \A i \in DOMAIN frame[t] :
       frame[t][i].ret \in Own(t) \ UserCode

\* With TrapsSafe, the strengthening that wakeups and the idle loop need.
UserSafe ==
  /\ TrapsSafe
  /\ \A t \in Thread : pc[t] \in Own(t)
  /\ \A t \in Thread : pc[t] \in UserCode => aspace[t]
  /\ \A t \in Thread : state[t] = "BLOCKED" => pc[t] = "read"

\* The traps stay as they are while the CPU stays or was not in a trampoline.
LEMMA TrapsStay ==
  ASSUME IInv, UserSafe, UNCHANGED trapVars, UNCHANGED current \/ pc[current] # "tramp"
  PROVE  TrapsSafe'
<1>1. UNCHANGED current \/ ~pending
  BY DEF IInv, PreemptTargetSafe
<1>2. QED
  BY <1>1, ZenonT(30) DEF UserSafe, TrapsSafe, trapVars

\* The current thread goes to q, which is user code only with an address
\* space; nobody else moves, loses its address space or falls asleep.
LEMMA UserGoto ==
  ASSUME IInv, UserSafe, TrapsSafe', NEW q \in Own(current), Goto(q),
         q \in UserCode => aspace'[current],
         \A t \in Thread : aspace[t] => aspace'[t],
         \A t \in Thread : state'[t] = "BLOCKED" =>
           IF t = current THEN q = "read" ELSE state[t] = "BLOCKED"
  PROVE  UserSafe'
<1>1. pc \in [Thread -> PC] /\ current \in Thread
  BY ZenonT(30) DEF IInv, TypeOK
<1>2. \A t \in Thread : pc'[t] = IF t = current THEN q ELSE pc[t]
  BY <1>1 DEF Goto
<1>3. QED
  BY <1>2, ZenonT(30) DEF UserSafe

\* A new thread starts in the trampoline of its entry function.
LEMMA UserCreate ==
  ASSUME IInv, UserSafe, NEW parent, Create(parent), NEW q \in Own(current), q \in UserCode => q = "sysret",
         pc' = [pc EXCEPT ![current] = q, ![created + 1] = "start"],
         q = "sysret" => aspace[current],
         UNCHANGED trapVars, UNCHANGED current
  PROVE  UserSafe'
<1>1. /\ pc \in [Thread -> PC] /\ current \in Thread /\ created + 1 \in Thread
      /\ state \in [Thread -> TState] /\ aspace \in [Thread -> BOOLEAN]
  <2>1. created \in 1..MaxThreads /\ created < MaxThreads
    BY ZenonT(30) DEF IInv, TypeOK, Create
  <2>2. created + 1 \in Thread
    BY <2>1, SchedAssumption DEF Thread
  <2>3. QED
    BY <2>2, Zenon DEF IInv, TypeOK
<1>2. current # created + 1 /\ state[current] = "RUNNING"
  <2>1. created \in Nat /\ state[current] = "RUNNING"
    BY <1>1, SchedAssumption DEF IInv, OneRunning, TypeOK
  <2>2. state[created + 1] = "UNUSED"
    BY <1>1, <2>1 DEF IInv, UnusedSafe
  <2>3. QED
    BY <2>1, <2>2, ZenonT(30)
<1>3. \A t \in Thread : /\ pc'[t] = IF t = created + 1 THEN "start"
                                    ELSE IF t = current THEN q ELSE pc[t]
                        /\ state'[t] = IF t = created + 1 THEN "RUNNABLE" ELSE state[t]
                        /\ aspace'[t] = IF t = created + 1 THEN FALSE ELSE aspace[t]
  BY <1>1, <1>2, ZenonT(30) DEF Create
<1>4. TrapsSafe'
  BY TrapsStay
<1>5. \A t \in Thread : pc'[t] \in UserCode => aspace'[t]
  BY <1>1, <1>2, <1>3, ZenonT(30) DEF UserSafe, UserCode
<1>6. \A t \in Thread : pc'[t] \in Own(t)
  <2>1. \A t \in Thread : "start" \in Own(t) /\ pc[t] \in Own(t)
    BY ZenonT(30) DEF UserSafe, Own, PC
  <2>2. QED
    BY <1>3, <2>1, ZenonT(30)
<1>7. QED
  BY <1>2, <1>3, <1>4, <1>5, <1>6, ZenonT(30) DEF UserSafe

\* Nobody falls asleep in sched_yield, nor in sched_exit.
LEMMA UserAsleep ==
  ASSUME IInv, UNCHANGED state \/ Resched(state) \/ Exit, NEW t \in Thread,
         state'[t] = "BLOCKED"
  PROVE  t # current /\ state[t] = "BLOCKED"
<1>1. state[current] = "RUNNING" /\ current \in Thread /\ state \in [Thread -> TState]
  BY ZenonT(30) DEF IInv, OneRunning, TypeOK
<1>2. CASE UNCHANGED state
  BY <1>1, <1>2
<1>3. CASE Resched(state)
  BY <1>1, <1>3, YieldEffect, ZenonT(30) DEF ReschedPost
<1>4. CASE Exit
  <2>1. ReschedPost([state EXCEPT ![current] = "DEAD"])
    BY <1>4, LeaveEffect, ZenonT(30) DEF Exit, At, IdleCode, BootCode
  <2>2. [state EXCEPT ![current] = "DEAD"][t] = IF t = current THEN "DEAD" ELSE state[t]
    BY <1>1
  <2>3. QED
    BY <1>1, <2>1, <2>2, ZenonT(30) DEF ReschedPost
<1>5. QED
  BY <1>2, <1>3, <1>4, ZenonT(30)

\* A step that leaves the traps alone, of a thread outside user code or one
\* that has its address space.
LEMMA UserMove ==
  ASSUME IInv, UserSafe, NEW q \in Own(current), Goto(q),
         q \in UserCode => aspace'[current],
         UNCHANGED aspace \/ aspace' = [aspace EXCEPT ![current] = TRUE],
         UNCHANGED state \/ Resched(state) \/ Exit,
         UNCHANGED trapVars, UNCHANGED current \/ pc[current] # "tramp"
  PROVE  UserSafe'
<1>1. TrapsSafe'
  BY TrapsStay
<1>2. aspace \in [Thread -> BOOLEAN]
  BY ZenonT(30) DEF IInv, TypeOK
<1>3. \A t \in Thread : aspace[t] => aspace'[t]
  BY <1>2
<1>4. \A t \in Thread : state'[t] = "BLOCKED" => t # current /\ state[t] = "BLOCKED"
  BY UserAsleep, ZenonT(30)
<1>5. QED
  BY <1>1, <1>3, <1>4, UserGoto, ZenonT(30)

\* The tick.
LEMMA UserTick == ASSUME IInv, UserSafe, Tick PROVE UserSafe'
<1>1. current \in Thread /\ pc[current] \in PC
  BY ZenonT(30) DEF IInv, TypeOK
<1>2. UNCHANGED <<state, aspace, frame, current>>
  BY DEF Tick, threadVars
<1>3. /\ AfterIrq \in Own(current)
      /\ AfterIrq \in UserCode => aspace[current]
      /\ ~aspace[current] => AfterIrq \notin UserCode
  BY <1>1 DEF AfterIrq, PC, UserSafe, UserCode, Own
<1>4. CASE Preempts(needResched')
  <2>1. target' = AfterIrq /\ Goto("tramp") /\ ~aspace[current]
    BY <1>4, ZenonT(30) DEF Tick, Preempts
  <2>2. TrapsSafe'
    BY <1>2, <1>3, <2>1, ZenonT(30) DEF UserSafe, TrapsSafe
  <2>3. "tramp" \in Own(current) /\ "tramp" \notin UserCode
    BY DEF PC, UserCode, Own
  <2>4. \A t \in Thread : state'[t] = "BLOCKED" => t # current /\ state[t] = "BLOCKED"
    BY <1>2, UserAsleep, ZenonT(30)
  <2>5. QED
    BY <1>2, <2>1, <2>2, <2>3, <2>4, UserGoto, ZenonT(30)
<1>5. CASE ~Preempts(needResched')
  <2>1. Goto(AfterIrq) /\ UNCHANGED trapVars
    BY <1>2, <1>5, ZenonT(30) DEF Tick, trapVars
  <2>2. QED
    BY <1>2, <1>3, <2>1, UserMove, ZenonT(30)
<1>6. QED
  BY <1>4, <1>5

\* The trampoline pushes an address that is not user code, and returns to one.
LEMMA UserTrampoline ==
  ASSUME IInv, UserSafe, Trampoline \/ TrampolineReturn PROVE UserSafe'
<1>1. /\ current \in Thread /\ frame \in [Thread -> Seq(Frame)]
      /\ target \in PC /\ irqOn \in BOOLEAN
  BY ZenonT(30) DEF IInv, TypeOK
<1>2. UNCHANGED aspace
  BY ZenonT(30) DEF Trampoline, TrampolineReturn, threadVars
<1>3. \A t \in Thread : state'[t] = "BLOCKED" => t # current /\ state[t] = "BLOCKED"
  <2>1. UNCHANGED state \/ Resched(state)
    BY ZenonT(30) DEF Trampoline, TrampolineReturn, threadVars
  <2>2. QED
    BY <2>1, UserAsleep, ZenonT(30)
<1>4. CASE Trampoline
  <2> DEFINE f == [ret |-> target, flags |-> irqOn]
             s == frame[current]
  <2>1. pending /\ target \in Own(current) \ UserCode
    BY <1>4, ZenonT(30) DEF Trampoline, At, IInv, PreemptTargetSafe, UserSafe, TrapsSafe
  <2>2. f \in Frame /\ f.ret = target /\ s \in Seq(Frame)
    BY <1>1, ZenonT(30) DEF Frame
  <2>3. frame' = [frame EXCEPT ![current] = <<f>> \o s] /\ pending' = FALSE
        /\ Goto("trampret")
    BY <1>4, ZenonT(30) DEF Trampoline
  <2> HIDE DEF f, s
  <2>4. \A i \in DOMAIN (<<f>> \o s) :
          (<<f>> \o s)[i] = f \/ (i - 1 \in DOMAIN s /\ (<<f>> \o s)[i] = s[i - 1])
    BY <2>2, PushFrame
  <2>5. \A i \in DOMAIN s : s[i].ret \in Own(current) \ UserCode
    BY <1>1, ZenonT(30) DEF UserSafe, TrapsSafe, s
  <2>6. \A i \in DOMAIN (<<f>> \o s) : (<<f>> \o s)[i].ret \in Own(current) \ UserCode
    BY <2>1, <2>2, <2>4, <2>5, ZenonT(30)
  <2>7. \A t \in Thread : frame'[t] = IF t = current THEN <<f>> \o s ELSE frame[t]
    BY <1>1, <2>3, ZenonT(30)
  <2>8. TrapsSafe'
    BY <2>3, <2>6, <2>7 DEF UserSafe, TrapsSafe
  <2>9. "trampret" \in Own(current) /\ "trampret" \notin UserCode
    BY DEF PC, UserCode, Own
  <2>10. QED
    BY <1>2, <1>3, <2>3, <2>8, <2>9, UserGoto, ZenonT(30)
<1>5. CASE TrampolineReturn
  <2> DEFINE s == frame[current]
  <2>1. pc[current] = "trampret" /\ UNCHANGED <<pending, target, current>>
        /\ Goto(Head(s).ret) /\ frame' = [frame EXCEPT ![current] = Tail(s)]
    BY <1>5, ZenonT(30) DEF TrampolineReturn, At
  <2>2. s \in Seq(Frame) /\ s # <<>>
    BY <1>1, <2>1, ZenonT(30) DEF IInv, FramesSafe
  <2>3. \A i \in DOMAIN s : s[i].ret \in Own(current) \ UserCode
    BY <1>1, ZenonT(30) DEF UserSafe, TrapsSafe
  <2>4. \A t \in Thread : frame'[t] = IF t = current THEN Tail(s) ELSE frame[t]
    BY <1>1, <2>1, ZenonT(30)
  <2> HIDE DEF s
  <2>5. Head(s).ret \in Own(current) \ UserCode
    BY <2>2, <2>3, PopFrame, ZenonT(30)
  <2>6. \A i \in DOMAIN Tail(s) : Tail(s)[i].ret \in Own(current) \ UserCode
    BY <2>2, <2>3, PopFrame, ZenonT(30)
  <2>7. TrapsSafe'
    BY <2>1, <2>4, <2>6 DEF UserSafe, TrapsSafe
  <2>8. QED
    BY <1>2, <1>3, <2>1, <2>5, <2>7, UserGoto, ZenonT(30)
<1>6. QED
  BY <1>4, <1>5

\* sched_sleep_cond puts the current thread to sleep in tty_read.
LEMMA UserSleep == ASSUME IInv, UserSafe, SleepCond PROVE UserSafe'
<1>1. /\ Goto("read") /\ UNCHANGED <<aspace, trapVars>> /\ pc[current] = "sleep"
      /\ current \in Thread /\ state \in [Thread -> TState]
  BY ZenonT(30) DEF SleepCond, At, IInv, TypeOK
<1>2. aspace'[current] /\ "read" \in Own(current)
  BY <1>1, ZenonT(30) DEF UserSafe, UserCode, PC, Own
<1>3. CASE UNCHANGED state
  BY <1>1, <1>2, <1>3, UserMove, ZenonT(30)
<1>4. CASE Resched([state EXCEPT ![current] = "BLOCKED"])
  <2>1. ReschedPost([state EXCEPT ![current] = "BLOCKED"])
    BY <1>1, <1>4, LeaveEffect, ZenonT(30) DEF IdleCode, BootCode
  <2>2. \A t \in Thread : state'[t] = "BLOCKED" => t = current \/ state[t] = "BLOCKED"
    BY <1>1, <2>1, ZenonT(30) DEF ReschedPost
  <2>3. TrapsSafe'
    BY <1>1, TrapsStay, ZenonT(30)
  <2>4. QED
    BY <1>1, <1>2, <2>2, <2>3, UserGoto, ZenonT(30)
<1>5. QED
  BY <1>3, <1>4, ZenonT(30) DEF SleepCond

\* What sched_wake_one takes off the queue: its head, which sleeps.
LEMMA HeadSleeps ==
  ASSUME IInv, wq # <<>>
  PROVE  Head(wq) \in Thread /\ state[Head(wq)] = "BLOCKED"
  BY SMTT(30) DEF IInv, TypeOK, WaitQueueExact

\* A character arrives: its handler wakes and puts nobody to sleep.
LEMMA UserInput == ASSUME IInv, UserSafe, InputIrq PROVE UserSafe'
<1>1. /\ Goto(AfterIrq) /\ UNCHANGED <<aspace, trapVars, current>>
      /\ current \in Thread /\ pc[current] \in PC /\ state \in [Thread -> TState]
      /\ state[current] = "RUNNING"
  BY ZenonT(30) DEF InputIrq, IInv, TypeOK, OneRunning
<1>2. AfterIrq \in Own(current) /\ (AfterIrq \in UserCode => aspace'[current])
  BY <1>1 DEF AfterIrq, PC, UserSafe, UserCode, Own
<1>3. UNCHANGED state \/ (wq # <<>> /\ state' = [state EXCEPT ![Head(wq)] = "RUNNABLE"])
  BY DEF InputIrq, WakeOne
<1>4. \A t \in Thread : state'[t] = "BLOCKED" => t # current /\ state[t] = "BLOCKED"
  BY <1>1, <1>3, HeadSleeps, ZenonT(30)
<1>5. TrapsSafe'
  BY <1>1, TrapsStay, ZenonT(30)
<1>6. QED
  BY <1>1, <1>2, <1>4, <1>5, UserGoto, ZenonT(30)

\* sched_wait_child frees a DEAD child, not the caller.
LEMMA UserWait == ASSUME IInv, UserSafe, SysWait PROVE UserSafe'
<1>1. /\ UNCHANGED <<aspace, trapVars, current>> /\ pc[current] = "wait"
      /\ current \in Thread /\ state \in [Thread -> TState] /\ pc \in [Thread -> PC]
      /\ state[current] = "RUNNING"
  BY ZenonT(30) DEF SysWait, At, IInv, TypeOK, OneRunning
<1>2. aspace'[current] /\ {"sysret", "wait_yield"} \subseteq Own(current)
  BY <1>1, ZenonT(30) DEF UserSafe, UserCode, PC, Own
<1>3. CASE UNCHANGED state /\ Goto(IF Children = {} THEN "sysret" ELSE "wait_yield")
  <2>1. PICK q \in Own(current) : Goto(q)
    BY <1>2, <1>3, ZenonT(30)
  <2>2. QED
    BY <1>1, <1>2, <1>3, <2>1, UserMove, ZenonT(30)
<1>4. CASE \E z \in Children :
             /\ state[z] = "DEAD"
             /\ state' = [state EXCEPT ![z] = "UNUSED"]
             /\ pc' = [pc EXCEPT ![current] = "sysret", ![z] = "none"]
  <2>1. PICK z \in Thread :
             /\ state[z] = "DEAD"
             /\ state' = [state EXCEPT ![z] = "UNUSED"]
             /\ pc' = [pc EXCEPT ![current] = "sysret", ![z] = "none"]
    BY <1>4, ZenonT(30) DEF Children
  <2>2. \A t \in Thread :
          /\ pc'[t] = IF t = z THEN "none" ELSE IF t = current THEN "sysret" ELSE pc[t]
          /\ state'[t] = IF t = z THEN "UNUSED" ELSE state[t]
    BY <1>1, <2>1, ZenonT(30)
  <2>3. TrapsSafe'
    BY <1>1, TrapsStay, ZenonT(30)
  <2>4. \A t \in Thread : pc'[t] \in Own(t)
    BY <2>2, ZenonT(30) DEF UserSafe, Own, PC
  <2>5. QED
    BY <1>1, <1>2, <2>2, <2>3, <2>4, ZenonT(30) DEF UserSafe, UserCode
<1>5. QED
  BY <1>3, <1>4, Zenon DEF SysWait

\* Every step preserves the strengthening.
LEMMA UserStep == ASSUME IInv, UserSafe, Next PROVE UserSafe'
<1>1. (pc[current] \in UserCode => aspace[current]) /\ pc[current] \in Own(current)
  BY ZenonT(30) DEF UserSafe, IInv, TypeOK
<1>2. CASE Release
  BY <1>2, ZenonT(30) DEF Release, UserSafe, TrapsSafe, threadVars, trapVars
<1>3. CASE BootCreate
  <2>1. PICK q \in {"create_init", "sched_start"} :
          pc' = [pc EXCEPT ![current] = q, ![created + 1] = "start"]
    BY <1>3, ZenonT(30) DEF BootCreate
  <2>2. q \in Own(current) /\ q \notin UserCode
    BY <1>1, <1>3, ZenonT(30) DEF PC, UserCode, Own, BootCreate, At
  <2>3. QED
    BY <1>3, <2>1, <2>2, UserCreate, ZenonT(30) DEF BootCreate, UserCode
<1>4. CASE SysSpawn
  <2>1. "sysret" \in Own(current) /\ aspace[current]
    BY <1>1, <1>4, ZenonT(30) DEF SysSpawn, At, PC, UserCode, Own
  <2>2. QED
    BY <1>4, <2>1, UserCreate, ZenonT(30) DEF SysSpawn
<1>5. CASE Start \/ Exit \/ IdleHalt \/ IdleCheck
  <2>1. PICK q \in {"idle", "launch", "dead", "halted"} :
          Goto(q) /\ (q \in {"idle", "halted"} => current = Idle)
    BY <1>1, <1>5, ZenonT(30) DEF Start, Exit, IdleHalt, IdleCheck, Yield, Own, At
  <2>2. q \in Own(current) /\ q \notin UserCode /\ pc[current] # "tramp"
    BY <1>5, <2>1, ZenonT(30) DEF PC, UserCode, Own, Start, Exit, IdleHalt, IdleCheck, At
  <2>3. UNCHANGED <<aspace, trapVars>> /\ (UNCHANGED state \/ Resched(state) \/ Exit)
    BY <1>5, ZenonT(30) DEF Start, Exit, IdleHalt, IdleCheck, Yield, threadVars
  <2>4. QED
    BY <2>1, <2>2, <2>3, UserMove, ZenonT(30)
<1>6. CASE Launch
  <2>1. /\ UNCHANGED <<state, trapVars, current>>
        /\ \/ aspace' = [aspace EXCEPT ![current] = TRUE] /\ Goto("user")
           \/ UNCHANGED aspace /\ Goto("exit")
    BY <1>6 DEF Launch
  <2>2. {"user", "exit"} \subseteq Own(current) /\ "exit" \notin UserCode
    BY DEF PC, UserCode, Own
  <2>3. aspace' = [aspace EXCEPT ![current] = TRUE] => aspace'[current]
    BY ZenonT(30) DEF IInv, TypeOK
  <2>4. QED
    BY <2>1, <2>2, <2>3, UserMove, ZenonT(30)
<1>7. CASE SysRet \/ SysYield \/ SysWaitYield \/ TtyPop \/ \E call \in Calls : Syscall(call)
  <2>1. PICK q \in {"user", "sysret", "yield", "wait", "read", "sleep", "exit", "spawn"} : Goto(q)
    BY <1>7, ZenonT(30) DEF SysRet, SysYield, SysWaitYield, TtyPop, Syscall, Calls, Yield
  <2>2. q \in Own(current) /\ pc[current] \in UserCode /\ pc[current] # "tramp"
    BY <1>7, ZenonT(30) DEF PC, Own, SysRet, SysYield, SysWaitYield, TtyPop, Syscall, At, UserCode
  <2>3. UNCHANGED <<aspace, trapVars>> /\ (UNCHANGED state \/ Resched(state))
    BY <1>7, ZenonT(30) DEF SysRet, SysYield, SysWaitYield, TtyPop, Syscall, Yield, threadVars
  <2>4. QED
    BY <1>1, <2>1, <2>2, <2>3, UserMove, ZenonT(30)
<1>8. QED
  BY <1>2, <1>3, <1>4, <1>5, <1>6, <1>7, UserTick, UserTrampoline, UserSleep,
     UserInput, UserWait, ZenonT(30) DEF Next, Kernel

\* sched_init leaves no trap behind.
LEMMA UserInit == Init => UserSafe
<1>1. SUFFICES ASSUME Init PROVE UserSafe
  OBVIOUS
<1>2. TrapsSafe
  BY <1>1 DEF Init, TrapsSafe
<1>3. QED
  BY <1>1, <1>2, ZenonT(30) DEF Init, UserSafe, UserCode, Own, PC
=============================================================================
