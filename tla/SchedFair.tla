----------------------------- MODULE SchedFair -----------------------------
(***************************************************************************)
(* The order in which sched_resched_locked hands out the CPU: Sched with   *)
(* two history variables, who has run while a thread waits and whether the *)
(* boot and the first program kept to what kernel.c and user/init.c do.    *)
(***************************************************************************)
EXTENDS Sched

VARIABLES
  passed,  \* history: who got the CPU since a thread became RUNNABLE
  plain    \* history: no step so far was a stray one

\* Who has passed t after a step of Sched.
Passed(t) ==
  IF state'[t] # "RUNNABLE" THEN {}
  ELSE (IF state[t] = "RUNNABLE" THEN passed[t] ELSE {})
         \cup (IF current' # current THEN {current'} ELSE {})

\* A step that this image does not take: kernel_main uses up a time slice
\* before sched_start, or the first program reads, exits or faults (init.c
\* spawns the shell, waits for it, yields when the spawn fails, and writes).
Strays ==
  \/ current = Boot /\ sinceSwitch' >= TimeSlice
  \/ /\ current = InitThread
     /\ pc[InitThread] = "user" /\ pc'[InitThread] \in {"read", "exit"}

FairOrderInit == Init /\ passed = [t \in Thread |-> {}] /\ plain = TRUE

FairOrderNext ==
  /\ Next
  /\ passed' = [t \in Thread |-> Passed(t)]
  /\ plain' = (plain /\ ~Strays)

fairVars == <<vars, passed, plain>>

\* The kernel keeps executing and the PIT keeps ticking; nothing is assumed
\* of user programs or of the keyboard.
FairOrderSpec ==
  /\ FairOrderInit /\ [][FairOrderNext]_fairVars
  /\ WF_vars(Kernel) /\ WF_vars(Tick)

\* Round robin: while a thread stays RUNNABLE no other thread gets the CPU
\* twice, whatever is created, put to sleep, woken or reaped meanwhile (the
\* scan of sched_resched_locked starts behind the current thread and wraps).
NoOvertaking ==
  [][current' # current =>
       \A t \in Thread : state[t] = "RUNNABLE" /\ state'[t] = "RUNNABLE" =>
         current' \notin passed[t]]_fairVars

\* With this boot and this first program the idle thread of kernel.c never
\* executes hlt with interrupts off: no interrupt could end it and the
\* machine would stop for good.
IdleWakeable == plain /\ pc[current] = "halted" => irqOn

\* The idle thread does not keep the CPU from a runnable thread: timer tick,
\* trampoline and sched_maybe_preempt take it away (same provision).
IdleYields ==
  (plain /\ current = Idle /\ \E t \in Thread : state[t] = "RUNNABLE")
    ~> (current # Idle \/ ~plain)
=============================================================================
