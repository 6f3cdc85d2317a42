---------------------------- MODULE KernelProofs ----------------------------
(***************************************************************************)
(* The theorems about three parts of the kernel that share no state: the   *)
(* ways into and out of it (SyscallEntry), the sector cache (BlockCache)   *)
(* and the pipe ring (Pipe).                                               *)
(***************************************************************************)
EXTENDS SyscallEntry, BlockCache, Pipe, TLAPS

(* The kernel entry works for any number of threads: calls run on their    *)
(* own kernel stacks, the GS base is off exactly after an odd number of    *)
(* crossings between threads with and without swapgs, and the scratch word *)
(* serves calls during which no other thread makes one.                    *)

Mode == {"none", "launch", "user", "call", "gate", "dead"}

Types ==
  /\ cur \in All
  /\ mode \in [All -> Mode]
  /\ rsp \in [Threads -> Depth] /\ expected \in [Threads -> Depth]
  /\ stack \in [Threads -> All \cup {Boot}]
  /\ gs \in {"cpu", "user"} /\ gs0 \in All \cup {Boot} /\ gs8 \in Depth
  /\ tss0 \in All \cup {Boot}
  /\ reentered \in [Threads -> BOOLEAN]
  /\ odd \in BOOLEAN /\ panic \in BOOLEAN

\* Only the current thread is in user mode, the idle thread never is, and
\* gs:0 and the task state name the stack of the current thread.
CpuExact ==
  /\ mode[Idle] = "call"
  /\ \A t \in Threads : mode[t] = "user" => cur = t
  /\ cur \in Threads => gs0 = cur /\ tss0 = cur

\* The scratch word belongs to the one call that nobody followed; a thread
\* behind the gate keeps its own stack pointer.
ScratchExact ==
  \A t \in Threads : ~reentered[t] =>
    /\ mode[t] = "call" => gs8 = expected[t]
    /\ mode[t] = "gate" => rsp[t] = expected[t]

EntryInv == Types /\ CpuExact /\ ScratchExact
          /\ OwnKernelStack /\ SwapsPaired /\ RestoredUnlessReentered

USE EntryAssumption DEF All, Depth, Mode

\* The idle thread runs first, and one program waits to be launched.
LEMMA InitHolds == EntryInit => EntryInv
<1> SUFFICES ASSUME EntryInit PROVE EntryInv OBVIOUS
<1>1. Types
  <2>1. reentered \in [Threads -> BOOLEAN] BY Zenon DEF EntryInit
  <2>2. mode \in [All -> Mode] BY DEF EntryInit
  <2>3. 0 \in Depth OBVIOUS
  <2> QED BY <2>1, <2>2, <2>3, Zenon DEF EntryInit, Types
<1>2. CpuExact BY DEF EntryInit, CpuExact
<1>3. ScratchExact /\ OwnKernelStack /\ SwapsPaired /\ RestoredUnlessReentered
  BY DEF EntryInit, ScratchExact, OwnKernelStack, SwapsPaired, RestoredUnlessReentered, Expects
<1> QED BY <1>1, <1>2, <1>3, ZenonT(30) DEF EntryInv

\* Each step of one thread.
LEMMA EnterHolds ==
  ASSUME EntryInv, NEW t \in Threads, arch_enter_user(t) PROVE EntryInv'
<1> USE DEF EntryInv
<1>1. cur = t /\ ~panic /\ mode[t] \in {"launch", "call", "gate"}
  BY DEF arch_enter_user, At
<1>2. tss0' = t
  BY <1>1 DEF arch_enter_user, OwnKernelStack
<1>3. Types'
  <2>1. gs' \in {"cpu", "user"} BY DEF arch_enter_user, Swap
  <2>2. odd' \in BOOLEAN BY Zenon DEF arch_enter_user, Types
  <2>3. mode' \in [All -> Mode] BY DEF arch_enter_user, Types
  <2>4. rsp' \in [Threads -> Depth] /\ expected' \in [Threads -> Depth]
    BY DEF arch_enter_user, Types
  <2>5. reentered' \in [Threads -> BOOLEAN] BY Zenon DEF arch_enter_user, Types
  <2> QED BY <1>2, <2>1, <2>2, <2>3, <2>4, <2>5, ZenonT(30) DEF arch_enter_user, Types
<1>4. CpuExact' BY <1>1, <1>2 DEF arch_enter_user, Types, CpuExact
<1>5. ScratchExact' BY <1>1 DEF arch_enter_user, Types, ScratchExact
<1>6. OwnKernelStack' BY <1>1 DEF arch_enter_user, Types, OwnKernelStack
<1>7. SwapsPaired'
  <2>1. mode'[cur'] = "user" BY <1>1 DEF arch_enter_user, Types
  <2>2. CASE mode[t] = "gate"
    <3>1. odd' = ~odd /\ gs' = Swap(gs) /\ ~panic' BY <2>2, <1>1, Zenon DEF arch_enter_user
    <3> QED BY <1>1, <2>1, <2>2, <3>1 DEF SwapsPaired, Expects, Swap, Types
  <2>3. CASE mode[t] # "gate"
    <3>1. odd' = odd /\ gs' = Swap(gs) /\ ~panic' BY <2>3, <1>1, Zenon DEF arch_enter_user
    <3> QED BY <1>1, <2>1, <2>3, <3>1 DEF SwapsPaired, Expects, Swap, Types
  <2> QED BY <2>2, <2>3, Zenon
<1>8. RestoredUnlessReentered' BY <1>1 DEF arch_enter_user, Types, RestoredUnlessReentered
<1> QED BY <1>7, <1>8, <1>1, <1>2, <1>3, <1>4, <1>5, <1>6, ZenonT(30)

\* A program runs between two calls.
LEMMA RunHolds ==
  ASSUME EntryInv, NEW t \in Threads, NEW d \in Depth, Run(t, d) PROVE EntryInv'
<1> USE DEF EntryInv, Run, At
<1>1. Types' BY DEF Types
<1>2. CpuExact' BY DEF Types, CpuExact
<1>3. ScratchExact' BY DEF Types, ScratchExact
<1>4. OwnKernelStack' /\ SwapsPaired' BY DEF Types, OwnKernelStack, SwapsPaired, Expects
<1>5. RestoredUnlessReentered' BY DEF Types, RestoredUnlessReentered
<1> QED BY <1>1, <1>2, <1>3, <1>4, <1>5, ZenonT(30)

\* A panic stops the kernel, and comes when the GS base is off.
LEMMA PanicHolds ==
  ASSUME EntryInv, NEW t \in Threads, Panics, odd PROVE EntryInv'
BY DEF EntryInv, Panics, Types, CpuExact, ScratchExact, OwnKernelStack, SwapsPaired,
  RestoredUnlessReentered

\* syscall_entry changes stack and GS for the thread that calls.
LEMMA EntryHolds ==
  ASSUME EntryInv, NEW t \in Threads, syscall_entry(t) PROVE EntryInv'
<1> USE DEF EntryInv, At
<1>1. CASE Swap(gs) = "user"
  <2>1. gs = "cpu" /\ mode[cur] = "user" BY <1>1 DEF Types, Swap, syscall_entry
  <2>2. odd BY <2>1 DEF SwapsPaired, Types, Expects
  <2> QED BY <1>1, <2>2, PanicHolds, ZenonT(30) DEF syscall_entry
<1>2. CASE Swap(gs) # "user"
  <2> USE <1>2 DEF syscall_entry
  <2>1. Types'
    <3>1. reentered' \in [Threads -> BOOLEAN] BY Zenon DEF Types
    <3>2. rsp' = rsp /\ expected' = expected /\ cur' = cur /\ gs0' = gs0 /\ tss0' = tss0
            /\ odd' = odd /\ panic' = panic
      BY ZenonT(30) DEF Types
    <3>3. gs8' \in Depth /\ gs' \in {"cpu", "user"} BY DEF Types
    <3>4. mode' \in [All -> Mode] /\ stack' \in [Threads -> All \cup {Boot}] BY DEF Types
    <3> HIDE DEF syscall_entry, At
    <3> QED BY <3>1, <3>2, <3>3, <3>4, ZenonT(30) DEF Types
  <2>2. CpuExact' BY DEF Types, CpuExact
  <2>3. ScratchExact' BY ZenonT(40) DEF Types, ScratchExact, RestoredUnlessReentered
  <2>4. OwnKernelStack' BY DEF Types, CpuExact, OwnKernelStack
  <2>5. SwapsPaired'
    <3>1. gs = "user" /\ mode[cur] = "user" BY DEF Types, Swap
    <3>2. ~odd /\ ~panic BY <3>1 DEF SwapsPaired, Expects
    <3>3. gs' = "cpu" /\ mode'[cur'] = "call" /\ odd' = odd /\ panic' = panic BY <3>1 DEF Types
    <3> QED BY <3>2, <3>3 DEF SwapsPaired, Expects
  <2>6. RestoredUnlessReentered' BY DEF Types, CpuExact, RestoredUnlessReentered
  <2> QED BY <2>1, <2>2, <2>3, <2>4, <2>5, <2>6, ZenonT(30)
<1> QED BY <1>1, <1>2, ZenonT(30)

\* sysret gives both back.
LEMMA SysretHolds ==
  ASSUME EntryInv, NEW t \in Threads, sysret(t) PROVE EntryInv'
<1> USE DEF EntryInv, At
<1>1. CASE gs = "user"
  <2>1. mode[cur] = "call" BY DEF sysret
  <2>2. odd BY <1>1, <2>1 DEF SwapsPaired, Types, Expects
  <2> QED BY <1>1, <2>2, PanicHolds, ZenonT(30) DEF sysret
<1>2. CASE gs # "user"
  <2> USE <1>2 DEF sysret
  <2>1. Types' BY DEF Types
  <2>2. CpuExact' BY DEF Types, CpuExact
  <2>3. ScratchExact' BY DEF Types, ScratchExact
  <2>4. OwnKernelStack' BY DEF Types, OwnKernelStack
  <2>5. SwapsPaired' BY DEF Types, SwapsPaired, Expects
  <2>6. RestoredUnlessReentered' BY DEF Types, CpuExact, ScratchExact, RestoredUnlessReentered
  <2> QED BY <2>1, <2>2, <2>3, <2>4, <2>5, <2>6, ZenonT(30)
<1> QED BY <1>1, <1>2, ZenonT(30)

\* The gate takes the stack of the task state and leaves GS alone.
LEMMA GateHolds ==
  ASSUME EntryInv, NEW t \in Threads, isr_syscall(t) PROVE EntryInv'
<1> USE DEF EntryInv, isr_syscall, At
<1>1. Types' BY DEF Types
<1>2. CpuExact' BY DEF Types, CpuExact
<1>3. ScratchExact' BY DEF Types, ScratchExact, RestoredUnlessReentered
<1>4. OwnKernelStack' BY DEF Types, CpuExact, OwnKernelStack
<1>5. SwapsPaired' BY DEF Types, SwapsPaired, Expects
<1>6. RestoredUnlessReentered' BY DEF Types, RestoredUnlessReentered
<1> QED BY <1>1, <1>2, <1>3, <1>4, <1>5, <1>6, ZenonT(30)

\* Its iretq takes the thread back to where it was.
LEMMA IretHolds ==
  ASSUME EntryInv, NEW t \in Threads, iretq(t) PROVE EntryInv'
<1> USE DEF EntryInv, iretq, At
<1>1. Types' BY DEF Types
<1>2. CpuExact' BY DEF Types, CpuExact
<1>3. ScratchExact' BY DEF Types, ScratchExact
<1>4. OwnKernelStack' BY DEF Types, OwnKernelStack
<1>5. SwapsPaired' BY DEF Types, SwapsPaired, Expects
<1>6. RestoredUnlessReentered' BY DEF Types, ScratchExact, RestoredUnlessReentered
<1> QED BY <1>1, <1>2, <1>3, <1>4, <1>5, <1>6, ZenonT(30)

\* A new thread starts on a stack of its own.
LEMMA SpawnHolds ==
  ASSUME EntryInv, NEW t \in Threads, NEW u \in Threads, Spawn(t, u) PROVE EntryInv'
<1> USE DEF EntryInv, Spawn, At
<1>1. Types' /\ CpuExact' BY DEF Types, CpuExact
<1>2. ScratchExact' BY DEF Types, ScratchExact
<1>3. OwnKernelStack' /\ SwapsPaired' BY DEF Types, OwnKernelStack, SwapsPaired, Expects
<1>4. RestoredUnlessReentered' BY DEF Types, RestoredUnlessReentered
<1> QED BY <1>1, <1>2, <1>3, <1>4, ZenonT(30)

\* A switch moves the odd mark exactly when it crosses between the two ways in.
LEMMA SwitchPairs ==
  ASSUME Types, SwapsPaired, ~panic, NEW u \in All, NEW m \in [All -> Mode], Switch(u, m),
         gs' = gs, panic' = panic
  PROVE  SwapsPaired' /\ odd' \in BOOLEAN
<1>1. mode'[cur'] = m[u] /\ odd \in BOOLEAN BY Zenon DEF Switch, Types
<1>2. CASE Expects(mode[cur]) = Expects(m[u])
  <2>1. odd' = odd BY <1>2, Zenon DEF Switch
  <2> QED BY <1>1, <1>2, <2>1, Zenon DEF SwapsPaired
<1>3. CASE Expects(mode[cur]) # Expects(m[u])
  <2>1. odd' = ~odd BY <1>3, Zenon DEF Switch
  <2>2. Expects(m[u]) \in {"cpu", "user"} /\ Expects(mode[cur]) \in {"cpu", "user"} BY DEF Expects
  <2>3. gs = Expects(mode[cur]) <=> gs # Expects(m[u]) BY <1>3, <2>2 DEF Types
  <2> QED BY <1>1, <2>1, <2>3, Zenon DEF SwapsPaired
<1> QED BY <1>2, <1>3, Zenon

\* A switch inside a call leaves every stack with its thread.
LEMMA YieldHolds ==
  ASSUME EntryInv, NEW u \in All, Yield(u) PROVE EntryInv'
<1> USE DEF EntryInv, Yield
<1>0. mode \in [All -> Mode] /\ ~panic BY DEF Types
<1>4. SwapsPaired' /\ odd' \in BOOLEAN
  BY <1>0, SwitchPairs, ZenonT(30)
<1>1. Types'
  <2>1. cur' \in All /\ mode' \in [All -> Mode] /\ gs0' \in All \cup {Boot} /\ tss0' \in All \cup {Boot}
    BY <1>0, ZenonT(30) DEF Types, Switch
  <2> QED BY <1>4, <2>1, ZenonT(30) DEF Types
<1> USE DEF Switch
<1>2. CpuExact' BY DEF Types, CpuExact
<1>3. ScratchExact' /\ OwnKernelStack' BY DEF Types, ScratchExact, OwnKernelStack
<1>5. RestoredUnlessReentered' BY DEF Types, RestoredUnlessReentered
<1> QED BY <1>1, <1>2, <1>3, <1>4, <1>5, ZenonT(30)

\* A thread that exits leaves from its own call.
LEMMA ExitHolds ==
  ASSUME EntryInv, NEW t \in Threads, NEW u \in All, Exit(t, u) PROVE EntryInv'
<1> USE DEF EntryInv, Exit, At
<1>0. [mode EXCEPT ![t] = "dead"] \in [All -> Mode] /\ ~panic BY DEF Types
<1>4. SwapsPaired' /\ odd' \in BOOLEAN
  BY <1>0, SwitchPairs, ZenonT(30)
<1>1. Types'
  <2>1. cur' \in All /\ mode' \in [All -> Mode] /\ gs0' \in All \cup {Boot} /\ tss0' \in All \cup {Boot}
    BY <1>0, ZenonT(30) DEF Types, Switch
  <2> QED BY <1>4, <2>1, ZenonT(30) DEF Types
<1> USE DEF Switch
<1>2. CpuExact' BY DEF Types, CpuExact
<1>3. ScratchExact' /\ OwnKernelStack' BY DEF Types, ScratchExact, OwnKernelStack
<1>5. RestoredUnlessReentered' BY DEF Types, RestoredUnlessReentered
<1> QED BY <1>1, <1>2, <1>3, <1>4, <1>5, ZenonT(30)

\* A program that a fault ends leaves without swapgs.
LEMMA FaultHolds ==
  ASSUME EntryInv, NEW t \in Threads, NEW u \in All, Fault(t, u) PROVE EntryInv'
<1> USE DEF EntryInv, Fault, At
<1>0. [mode EXCEPT ![t] = "dead"] \in [All -> Mode] /\ ~panic BY DEF Types
<1>4. SwapsPaired' /\ odd' \in BOOLEAN
  BY <1>0, SwitchPairs, ZenonT(30)
<1>1. Types'
  <2>1. cur' \in All /\ mode' \in [All -> Mode] /\ gs0' \in All \cup {Boot} /\ tss0' \in All \cup {Boot}
    BY <1>0, ZenonT(30) DEF Types, Switch
  <2> QED BY <1>4, <2>1, ZenonT(30) DEF Types
<1> USE DEF Switch
<1>2. CpuExact' BY DEF Types, CpuExact
<1>3. ScratchExact' /\ OwnKernelStack' BY DEF Types, ScratchExact, OwnKernelStack
<1>5. RestoredUnlessReentered' BY DEF Types, RestoredUnlessReentered
<1> QED BY <1>1, <1>2, <1>3, <1>4, <1>5, ZenonT(30)

\* Every step keeps the invariant.
LEMMA StepHolds == EntryInv /\ [EntryNext]_entryVars => EntryInv'
<1> SUFFICES ASSUME EntryInv, [EntryNext]_entryVars PROVE EntryInv' OBVIOUS
<1>1. CASE UNCHANGED entryVars
  BY <1>1, ZenonT(30) DEF entryVars, EntryInv, Types, CpuExact, ScratchExact, OwnKernelStack, SwapsPaired,
    RestoredUnlessReentered
<1>2. CASE EntryNext
  BY <1>2, EnterHolds, RunHolds, EntryHolds, SysretHolds, GateHolds, IretHolds, SpawnHolds, YieldHolds,
    ExitHolds, FaultHolds, ZenonT(30) DEF EntryNext
<1> QED BY <1>1, <1>2, ZenonT(30)

\* The invariant holds in every state.
LEMMA EntryInvariance == EntrySpec => []EntryInv
<1>1. EntryInit => EntryInv BY InitHolds
<1>2. EntryInv /\ [EntryNext]_entryVars => EntryInv' BY StepHolds
<1> QED BY <1>1, <1>2, PTL DEF EntrySpec

\* A system call runs on the kernel stack of its own thread, for any number of
\* threads (cpu_set_kernel_stack in arch_thread_switch).
THEOREM StackSafety == EntrySpec => []OwnKernelStack
<1>1. EntryInv => OwnKernelStack BY DEF EntryInv
<1> QED BY <1>1, EntryInvariance, PTL

\* The GS base is right after every even number of crossings between threads
\* with and without swapgs and wrong after every odd one, on every way into and
\* out of the kernel; with no fault and no int 0x80 it is always right.
THEOREM GsSafety == EntrySpec => []SwapsPaired
<1>1. EntryInv => SwapsPaired BY DEF EntryInv
<1> QED BY <1>1, EntryInvariance, PTL

\* The user stack pointer kept at gs:8 comes back to every program that was
\* alone in the kernel during its calls.
THEOREM ScratchSafety == EntrySpec => []RestoredUnlessReentered
<1>1. EntryInv => RestoredUnlessReentered BY DEF EntryInv
<1> QED BY <1>1, EntryInvariance, PTL

HIDE EntryAssumption DEF All, Depth, Mode

-----------------------------------------------------------------------------
(* The sector cache does not show: for any number of sectors and entries,  *)
(* and any pattern of failed transfers, block_read and block_write behave  *)
(* as reads and writes of the device, but for a sector whose last write    *)
(* the drive dropped: there the cache holds what was written.              *)

CONSTANT Content      \* what a sector can hold

Entry == {NoEntry} \cup [valid : {TRUE}, lba : Nat, data : Content]

State == [dev : {"ramdisk", "ata"}, disk : [Sector -> Content], cache : [Slot -> Entry],
          faults : Nat, up : BOOLEAN, misread : BOOLEAN,
          lost : SUBSET Sector, dropped : SUBSET Sector]

USE BlockAssumption

\* Every sector has a slot of the cache.
LEMMA SlotOf == ASSUME NEW lba \in Nat PROVE lba % CacheEntries \in Slot
BY DEF Slot

\* block_cache_store writes one entry and nothing else.
LEMMA StoreFields ==
  ASSUME NEW s \in State, NEW lba \in Nat, NEW data \in Content
  PROVE  LET t == block_cache_store(s, lba, data)
         IN  /\ t \in State
             /\ t.disk = s.disk /\ t.lost = s.lost
             /\ t.cache[lba % CacheEntries] = [valid |-> TRUE, lba |-> lba, data |-> data]
             /\ \A i \in Slot : i # lba % CacheEntries => t.cache[i] = s.cache[i]
BY SlotOf, Zenon DEF State, Entry, block_cache_store

\* Storing what the disk holds keeps the cache coherent.
LEMMA StoreCoherent ==
  ASSUME NEW s \in State, NEW lba \in Sector, Coherent(s)
  PROVE  /\ block_cache_store(s, lba, s.disk[lba]) \in State
         /\ block_cache_store(s, lba, s.disk[lba]).disk = s.disk
         /\ block_cache_store(s, lba, s.disk[lba]).lost = s.lost
         /\ Coherent(block_cache_store(s, lba, s.disk[lba]))
<1> DEFINE t == block_cache_store(s, lba, s.disk[lba])
<1>1. lba \in Nat /\ s.disk[lba] \in Content BY DEF Sector, State
<1>2. /\ t \in State
      /\ t.disk = s.disk /\ t.lost = s.lost
      /\ t.cache[lba % CacheEntries] = [valid |-> TRUE, lba |-> lba, data |-> s.disk[lba]]
      /\ \A i \in Slot : i # lba % CacheEntries => t.cache[i] = s.cache[i]
  BY <1>1, StoreFields, ZenonT(30)
<1> HIDE DEF t
<1>3. Coherent(t) BY <1>2 DEF Coherent
<1> QED BY <1>2, <1>3, ZenonT(30) DEF t

\* t differs from s in no sector and no entry.
Kept(s, t) == t \in State /\ t.disk = s.disk /\ t.cache = s.cache /\ t.lost = s.lost

\* t has the sector lba of s written, or dropped by the drive.
Wrote(s, t, lba, data) ==
  t.disk = [s.disk EXCEPT ![lba] = data] /\ t.lost \in {s.lost, s.lost \ {lba}}
Lost(s, t, lba) == s.dev = "ata" /\ t.disk = s.disk /\ t.lost = s.lost \cup {lba}
Sent(s, t, lba, data) == Wrote(s, t, lba, data) \/ Lost(s, t, lba)

\* A failure of the drive or of the power changes neither disk nor cache.
LEMMA FaultKeeps ==
  ASSUME NEW s \in State, NEW t \in ata_poll(s) \cup PowerFails(s)
  PROVE  Kept(s, t)
<1>1. /\ s.faults > 0
      /\ \/ t = [s EXCEPT !.faults = @ - 1]
         \/ t = [s EXCEPT !.faults = @ - 1, !.up = FALSE]
  BY ZenonT(30) DEF ata_poll, PowerFails
<1>2. s.faults - 1 \in Nat BY <1>1 DEF State
<1> QED BY <1>1, <1>2, Zenon DEF State, Kept

\* Either driver returns the sector, or fails and changes nothing.
LEMMA DevReadResult ==
  ASSUME NEW s \in State, NEW lba \in Nat, NEW r \in DevRead(s, lba)
  PROVE  \/ \E t : Kept(s, t) /\ r = Fail(t)
         \/ lba \in Sector /\ r = [s |-> s, rc |-> 0, data |-> s.disk[lba]]
<1>1. Kept(s, s) BY DEF Kept
<1> QED BY <1>1, FaultKeeps, ZenonT(30) DEF DevRead, ata_read, ramdisk_read

\* Either driver writes the sector, or fails and changes nothing; the drive of
\* ata.c may also drop it.
LEMMA DevWriteResult ==
  ASSUME NEW s \in State, NEW lba \in Nat, NEW data \in Content, NEW r \in DevWrite(s, lba, data)
  PROVE  \/ \E t : Kept(s, t) /\ r = Fail(t)
         \/ \E t \in State :
           r = [s |-> t, rc |-> 0] /\ lba \in Sector /\ t.cache = s.cache /\ Sent(s, t, lba, data)
<1>1. Kept(s, s) BY DEF Kept
<1>2. CASE r \in {Fail(t) : t \in {s} \cup ata_poll(s) \cup PowerFails(s)}
  BY <1>1, <1>2, FaultKeeps, ZenonT(30)
<1>3. CASE lba \in Sector /\ r = [s |-> [s EXCEPT !.disk[lba] = data], rc |-> 0]
  <2> DEFINE t == [s EXCEPT !.disk[lba] = data]
  <2>1. t \in State /\ t.cache = s.cache /\ Wrote(s, t, lba, data)
    BY <1>3, ZenonT(30) DEF State, Wrote
  <2> QED BY <1>3, <2>1, ZenonT(30) DEF Sent
<1>4. CASE lba \in Sector /\ r = [s |-> [s EXCEPT !.disk[lba] = data, !.lost = @ \ {lba}], rc |-> 0]
  <2> DEFINE t == [s EXCEPT !.disk[lba] = data, !.lost = @ \ {lba}]
  <2>1. s.lost \ {lba} \in SUBSET Sector BY ZenonT(30) DEF State
  <2>2. t \in State /\ t.cache = s.cache /\ Wrote(s, t, lba, data)
    BY <1>4, <2>1, ZenonT(30) DEF State, Wrote
  <2> QED BY <1>4, <2>2, ZenonT(30) DEF Sent
<1>5. CASE lba \in Sector /\ s.dev = "ata" /\ r \in {[s |-> t, rc |-> 0] : t \in Dropped(s, lba)}
  <2>1. PICK u \in ata_poll(s) :
          r = [s |-> [u EXCEPT !.lost = @ \cup {lba}, !.dropped = @ \cup {lba}], rc |-> 0]
    BY <1>5, ZenonT(30) DEF Dropped
  <2> DEFINE t == [u EXCEPT !.lost = @ \cup {lba}, !.dropped = @ \cup {lba}]
  <2>2. u \in State /\ u.disk = s.disk /\ u.cache = s.cache /\ u.lost = s.lost
    BY FaultKeeps, ZenonT(30) DEF Kept
  <2>3. u.lost \cup {lba} \in SUBSET Sector /\ u.dropped \cup {lba} \in SUBSET Sector
    BY <1>5, <2>2, ZenonT(30) DEF State
  <2>4. t \in State /\ t.cache = s.cache /\ Lost(s, t, lba)
    BY <1>5, <2>2, <2>3, ZenonT(30) DEF State, Lost
  <2> QED BY <1>5, <2>1, <2>4, ZenonT(30) DEF Sent
<1> QED BY <1>2, <1>3, <1>4, <1>5, ZenonT(30) DEF DevWrite, ata_write, ramdisk_write

\* A read that succeeds returns the sector on the device, from the cache or
\* not, unless the drive dropped its last write; no read changes the device or
\* leaves a stale entry.
THEOREM ReadTransparent ==
  ASSUME NEW s \in State, Coherent(s), NEW lba \in Nat, NEW r \in block_read(s, lba)
  PROVE  /\ r.s \in State /\ Coherent(r.s) /\ r.s.disk = s.disk /\ r.s.lost = s.lost
         /\ r.rc = 0 => lba \in Sector /\ (lba \notin s.lost => r.data = s.disk[lba])
<1>1. CASE ~s.up BY <1>1 DEF block_read, Fail
<1>2. CASE s.up /\ block_cache_lookup(s, lba)
  <2>1. r = [s |-> s, rc |-> 0, data |-> s.cache[lba % CacheEntries].data]
    BY <1>2, ZenonT(30) DEF block_read
  <2>2. lba \in Sector /\ (lba \notin s.lost => s.cache[lba % CacheEntries].data = s.disk[lba])
    BY <1>2, SlotOf, ZenonT(30) DEF block_cache_lookup, Coherent
  <2> QED BY <2>1, <2>2, ZenonT(30)
<1>3. CASE s.up /\ ~block_cache_lookup(s, lba)
  <2>1. CASE \E t : Kept(s, t) /\ r = Fail(t)
    BY <2>1 DEF Fail, Coherent, Kept
  <2>2. CASE lba \in Sector
             /\ r = [s |-> block_cache_store(s, lba, s.disk[lba]), rc |-> 0,
                     data |-> s.disk[lba]]
    <3>1. /\ block_cache_store(s, lba, s.disk[lba]) \in State
          /\ block_cache_store(s, lba, s.disk[lba]).disk = s.disk
          /\ block_cache_store(s, lba, s.disk[lba]).lost = s.lost
          /\ Coherent(block_cache_store(s, lba, s.disk[lba]))
      BY <2>2, StoreCoherent, ZenonT(30)
    <3> QED BY <2>2, <3>1, ZenonT(30)
  <2>3. \/ \E t : Kept(s, t) /\ r = Fail(t)
        \/ lba \in Sector /\ r = [s |-> block_cache_store(s, lba, s.disk[lba]), rc |-> 0,
                                  data |-> s.disk[lba]]
    <3>1. PICK o \in DevRead(s, lba) :
            r = IF o.rc # 0 THEN o
                ELSE [s |-> block_cache_store(o.s, lba, o.data), rc |-> 0, data |-> o.data]
      BY <1>3, ZenonT(30) DEF block_read
    <3> QED BY <3>1, DevReadResult DEF Fail
  <2> QED BY <2>1, <2>2, <2>3, ZenonT(30)
<1> QED BY <1>1, <1>2, <1>3, ZenonT(30)

\* A write that fails changes no sector of the device.  One that returns 0
\* changes its own and no other, or is one that the drive of ata.c dropped, and
\* then the sector counts as lost: the cache is stale there and nowhere else.
\* Either way the next read of it finds the data that was written.
THEOREM WriteThrough ==
  ASSUME NEW s \in State, Coherent(s), NEW lba \in Nat, NEW data \in Content,
         NEW r \in block_write(s, lba, data)
  PROVE  /\ r.s \in State /\ Coherent(r.s)
         /\ r.rc = 0 => /\ lba \in Sector
                        /\ Wrote(s, r.s, lba, data) \/ Lost(s, r.s, lba)
                        /\ block_cache_lookup(r.s, lba)
                        /\ r.s.cache[lba % CacheEntries].data = data
         /\ r.rc # 0 => r.s.disk = s.disk /\ r.s.lost = s.lost
<1>1. CASE ~s.up BY <1>1 DEF block_write, Fail
<1>2. CASE s.up /\ \E t : Kept(s, t) /\ r = Fail(t)
  BY <1>2 DEF Fail, Coherent, Kept
<1>3. CASE s.up /\ \E w \in State :
          /\ r = [s |-> block_cache_store(w, lba, data), rc |-> 0]
          /\ lba \in Sector /\ w.cache = s.cache /\ Sent(s, w, lba, data)
  <2>1. PICK w \in State :
          /\ r = [s |-> block_cache_store(w, lba, data), rc |-> 0]
          /\ lba \in Sector /\ w.cache = s.cache /\ Sent(s, w, lba, data)
    BY <1>3, ZenonT(30)
  <2> DEFINE t == block_cache_store(w, lba, data)
  <2>2. /\ t \in State /\ t.disk = w.disk /\ t.lost = w.lost
        /\ t.cache[lba % CacheEntries] = [valid |-> TRUE, lba |-> lba, data |-> data]
        /\ \A i \in Slot : i # lba % CacheEntries => t.cache[i] = w.cache[i]
    BY StoreFields
  <2>3. r.s = t /\ r.rc = 0 BY <2>1
  <2> HIDE DEF t
  <2>4. Wrote(s, t, lba, data) \/ Lost(s, t, lba)
    BY <2>1, <2>2, ZenonT(30) DEF Sent, Wrote, Lost
  <2>5. lba \in t.lost \/ t.disk[lba] = data
    BY <2>1, <2>4, ZenonT(30) DEF Wrote, Lost, State
  <2>6. ASSUME NEW x \in Sector, x # lba, x \notin t.lost
        PROVE  x \notin s.lost /\ t.disk[x] = s.disk[x]
    BY <2>4, <2>6 DEF Wrote, Lost, State
  <2>7. Coherent(t)
    <3> SUFFICES ASSUME NEW i \in Slot, t.cache[i].valid
                 PROVE  /\ t.cache[i].lba \in Sector
                        /\ t.cache[i].lba % CacheEntries = i
                        /\ t.cache[i].lba \notin t.lost => t.cache[i].data = t.disk[t.cache[i].lba]
      BY ZenonT(30) DEF Coherent
    <3>1. CASE i = lba % CacheEntries BY <2>1, <2>2, <2>5, <3>1
    <3>2. CASE i # lba % CacheEntries
      <4>1. s.cache[i].valid /\ t.cache[i] = s.cache[i] BY <2>1, <2>2, <3>2
      <4>2. /\ s.cache[i].lba \in Sector /\ s.cache[i].lba % CacheEntries = i
            /\ s.cache[i].lba \notin s.lost => s.cache[i].data = s.disk[s.cache[i].lba]
        BY <4>1, ZenonT(30) DEF Coherent
      <4>3. s.cache[i].lba # lba BY <3>2, <4>2
      <4> QED BY <2>6, <4>1, <4>2, <4>3, ZenonT(30)
    <3> QED BY <3>1, <3>2, ZenonT(30)
  <2>8. block_cache_lookup(t, lba) /\ t.cache[lba % CacheEntries].data = data
    BY <2>2 DEF block_cache_lookup
  <2> QED BY <2>1, <2>2, <2>3, <2>4, <2>7, <2>8, ZenonT(30)
<1>4. CASE s.up
  <2>1. PICK o \in DevWrite(s, lba, data) :
          r = IF o.rc # 0 THEN o ELSE [s |-> block_cache_store(o.s, lba, data), rc |-> 0]
    BY <1>4, ZenonT(30) DEF block_write
  <2>2. CASE \E t : Kept(s, t) /\ o = Fail(t)
    <3>1. r = o BY <2>1, <2>2 DEF Fail
    <3> QED BY <1>2, <1>4, <2>2, <3>1, ZenonT(30)
  <2>3. CASE \E t \in State :
           o = [s |-> t, rc |-> 0] /\ lba \in Sector /\ t.cache = s.cache /\ Sent(s, t, lba, data)
    <3>1. PICK t \in State :
           o = [s |-> t, rc |-> 0] /\ lba \in Sector /\ t.cache = s.cache /\ Sent(s, t, lba, data)
      BY <2>3, ZenonT(30)
    <3>2. o.rc = 0 /\ o.s = t BY <3>1
    <3>3. r = [s |-> block_cache_store(t, lba, data), rc |-> 0] BY <2>1, <3>2, ZenonT(30)
    <3> QED BY <1>3, <1>4, <3>1, <3>3, ZenonT(30)
  <2> QED BY <2>2, <2>3, DevWriteResult, ZenonT(30)
<1> QED BY <1>1, <1>4, ZenonT(30)

-----------------------------------------------------------------------------
(* Pipe for a ring of any size, any number of readers and writers, and     *)
(* transfers of any length: the ring is type correct and implements        *)
(* ByteStream.  First the arithmetic of the ring.                          *)

\* Sequences with the same elements are the same.
LEMMA SameSeq ==
  ASSUME NEW S, NEW s \in Seq(S), NEW t \in Seq(S), Len(s) = Len(t),
         \A i \in 1..Len(s) : s[i] = t[i]
  PROVE  s = t
  OBVIOUS

\* What is in two sequences, one after the other.
LEMMA Joined ==
  ASSUME NEW S, NEW s \in Seq(S), NEW t \in Seq(S)
  PROVE  /\ s \o t \in Seq(S) /\ Len(s \o t) = Len(s) + Len(t)
         /\ \A i \in 1..Len(s) + Len(t) :
              (s \o t)[i] = IF i <= Len(s) THEN s[i] ELSE t[i - Len(s)]
  OBVIOUS

\* A position moved on by at most the size of the ring wraps at most once.
LEMMA Forward ==
  ASSUME NEW a \in 0..Size - 1, NEW n \in 0..Size
  PROVE  (a + n) % Size = IF a + n < Size THEN a + n ELSE a + n - Size
BY PipeAssumption

\* The distance from position a to position i, going forward.
LEMMA Distance ==
  ASSUME NEW a \in 0..Size - 1, NEW i \in 0..Size - 1
  PROVE  (i - a) % Size = IF i >= a THEN i - a ELSE i - a + Size
BY PipeAssumption

\* Going forward in two stretches is going forward once.
LEMMA TwoStretches ==
  ASSUME NEW r \in 0..Size - 1, NEW m \in 0..Size, NEW n \in 0..Size, m + n <= Size
  PROVE  /\ (r + m) % Size \in 0..Size - 1
         /\ (((r + m) % Size) + n) % Size = (r + (m + n)) % Size
<1> DEFINE w == (r + m) % Size
<1>1. Size \in Nat \ {0} /\ m + n \in 0..Size
  BY PipeAssumption
<1>2. w = IF r + m < Size THEN r + m ELSE r + m - Size
  BY Forward, ZenonT(30)
<1>3. (r + (m + n)) % Size = IF r + (m + n) < Size THEN r + (m + n) ELSE r + (m + n) - Size
  BY <1>1, Forward, ZenonT(30)
<1> HIDE DEF w
<1>4. w \in 0..Size - 1
  BY <1>1, <1>2
<1>5. (w + n) % Size = IF w + n < Size THEN w + n ELSE w + n - Size
  BY <1>4, Forward, ZenonT(30)
<1>6. (w + n) % Size = (r + (m + n)) % Size
  BY <1>1, <1>2, <1>3, <1>5
<1> QED
  BY <1>4, <1>6, ZenonT(30) DEF w

-----------------------------------------------------------------------------
(* The inductive invariant. *)

\* A thread is in a call of its own kind, and its end is open meanwhile.
CallsOpen ==
  /\ \A t \in Readers : /\ call[t] \in {"none", "read"}
                        /\ call[t] = "read" => readers > 0 /\ len[t] > 0
  /\ \A t \in Writers : /\ call[t] \in {"none", "write"}
                        /\ call[t] = "write" => writers > 0

IInv == TypeOK /\ CallsOpen

\* What a writer may offer is a sequence of 1 to MaxLen bytes.
LEMMA DataFacts ==
  /\ \A s \in Data : s \in Seq(Byte) /\ Len(s) \in 1..MaxLen /\ s # <<>>
  /\ \A s \in Seq(Byte) : Len(s) \in 1..MaxLen => s \in Data
<1>1. \A s \in Data : s \in Seq(Byte) /\ Len(s) \in 1..MaxLen /\ s # <<>>
  <2>1. TAKE s \in Data
  <2>2. PICK n \in 1..MaxLen : s \in [1..n -> Byte]
    BY <2>1, ZenonT(30) DEF Data
  <2>3. s \in Seq(Byte) /\ Len(s) = n
    BY <2>2, PipeAssumption
  <2> QED
    BY <2>3, PipeAssumption
<1>2. \A s \in Seq(Byte) : Len(s) \in 1..MaxLen => s \in Data
  BY PipeAssumption DEF Data
<1> QED
  BY <1>1, <1>2, ZenonT(30)

\* pipe_create leaves an empty ring with both ends open.
LEMMA InitIInv == Init => IInv
<1> SUFFICES ASSUME Init PROVE IInv
  BY ZenonT(30)
<1>1. write_pos = (read_pos + used) % Size
  BY Forward, PipeAssumption DEF Init
<1>2. buffer \in [0..Size - 1 -> Byte]
  BY ZenonT(30) DEF Init
<1>3. /\ read_pos \in 0..Size - 1 /\ write_pos \in 0..Size - 1 /\ used \in 0..Size
      /\ readers \in 0..1 /\ writers \in 0..1
  BY PipeAssumption DEF Init
<1>4. /\ call \in [Thread -> {"none", "read", "write"}]
      /\ todo \in [Writers -> Data \cup {<<>>}]
      /\ \A t \in Writers : todo[t] = <<>> <=> call[t] = "none"
  BY ZenonT(30) DEF Init, Thread
<1>6. len \in [Readers -> 0..MaxLen]
  BY PipeAssumption DEF Init
<1>7. eof \in BOOLEAN
  BY ZenonT(30) DEF Init
<1>5. CallsOpen
  BY ZenonT(30) DEF Init, CallsOpen, Thread
<1> QED
  BY <1>1, <1>2, <1>3, <1>4, <1>5, <1>6, <1>7, ZenonT(30) DEF IInv, TypeOK

-----------------------------------------------------------------------------
(* The ring as a sequence: u bytes of buffer b from position r on. *)

Ring(b, r, u) == [i \in 1..u |-> b[(r + i - 1) % Size]]

\* The buffer after Store of the first n bytes of s at position w.
Filled(b, w, s, n) ==
  [i \in 0..Size - 1 |-> LET j == (i - w) % Size IN IF j < n THEN s[j + 1] ELSE b[i]]

\* What the invariant says of the numbers of the ring.
LEMMA RingFacts ==
  ASSUME NEW b \in [0..Size - 1 -> Byte], NEW r \in 0..Size - 1, NEW u \in 0..Size
  PROVE  /\ Ring(b, r, u) \in Seq(Byte) /\ Len(Ring(b, r, u)) = u
         /\ \A i \in 1..u : Ring(b, r, u)[i] = b[(r + i - 1) % Size]
<1>1. \A i \in 1..u : (r + i - 1) % Size \in 0..Size - 1
  BY PipeAssumption
<1>2. Ring(b, r, u) \in [1..u -> Byte]
  BY <1>1, ZenonT(30) DEF Ring
<1>3. u \in Nat
  BY PipeAssumption
<1>4. Ring(b, r, u) \in Seq(Byte) /\ Len(Ring(b, r, u)) = u
  BY <1>2, <1>3
<1>5. \A i \in 1..u : Ring(b, r, u)[i] = b[(r + i - 1) % Size]
  BY ZenonT(30) DEF Ring
<1> QED
  BY <1>4, <1>5, ZenonT(30)

\* Moving the read position by n bytes takes the first n of them away.
LEMMA TakeAway ==
  ASSUME NEW b \in [0..Size - 1 -> Byte], NEW r \in 0..Size - 1,
         NEW u \in 0..Size, NEW n \in 1..u
  PROVE  Ring(b, (r + n) % Size, u - n) = SubSeq(Ring(b, r, u), n + 1, u)
<1> DEFINE q == Ring(b, r, u)
           r2 == (r + n) % Size
           p == Ring(b, r2, u - n)
           rest == SubSeq(q, n + 1, u)
<1>1. Size \in Nat \ {0} /\ u - n \in 0..Size /\ n \in 1..Size
  BY PipeAssumption
<1>2. r2 \in 0..Size - 1 /\ r2 = IF r + n < Size THEN r + n ELSE r + n - Size
  <2>1. n \in 0..Size
    BY <1>1
  <2>2. r2 = IF r + n < Size THEN r + n ELSE r + n - Size
    BY <2>1, Forward, ZenonT(30)
  <2> QED
    BY <1>1, <2>1, <2>2
<1>3. q \in Seq(Byte) /\ Len(q) = u /\ \A i \in 1..u : q[i] = b[(r + i - 1) % Size]
  BY RingFacts, ZenonT(30)
<1> HIDE DEF q, r2
<1>4. /\ p \in Seq(Byte) /\ Len(p) = u - n
      /\ \A i \in 1..u - n : p[i] = b[(r2 + i - 1) % Size]
  BY RingFacts, <1>1, <1>2, ZenonT(30)
<1> HIDE DEF p
<1>5. \A i \in n + 1..u : q[i] \in Byte
  BY <1>3, <1>1
<1>6. /\ rest \in Seq(Byte) /\ Len(rest) = u - n
      /\ \A i \in 1..u - n : rest[i] = q[n + i]
  <2>1. n + 1 \in Int /\ u \in Int
    BY <1>1
  <2>2. /\ rest \in Seq(Byte)
        /\ Len(rest) = IF n + 1 <= u THEN u - (n + 1) + 1 ELSE 0
        /\ \A i \in 1..u - (n + 1) + 1 : rest[i] = q[n + 1 + i - 1]
    BY <1>5, <2>1
  <2> HIDE DEF rest
  <2> QED
    BY <2>2, <1>1
<1> HIDE DEF rest
<1>7. ASSUME NEW i \in 1..u - n PROVE p[i] = rest[i]
  <2>1. (r2 + (i - 1)) % Size = (r + (n + i - 1)) % Size
    <3>1. /\ i - 1 \in 0..Size /\ n + i - 1 \in 0..Size
      BY <1>1
    <3>2. (r2 + (i - 1)) % Size = IF r2 + (i - 1) < Size THEN r2 + (i - 1)
                                  ELSE r2 + (i - 1) - Size
      BY <3>1, <1>2, Forward, SMTT(30)
    <3>3. (r + (n + i - 1)) % Size = IF r + (n + i - 1) < Size THEN r + (n + i - 1)
                                     ELSE r + (n + i - 1) - Size
      BY <3>1, Forward, ZenonT(30)
    <3> QED
      BY <3>2, <3>3, <1>1, <1>2
  <2>2. n + i \in 1..u /\ r2 + i - 1 = r2 + (i - 1) /\ r + (n + i) - 1 = r + (n + i - 1)
    BY <1>1, <1>2
  <2>3. p[i] = b[(r2 + (i - 1)) % Size] /\ q[n + i] = b[(r + (n + i - 1)) % Size]
    BY <1>3, <1>4, <2>2, ZenonT(30)
  <2> QED
    BY <2>1, <2>3, <1>6, ZenonT(30)
<1> QED
  BY <1>4, <1>6, <1>7 DEF p, rest, q, r2

\* Where the i-th byte of a ring lies, as seen from its write position: the u
\* bytes of the ring at the end of the way round, the next ones at its start.
LEMMA Places ==
  ASSUME NEW r \in 0..Size - 1, NEW u \in 0..Size - 1, NEW n \in 1..Size - u,
         NEW i \in 1..u + n
  PROVE  /\ (r + i - 1) % Size \in 0..Size - 1
         /\ i <= u => (((r + i - 1) % Size) - ((r + u) % Size)) % Size >= n
         /\ i > u => (((r + i - 1) % Size) - ((r + u) % Size)) % Size = i - u - 1
<1> DEFINE at == (r + (i - 1)) % Size
           w == (r + u) % Size
<1>1. Size \in Nat \ {0} /\ i - 1 \in 0..Size /\ u \in 0..Size /\ n \in 1..Size
  BY PipeAssumption
<1>2. at = IF r + (i - 1) < Size THEN r + (i - 1) ELSE r + (i - 1) - Size
  BY <1>1, Forward, ZenonT(30)
<1>3. w = IF r + u < Size THEN r + u ELSE r + u - Size
  BY <1>1, Forward, ZenonT(30)
<1>4. r + i - 1 = r + (i - 1)
  BY <1>1, ZenonT(30)
<1> HIDE DEF at, w
<1>5. at \in 0..Size - 1 /\ w \in 0..Size - 1
  BY <1>1, <1>2, <1>3
<1>6. (at - w) % Size = IF at >= w THEN at - w ELSE at - w + Size
  BY <1>5, Distance, ZenonT(30)
<1>7. /\ i <= u => (at - w) % Size >= n
      /\ i > u => (at - w) % Size = i - u - 1
  BY <1>1, <1>2, <1>3, <1>6
<1> QED
  BY <1>4, <1>5, <1>7, ZenonT(30) DEF at, w

\* n bytes of s fit into a ring that holds u bytes from r on ...
Fits(b, r, u, s, n) ==
  /\ b \in [0..Size - 1 -> Byte] /\ r \in 0..Size - 1 /\ u \in 0..Size - 1
  /\ s \in Seq(Byte) /\ n \in 1..Len(s) /\ u + n <= Size

\* ... and pipe_write_impl puts them behind those.
Puts(b, r, u, s, n) ==
  LET c == Filled(b, (r + u) % Size, s, n)
  IN  /\ c \in [0..Size - 1 -> Byte]
      /\ Ring(c, r, u + n) = Ring(b, r, u) \o SubSeq(s, 1, n)

\* Storing n bytes at the write position appends them.
LEMMA PutIn ==
  ASSUME NEW b, NEW r, NEW u, NEW s, NEW n, Fits(b, r, u, s, n)
  PROVE  Puts(b, r, u, s, n)
<1>0. /\ b \in [0..Size - 1 -> Byte] /\ r \in 0..Size - 1 /\ u \in 0..Size - 1
      /\ s \in Seq(Byte) /\ n \in 1..Len(s) /\ u + n <= Size
  BY Zenon DEF Fits
<1> USE <1>0
<1> DEFINE w == (r + u) % Size
           c == Filled(b, w, s, n)
           q == Ring(b, r, u)
           p == Ring(c, r, u + n)
           x == SubSeq(s, 1, n)
<1>1. /\ Size \in Nat \ {0} /\ u \in 0..Size /\ u + n \in 0..Size /\ n \in 1..Size - u
      /\ Len(s) \in Nat
  BY PipeAssumption
<1>2. w \in 0..Size - 1
  BY <1>1
<1>3. \A i \in 0..Size - 1 : (i - w) % Size \in 0..Size - 1
  BY <1>1, <1>2
<1>4. c \in [0..Size - 1 -> Byte]
  BY <1>1, <1>3 DEF Filled
<1>5. \A i \in 0..Size - 1 : c[i] = IF (i - w) % Size < n THEN s[((i - w) % Size) + 1] ELSE b[i]
  BY ZenonT(30) DEF Filled
<1>6. q \in Seq(Byte) /\ Len(q) = u /\ \A i \in 1..u : q[i] = b[(r + i - 1) % Size]
  BY <1>1, RingFacts, ZenonT(30)
<1> HIDE DEF q, c
<1>7. /\ p \in Seq(Byte) /\ Len(p) = u + n
      /\ \A i \in 1..u + n : p[i] = c[(r + i - 1) % Size]
  BY <1>1, <1>4, RingFacts, ZenonT(30)
<1> HIDE DEF p
<1>8. x \in Seq(Byte) /\ Len(x) = n /\ \A i \in 1..n : x[i] = s[i]
  <2>1. \A i \in 1..n : s[i] \in Byte
    BY <1>1
  <2>2. 1 \in Int /\ n \in Int
    BY <1>1
  <2>3. /\ x \in Seq(Byte) /\ Len(x) = IF 1 <= n THEN n - 1 + 1 ELSE 0
        /\ \A i \in 1..n - 1 + 1 : x[i] = s[1 + i - 1]
    BY <2>1, <2>2
  <2> HIDE DEF x
  <2> QED
    BY <2>3, <1>1
<1> HIDE DEF x, w
<1>9. /\ q \o x \in Seq(Byte) /\ Len(q \o x) = u + n
      /\ \A i \in 1..u + n : (q \o x)[i] = IF i <= u THEN q[i] ELSE x[i - u]
  BY <1>6, <1>8, Joined, ZenonT(30)
<1>10. ASSUME NEW i \in 1..u + n PROVE p[i] = (q \o x)[i]
  <2> DEFINE at == (r + i - 1) % Size
  <2>1. /\ at \in 0..Size - 1
        /\ i <= u => (at - w) % Size >= n
        /\ i > u => (at - w) % Size = i - u - 1
    BY <1>1, Places, ZenonT(30) DEF w
  <2>2. p[i] = c[at]
    BY <1>7, ZenonT(30)
  <2> HIDE DEF at
  <2>3. CASE i <= u
    <3>3. (at - w) % Size \in 0..Size - 1 /\ (at - w) % Size >= n
      BY <2>1, <2>3, <1>3, ZenonT(30)
    <3>4. ~((at - w) % Size < n)
      BY <3>3, <1>1
    <3>1. c[at] = b[at]
      BY <2>1, <3>4, <1>5, ZenonT(30)
    <3>2. i \in 1..u /\ q[i] = b[at]
      BY <2>3, <1>1, <1>6 DEF at
    <3> QED
      BY <2>2, <2>3, <3>1, <3>2, <1>9, ZenonT(30)
  <2>4. CASE i > u
    <3>1. i - u \in 1..n /\ i - u - 1 + 1 = i - u /\ i - u - 1 < n /\ ~(i <= u)
      BY <2>4, <1>1
    <3>2. c[at] = s[i - u]
      BY <2>1, <2>4, <1>5, <3>1, ZenonT(30)
    <3> QED
      BY <2>2, <3>1, <3>2, <1>8, <1>9, ZenonT(30)
  <2>5. i <= u \/ i > u
    BY <1>1
  <2> QED
    BY <2>3, <2>4, <2>5, ZenonT(30)
<1>11. p = q \o x
  BY <1>7, <1>9, <1>10, SameSeq, ZenonT(30)
<1> QED
  BY <1>4, <1>11, ZenonT(30) DEF p, q, x, c, w, Puts

-----------------------------------------------------------------------------
(* The steps: each keeps the invariant and is a step of the stream. *)

\* A call of pipe_read changes nothing that a reader or writer sees.
LEMMA ReadCallStep ==
  ASSUME IInv, NEW t \in Readers, NEW n \in 1..MaxLen, ReadCall(t, n)
  PROVE  IInv' /\ UNCHANGED Stream!streamVars
<1>1. t \in Thread /\ t \notin Writers /\ n \in 0..MaxLen /\ n > 0
  BY PipeAssumption DEF Thread
<1>2. UNCHANGED <<buffer, read_pos, write_pos, used, readers, writers, todo, eof>>
  BY ZenonT(30) DEF ReadCall, ring
<1>3. call' \in [Thread -> {"none", "read", "write"}] /\ len' \in [Readers -> 0..MaxLen]
  BY <1>1, ZenonT(30) DEF ReadCall, IInv, TypeOK
<1>4. \A w \in Writers : call'[w] = call[w]
  BY <1>1, ZenonT(30) DEF ReadCall, IInv, TypeOK, Thread
<1>5. CallsOpen'
  BY <1>1, <1>2, <1>4, ZenonT(30) DEF ReadCall, IInv, TypeOK, CallsOpen, Thread
<1>6. TypeOK'
  BY <1>2, <1>3, <1>4, ZenonT(30) DEF IInv, TypeOK
<1> QED
  BY <1>2, <1>5, <1>6, ZenonT(30) DEF IInv, Stream!streamVars, Contents

\* pipe_read on an empty pipe without writers reports the end of the stream.
LEMMA ReadEofStep ==
  ASSUME IInv, NEW t \in Readers, ReadEof(t)
  PROVE  IInv' /\ Stream!Eof
<1>1. t \in Thread /\ t \notin Writers /\ 0 \in 0..MaxLen
  BY PipeAssumption DEF Thread
<1>2. UNCHANGED <<buffer, read_pos, write_pos, used, readers, writers, todo>>
  BY ZenonT(30) DEF ReadEof, ring
<1>3. call' \in [Thread -> {"none", "read", "write"}] /\ len' \in [Readers -> 0..MaxLen]
  BY <1>1, ZenonT(30) DEF ReadEof, Return, IInv, TypeOK
<1>4. \A w \in Writers : call'[w] = call[w]
  BY <1>1, ZenonT(30) DEF ReadEof, Return, IInv, TypeOK, Thread
<1>5. CallsOpen'
  BY <1>1, <1>2, <1>4, ZenonT(30) DEF ReadEof, Return, IInv, TypeOK, CallsOpen, Thread
<1>6. eof' = TRUE
  BY ZenonT(30) DEF ReadEof
<1>7. TypeOK'
  BY <1>2, <1>3, <1>4, <1>6, ZenonT(30) DEF IInv, TypeOK
<1>8. readers > 0 /\ ~(writers > 0) /\ Contents = <<>>
  <2>1. readers > 0 /\ used = 0 /\ ~(writers > 0)
    BY DEF ReadEof, IInv, CallsOpen
  <2>2. Contents = <<>>
    BY <2>1 DEF Contents
  <2> QED
    BY <2>1, <2>2, ZenonT(30)
<1>9. Stream!Eof
  BY <1>2, <1>6, <1>8, ZenonT(30) DEF Stream!Eof, Contents
<1> QED
  BY <1>5, <1>7, <1>9, ZenonT(30) DEF IInv

\* pipe_read takes bytes from the head of the queue.
LEMMA ReadSomeStep ==
  ASSUME IInv, NEW t \in Readers, ReadSome(t)
  PROVE  IInv' /\ Stream!Receive
<1> DEFINE n == MinOf(len[t], used)
<1>1. t \in Thread /\ t \notin Writers /\ 0 \in 0..MaxLen /\ Size \in Nat \ {0}
  BY PipeAssumption DEF Thread
<1>2. UNCHANGED <<buffer, write_pos, readers, writers, todo, eof>>
  BY ZenonT(30) DEF ReadSome
<1>3. read_pos' = (read_pos + n) % Size /\ used' = used - n
  BY ZenonT(30) DEF ReadSome
<1>4. n \in 1..used /\ readers > 0
  BY <1>1, PipeAssumption DEF ReadSome, MinOf, IInv, TypeOK, CallsOpen
<1>5. call' \in [Thread -> {"none", "read", "write"}] /\ len' \in [Readers -> 0..MaxLen]
  BY <1>1, ZenonT(30) DEF ReadSome, Return, IInv, TypeOK
<1>6. \A w \in Writers : call'[w] = call[w]
  BY <1>1, ZenonT(30) DEF ReadSome, Return, IInv, TypeOK, Thread
<1>7. CallsOpen'
  BY <1>1, <1>2, <1>6, ZenonT(30) DEF ReadSome, Return, IInv, TypeOK, CallsOpen, Thread
<1> HIDE DEF n
<1>8. /\ read_pos' \in 0..Size - 1 /\ used' \in 0..Size
      /\ write_pos' = (read_pos' + used') % Size
  <2>1. /\ buffer \in [0..Size - 1 -> Byte] /\ read_pos \in 0..Size - 1 /\ used \in 0..Size
        /\ write_pos = (read_pos + used) % Size
    BY ZenonT(30) DEF IInv, TypeOK
  <2>2. n \in 0..Size /\ used - n \in 0..Size
    BY <1>1, <1>4, <2>1
  <2>3. (read_pos + n) % Size \in 0..Size - 1
    BY <2>1, <2>2, <1>1
  <2>4. (((read_pos + n) % Size) + (used - n)) % Size = (read_pos + (n + (used - n))) % Size
    <3>1. n + (used - n) <= Size
      BY <1>1, <1>4, <2>1
    <3> QED
      BY <2>1, <2>2, <3>1, TwoStretches, ZenonT(30)
  <2>5. n + (used - n) = used
    BY <1>1, <1>4, <2>1
  <2> QED
    BY <1>2, <1>3, <2>1, <2>2, <2>3, <2>4, <2>5, ZenonT(30)
<1>9. TypeOK'
  BY <1>2, <1>5, <1>6, <1>8, ZenonT(30) DEF IInv, TypeOK
<1>10. Contents' = SubSeq(Contents, n + 1, Len(Contents)) /\ n \in 1..Len(Contents)
  <2>1. /\ buffer \in [0..Size - 1 -> Byte] /\ read_pos \in 0..Size - 1 /\ used \in 0..Size
    BY ZenonT(30) DEF IInv, TypeOK
  <2>2. Contents = Ring(buffer, read_pos, used)
    BY ZenonT(30) DEF Contents, Ring
  <2>3. Contents' = Ring(buffer, (read_pos + n) % Size, used - n)
    BY <1>2, <1>3, ZenonT(30) DEF Contents, Ring
  <2>4. Len(Contents) = used
    BY <2>1, <2>2, RingFacts, ZenonT(30)
  <2> QED
    BY <1>4, <2>1, <2>2, <2>3, <2>4, TakeAway
<1>11. Stream!Receive
  BY <1>2, <1>4, <1>10, ZenonT(30) DEF Stream!Receive
<1> QED
  BY <1>7, <1>9, <1>11, ZenonT(30) DEF IInv

\* A call of pipe_write offers its bytes.
LEMMA WriteCallStep ==
  ASSUME IInv, NEW t \in Writers, NEW s \in Data, WriteCall(t, s)
  PROVE  IInv' /\ (UNCHANGED Stream!streamVars \/ Stream!Offer(t))
<1>1. UNCHANGED <<buffer, read_pos, write_pos, used, readers, writers, len, eof>>
  BY ZenonT(30) DEF WriteCall, ring
<1>2. CASE readers = 0
  <2>1. UNCHANGED <<call, todo>>
    BY <1>2, ZenonT(30) DEF WriteCall
  <2>2. IInv'
    BY <1>1, <2>1, ZenonT(30) DEF IInv, TypeOK, CallsOpen
  <2> QED
    BY <1>1, <2>1, <2>2, ZenonT(30) DEF Stream!streamVars, Contents
<1>3. CASE readers # 0
  <2>1. t \in Thread /\ t \notin Readers /\ s # <<>>
    BY PipeAssumption, DataFacts, ZenonT(30) DEF Thread
  <2>2. /\ call' = [call EXCEPT ![t] = "write"] /\ todo' = [todo EXCEPT ![t] = s]
        /\ writers > 0 /\ call[t] = "none"
    BY <1>3, ZenonT(30) DEF WriteCall
  <2>3. /\ call' \in [Thread -> {"none", "read", "write"}]
        /\ todo' \in [Writers -> Data \cup {<<>>}]
    BY <2>1, <2>2, ZenonT(30) DEF IInv, TypeOK
  <2>4. \A w \in Writers : todo'[w] = <<>> <=> call'[w] = "none"
    BY <2>1, <2>2, ZenonT(30) DEF IInv, TypeOK, Thread
  <2>5. CallsOpen'
    BY <1>1, <2>1, <2>2, ZenonT(30) DEF IInv, TypeOK, CallsOpen, Thread
  <2>6. TypeOK'
    BY <1>1, <2>3, <2>4, ZenonT(30) DEF IInv, TypeOK
  <2>7. readers > 0 /\ todo[t] = <<>>
    BY <1>3, <2>2 DEF IInv, TypeOK
  <2>8. \E n \in 1..MaxLen : \E d \in [1..n -> Byte] : todo' = [todo EXCEPT ![t] = d]
    BY <2>2, ZenonT(30) DEF Data
  <2>9. Stream!Offer(t)
    BY <1>1, <2>2, <2>7, <2>8, ZenonT(30) DEF Stream!Offer, Contents
  <2> QED
    BY <2>5, <2>6, <2>9, ZenonT(30) DEF IInv
<1> QED
  BY <1>2, <1>3, ZenonT(30)

\* pipe_write on a pipe without readers gives the rest of its bytes up.
LEMMA WriteBrokenStep ==
  ASSUME IInv, NEW t \in Writers, WriteBroken(t)
  PROVE  IInv' /\ Stream!GiveUp(t)
<1>1. t \in Thread /\ t \notin Readers
  BY PipeAssumption, ZenonT(30) DEF Thread
<1>2. UNCHANGED <<buffer, read_pos, write_pos, used, readers, writers, len, eof>>
  BY ZenonT(30) DEF WriteBroken, ring
<1>3. call' = [call EXCEPT ![t] = "none"] /\ todo' = [todo EXCEPT ![t] = <<>>]
  BY ZenonT(30) DEF WriteBroken, Return
<1>4. /\ call' \in [Thread -> {"none", "read", "write"}]
      /\ todo' \in [Writers -> Data \cup {<<>>}]
  BY <1>1, <1>3, ZenonT(30) DEF IInv, TypeOK
<1>5. \A w \in Writers : todo'[w] = <<>> <=> call'[w] = "none"
  BY <1>1, <1>3, ZenonT(30) DEF IInv, TypeOK, Thread
<1>6. CallsOpen'
  BY <1>1, <1>2, <1>3, ZenonT(30) DEF IInv, TypeOK, CallsOpen, Thread
<1>7. TypeOK'
  BY <1>2, <1>4, <1>5, ZenonT(30) DEF IInv, TypeOK
<1>8. ~(readers > 0) /\ Len(Contents) = Size
  <2>1. ~(readers > 0) /\ used = Size
    BY DEF WriteBroken
  <2>2. buffer \in [0..Size - 1 -> Byte] /\ read_pos \in 0..Size - 1 /\ used \in 0..Size
    BY ZenonT(30) DEF IInv, TypeOK
  <2>3. Contents = Ring(buffer, read_pos, used)
    BY ZenonT(30) DEF Contents, Ring
  <2> QED
    BY <2>1, <2>2, <2>3, RingFacts, ZenonT(30)
<1>9. Stream!GiveUp(t)
  BY <1>2, <1>3, <1>8, ZenonT(30) DEF Stream!GiveUp, Contents
<1> QED
  BY <1>6, <1>7, <1>9, ZenonT(30) DEF IInv

\* pipe_close takes one end away.
LEMMA CloseStep ==
  ASSUME IInv, CloseReader \/ CloseWriter
  PROVE  IInv' /\ (Stream!CloseRead \/ Stream!CloseWrite)
<1>1. UNCHANGED <<buffer, read_pos, write_pos, used, call, len, todo, eof>>
  BY ZenonT(30) DEF CloseReader, CloseWriter, ring
<1>2. CASE CloseReader
  <2>1. /\ readers > 0 /\ readers' = readers - 1 /\ writers' = writers
        /\ \A t \in Readers : call[t] = "none"
    BY <1>2, ZenonT(30) DEF CloseReader
  <2>2. readers' \in 0..1 /\ ~(readers' > 0)
    BY <2>1 DEF IInv, TypeOK
  <2>3. IInv'
    BY <1>1, <2>1, <2>2, ZenonT(30) DEF IInv, TypeOK, CallsOpen
  <2>4. Stream!CloseRead
    BY <1>1, <2>1, <2>2 DEF Stream!CloseRead, Contents
  <2> QED
    BY <2>3, <2>4, ZenonT(30)
<1>3. CASE CloseWriter
  <2>1. /\ writers > 0 /\ writers' = writers - 1 /\ readers' = readers
        /\ \A t \in Writers : call[t] = "none"
    BY <1>3, ZenonT(30) DEF CloseWriter
  <2>2. writers' \in 0..1 /\ ~(writers' > 0)
    BY <2>1 DEF IInv, TypeOK
  <2>3. IInv'
    BY <1>1, <2>1, <2>2, ZenonT(30) DEF IInv, TypeOK, CallsOpen
  <2>4. \A w \in Writers : todo[w] = <<>>
    BY <2>1, ZenonT(30) DEF IInv, TypeOK
  <2>5. Stream!CloseWrite
    BY <1>1, <2>1, <2>2, <2>4 DEF Stream!CloseWrite, Contents
  <2> QED
    BY <2>3, <2>5, ZenonT(30)
<1> QED
  BY <1>2, <1>3, ZenonT(30)

\* What is left of a write after n bytes.
LEMMA LeftOver ==
  ASSUME NEW d \in Data, NEW n \in 1..Len(d)
  PROVE  LET rest == SubSeq(d, n + 1, Len(d))
         IN  /\ rest \in Data \cup {<<>>}
             /\ rest = <<>> <=> n = Len(d)
<1> DEFINE rest == SubSeq(d, n + 1, Len(d))
<1>1. d \in Seq(Byte) /\ Len(d) \in 1..MaxLen
  BY DataFacts, ZenonT(30)
<1>2. n + 1 \in Int /\ Len(d) \in Int /\ \A i \in n + 1..Len(d) : d[i] \in Byte
  BY <1>1, PipeAssumption
<1>3. rest \in Seq(Byte) /\ Len(rest) = IF n + 1 <= Len(d) THEN Len(d) - (n + 1) + 1 ELSE 0
  BY <1>2
<1> HIDE DEF rest
<1>4. CASE n = Len(d)
  <2>1. Len(rest) = 0
    BY <1>1, <1>3, <1>4, PipeAssumption
  <2>2. rest = <<>>
    BY <1>3, <2>1
  <2> QED
    BY <1>4, <2>2, ZenonT(30) DEF rest
<1>5. CASE n # Len(d)
  <2>1. Len(rest) \in 1..MaxLen
    BY <1>1, <1>3, <1>5, PipeAssumption
  <2>2. rest \in Data /\ rest # <<>>
    BY <1>3, <2>1, DataFacts, ZenonT(30)
  <2> QED
    BY <1>5, <2>2, ZenonT(30) DEF rest
<1> QED
  BY <1>4, <1>5, ZenonT(30)

\* pipe_write appends the bytes that fit, and keeps the others.
LEMMA WriteSomeStep ==
  ASSUME IInv, NEW t \in Writers, WriteSome(t)
  PROVE  IInv' /\ Stream!Send(t)
<1> DEFINE d == todo[t]
           n == MinOf(Len(d), Size - used)
           rest == SubSeq(d, n + 1, Len(d))
<1>1. /\ t \in Thread /\ t \notin Readers /\ Size \in Nat \ {0}
      /\ buffer \in [0..Size - 1 -> Byte] /\ read_pos \in 0..Size - 1
      /\ used \in 0..Size - 1 /\ write_pos = (read_pos + used) % Size
      /\ call[t] = "write" /\ writers > 0
  BY PipeAssumption DEF Thread, WriteSome, IInv, TypeOK, CallsOpen
<1>2. d \in Data /\ d \in Seq(Byte) /\ Len(d) \in 1..MaxLen
  BY <1>1, DataFacts, SMTT(30) DEF IInv, TypeOK
<1>3. n \in 1..Len(d) /\ n \in 0..Size /\ used + n <= Size
  BY <1>1, <1>2, PipeAssumption, SMTT(30) DEF MinOf
<1>4. UNCHANGED <<read_pos, readers, writers, len, eof>>
  BY ZenonT(30) DEF WriteSome
<1>5. /\ buffer' = Filled(buffer, (read_pos + used) % Size, d, n)
      /\ write_pos' = (write_pos + n) % Size /\ used' = used + n
  BY <1>1, SMTT(30) DEF WriteSome, Store, Filled
<1>6. /\ call' = IF n = Len(d) THEN [call EXCEPT ![t] = "none"] ELSE call
      /\ todo' = [todo EXCEPT ![t] = rest]
  BY ZenonT(30) DEF WriteSome, Return
<1>7. rest \in Data \cup {<<>>} /\ (rest = <<>> <=> n = Len(d))
  BY <1>2, <1>3, LeftOver, ZenonT(30)
<1> HIDE DEF n, rest, d
<1>8. /\ call' \in [Thread -> {"none", "read", "write"}]
      /\ todo' \in [Writers -> Data \cup {<<>>}]
  BY <1>1, <1>6, <1>7, ZenonT(30) DEF IInv, TypeOK
<1>9. ASSUME NEW w \in Writers PROVE todo'[w] = <<>> <=> call'[w] = "none"
  <2>1. CASE w = t
    BY <1>1, <1>6, <1>7, <2>1, ZenonT(30) DEF IInv, TypeOK, Thread
  <2>2. CASE w # t
    BY <1>1, <1>6, <2>2, ZenonT(30) DEF IInv, TypeOK, Thread
  <2> QED
    BY <2>1, <2>2, ZenonT(30)
<1>10. CallsOpen'
  BY <1>1, <1>4, <1>6, ZenonT(30) DEF IInv, TypeOK, CallsOpen, Thread
<1>11. /\ buffer' \in [0..Size - 1 -> Byte]
       /\ Ring(buffer', read_pos, used + n) = Ring(buffer, read_pos, used) \o SubSeq(d, 1, n)
  <2> DEFINE c == Filled(buffer, (read_pos + used) % Size, d, n)
  <2>1. /\ c \in [0..Size - 1 -> Byte]
        /\ Ring(c, read_pos, used + n) = Ring(buffer, read_pos, used) \o SubSeq(d, 1, n)
    <3>1. Fits(buffer, read_pos, used, d, n)
      BY <1>1, <1>2, <1>3, ZenonT(30) DEF Fits
    <3>2. Puts(buffer, read_pos, used, d, n)
      BY <3>1, PutIn, Zenon
    <3> QED
      BY <3>2, Zenon DEF Puts
  <2> QED
    BY <1>5, <2>1, ZenonT(30)
<1>12. /\ used' \in 0..Size /\ write_pos' \in 0..Size - 1
       /\ write_pos' = (read_pos' + used') % Size
  <2>1. used \in 0..Size /\ used + n \in 0..Size
    BY <1>1, <1>3
  <2>2. (((read_pos + used) % Size) + n) % Size = (read_pos + (used + n)) % Size
    BY <1>1, <1>3, <2>1, TwoStretches, ZenonT(30)
  <2>3. (read_pos + (used + n)) % Size \in 0..Size - 1
    BY <1>1, <2>1
  <2> QED
    BY <1>1, <1>4, <1>5, <2>1, <2>2, <2>3, ZenonT(30)
<1>13. TypeOK'
  BY <1>4, <1>8, <1>9, <1>11, <1>12, SMTT(30) DEF IInv, TypeOK
<1>14. Contents' = Contents \o SubSeq(d, 1, n) /\ Len(Contents) + n <= Size
  <2>1. Contents = Ring(buffer, read_pos, used)
    BY ZenonT(30) DEF Contents, Ring
  <2>2. Contents' = Ring(buffer', read_pos, used + n)
    BY <1>4, <1>5, ZenonT(30) DEF Contents, Ring
  <2>3. Len(Contents) = used
    BY <1>1, <2>1, RingFacts
  <2> QED
    BY <1>3, <1>11, <2>1, <2>2, <2>3, ZenonT(30)
<1>15. Stream!Send(t)
  <2>1. /\ Contents' = Contents \o SubSeq(todo[t], 1, n) /\ Len(Contents) + n <= Size
        /\ todo' = [todo EXCEPT ![t] = SubSeq(todo[t], n + 1, Len(todo[t]))]
        /\ n \in 1..Len(todo[t])
    BY <1>3, <1>6, <1>14, ZenonT(30) DEF d, rest
  <2>2. (writers > 0)' = (writers > 0) /\ (readers > 0)' = (readers > 0) /\ eof' = eof
    BY <1>4, ZenonT(30)
  <2> QED
    BY <1>1, <2>1, <2>2, ZenonT(30) DEF Stream!Send
<1> QED
  BY <1>10, <1>13, <1>15, ZenonT(30) DEF IInv

-----------------------------------------------------------------------------
(* The theorems. *)

\* Every step keeps the invariant and is a step of the stream, or none.
LEMMA StepIInv == IInv /\ [Next]_vars => IInv' /\ [Stream!StreamNext]_Stream!streamVars
<1> SUFFICES ASSUME IInv, [Next]_vars
             PROVE  IInv' /\ [Stream!StreamNext]_Stream!streamVars
  BY ZenonT(30)
<1>1. CASE \E t \in Readers : ReadStep(t) \/ \E n \in 1..MaxLen : ReadCall(t, n)
  BY <1>1, ReadCallStep, ReadEofStep, ReadSomeStep, ZenonT(30) DEF ReadStep, Stream!StreamNext
<1>2. CASE \E t \in Writers : WriteStep(t) \/ \E s \in Data : WriteCall(t, s)
  BY <1>2, WriteCallStep, WriteSomeStep, WriteBrokenStep, ZenonT(30) DEF WriteStep, Stream!StreamNext
<1>3. CASE CloseReader \/ CloseWriter
  BY <1>3, CloseStep, ZenonT(30) DEF Stream!StreamNext
<1>4. CASE UNCHANGED vars
  <2>1. IInv'
    BY <1>4, ZenonT(30) DEF vars, IInv, TypeOK, CallsOpen
  <2> QED
    BY <1>4, <2>1, ZenonT(30) DEF vars, Stream!streamVars, Contents
<1> QED
  BY <1>1, <1>2, <1>3, <1>4, ZenonT(30) DEF Next

\* The fields of struct pipe keep their types and agree with each other, for
\* a ring of any size, whatever calls pipe_read_impl and pipe_write_impl get.
THEOREM TypeCorrect == Spec => []TypeOK
<1>1. Init => IInv
  BY InitIInv, ZenonT(30)
<1>2. IInv /\ [Next]_vars => IInv'
  BY StepIInv, ZenonT(30)
<1>3. IInv => TypeOK
  BY ZenonT(30) DEF IInv
<1> QED
  BY <1>1, <1>2, <1>3, PTL DEF Spec

\* pipe.c implements a byte stream: its initial state is an empty stream, and
\* every turn of its loops is a step of the stream or leaves it as it is.
THEOREM RingImplementsStream == Spec => ImplementsStream
<1>1. Init => IInv /\ Stream!StreamInit
  <2> SUFFICES ASSUME Init PROVE IInv /\ Stream!StreamInit
    BY ZenonT(30)
  <2>1. Contents = <<>> /\ todo = [w \in Writers |-> <<>>]
    BY DEF Init, Contents
  <2>2. (writers > 0) = TRUE /\ (readers > 0) = TRUE
    BY DEF Init
  <2>3. eof = FALSE
    BY ZenonT(30) DEF Init
  <2> QED
    BY <2>1, <2>2, <2>3, InitIInv, ZenonT(30) DEF Stream!StreamInit
<1>2. IInv /\ [Next]_vars => IInv' /\ [Stream!StreamNext]_Stream!streamVars
  BY StepIInv, ZenonT(30)
<1> QED
  BY <1>1, <1>2, PTL DEF Spec, ImplementsStream, Stream!StreamSpec
=============================================================================
