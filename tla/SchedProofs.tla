----------------------------- MODULE SchedProofs ----------------------------
(***************************************************************************)
(* Proofs about Sched, for every set of processors and every size of the   *)
(* process table.                                                          *)
(***************************************************************************)
EXTENDS Sched, TLAPS

-----------------------------------------------------------------------------
(* The inductive invariant. *)

(* The processor c is on the stack of a process whose code is in S. *)
In(c, S) == ctx[c] # None /\ pc[ctx[c]] \in S

(* Where the code of a processor, on either of its stacks, has a lock.  A  *)
(* process that comes back from swtch finds ptable.lock taken by the       *)
(* scheduler of the processor it is on now.                                *)
HasPtable(c) ==
  \/ ctx[c] = None /\ spc[c] = "scan"
  \/ In(c, {"release_lk", "sleeping", "yielding", "exiting", "woken", "yielded", "forkret"})

HasLk(c) == hpc[c] \in {"wakeup", "release"} \/ In(c, {"check", "release_lk"})

(* Where an interrupt may come: never while a lock is held. *)
Interruptible(c) ==
  \/ ctx[c] = None /\ spc[c] \in {"sti", "acquire", "hlt", "halted"}
  \/ In(c, {"user", "lock"})

(* Where the processor may spin in acquire.  Having found the condition    *)
(* false it keeps lk, so that the condition stays false.                   *)
Spins(c) ==
  \/ hpc[c] \in {"lock", "wakeup"}
  \/ hpc[c] = "none" /\ ctx[c] = None /\ spc[c] = "acquire"
  \/ hpc[c] = "none" /\ In(c, {"lock", "yield", "exit"})
  \/ hpc[c] = "none" /\ In(c, {"check"}) /\ ~cond

(* Stacks: a process on a processor is RUNNING, and on that one only.  One *)
(* that may be switched to has left its stack at a call of sched, or has   *)
(* not run yet.  A process inside fork owns its embryo.                    *)
Stacks ==
  /\ StackSafe
  /\ \A c \in CPU : ctx[c] # None => spc[c] = "scan"
  /\ \A p \in Slot :
       /\ state[p] # "UNUSED" => kstack[p]
       /\ state[p] = "RUNNABLE" => pc[p] \in {"woken", "yielded", "forkret"}
       /\ state[p] = "SLEEPING" => pc[p] = "woken"
       /\ state[p] = "EMBRYO" => pc[p] = "forkret"
       /\ pc[p] = "fork" =>
            state[p] = "RUNNING" /\ np[p] \in Slot /\ state[np[p]] = "EMBRYO"
  /\ \A p, q \in Slot : pc[p] = "fork" /\ pc[q] = "fork" /\ np[p] = np[q] => p = q

(* Locks: each is held exactly where the code says, and a handler has      *)
(* interrupted code that holds none.                                       *)
Locks ==
  \A c \in CPU :
    /\ holder["ptable"] = c <=> HasPtable(c)
    /\ holder["lk"] = c <=> HasLk(c)
    /\ hpc[c] # "none" => Interruptible(c)
    /\ spin[c] => Spins(c)

(* Interrupts: ncli counts the locks held and the one spun on, and they    *)
(* are off while it is positive.  intena may be that of a process that has *)
(* come back to the scheduler; then skipped has been reset in this pass.   *)
Count(b) == IF b THEN 1 ELSE 0

Interrupts ==
  \A c \in CPU :
    /\ ncli[c] = Count(HasPtable(c)) + Count(HasLk(c)) + Count(spin[c])
    /\ iflag[c] => hpc[c] = "none" /\ Interruptible(c) /\ ~spin[c]
    /\ ctx[c] = None /\ hpc[c] = "none" =>
         /\ spc[c] \in {"hlt", "halted"} => iflag[c]
         /\ spc[c] = "acquire" => IF spin[c] THEN intena[c] ELSE iflag[c]
    /\ ctx[c] = None /\ spc[c] = "scan" => intena[c] \/ skipped[c] < scan[c] - 1

(* The scheduler's count of slots that it skipped. *)
Skips ==
  \A c \in CPU :
    /\ ctx[c] # None => skipped[c] < scan[c] - 1
    /\ spc[c] \in {"sti", "acquire"} => skipped[c] <= NPROC
    /\ spc[c] = "scan" => skipped[c] <= NPROC + scan[c] - 1
    /\ spc[c] = "halted" => skipped[c] = 0

IInv == TypeOK /\ NoPanic /\ Stacks /\ Locks /\ Interrupts /\ Skips

(* A process that has decided to sleep, but is not SLEEPING yet, holds     *)
(* ptable.lock: whoever makes the condition true now must wait for it in   *)
(* wakeup.                                                                 *)
Waking ==
  /\ \A c \in CPU : In(c, {"release_lk"}) => ~cond
  /\ cond /\ (\/ \E p \in Slot : state[p] = "SLEEPING"
              \/ \E c \in CPU : In(c, {"sleeping"}))
       => \E c \in CPU : hpc[c] = "wakeup"

-----------------------------------------------------------------------------
(* The invariant is inductive: one step per action, one lemma per part. *)

(* The two branches of the scan, with the slot it looks at. *)
ScanSkips(c) ==
  /\ InScheduler(c) /\ spc[c] = "scan" /\ scan[c] <= NPROC
  /\ skipped' = [skipped EXCEPT ![c] = skipped[c] + 1]
  /\ scan' = [scan EXCEPT ![c] = scan[c] + 1]
  /\ UNCHANGED <<cpuVars, ctx, spc, hpc, holder, state, kstack, pc, procVars, cond, first, panic>>

ScanSwitches(c, p) ==
  /\ InScheduler(c) /\ spc[c] = "scan" /\ scan[c] = p /\ state[p] = "RUNNABLE"
  /\ skipped' = [skipped EXCEPT ![c] = 0]
  /\ state' = [state EXCEPT ![p] = "RUNNING"]
  /\ ctx' = [ctx EXCEPT ![c] = p]
  /\ scan' = [scan EXCEPT ![c] = p + 1]
  /\ UNCHANGED <<cpuVars, spc, hpc, holder, kstack, pc, procVars, cond, first, panic>>

(* A step of the scan takes one of the two branches. *)
LEMMA ScanCases ==
  ASSUME TypeOK, NEW c \in CPU, sched_scan(c)
  PROVE  ScanSkips(c) \/ \E p \in Slot : ScanSwitches(c, p)
PROOF
<1>1. scan[c] \in Slot
  BY SchedAssumption DEF sched_scan, TypeOK, Slot
<1>2. CASE state[scan[c]] # "RUNNABLE"
  <2>1. ScanSkips(c)
    BY <1>2 DEF sched_scan, ScanSkips, Onward
  <2> QED
    BY <2>1
<1>3. CASE state[scan[c]] = "RUNNABLE"
  <2>1. ScanSwitches(c, scan[c])
    BY <1>1, <1>3 DEF sched_scan, ScanSwitches, Switched, Onward
  <2> QED
    BY <1>1, <2>1
<1> QED
  BY <1>2, <1>3

(* Every step is one of these.                                             *)
LEMMA NextCases ==
  ASSUME TypeOK, [Next]_vars
  PROVE  \/ \E c \in CPU : \/ acquire_start(c) \/ sched_sti(c) \/ sched_acquire(c)
                            \/ ScanSkips(c) \/ sched_release(c) \/ sched_hlt(c)
                            \/ intr(c) \/ intr_lock(c) \/ wakeup(c) \/ intr_ret(c)
                            \/ timer_wakes(c)
         \/ \E c \in CPU, p \in Slot :
              \/ \E at \in {"lock", "exit"} : enter(c, p, at)
              \/ \E s \in Slot : fork(c, p, s) \/ wait(c, p, s)
              \/ timer_yields(c, p) \/ acquire_lk(c, p) \/ consume(c, p)
              \/ sleep(c, p) \/ sleep_release(c, p) \/ lock_ptable(c, p)
              \/ sched(c, p, "sleeping", "SLEEPING", "woken")
              \/ sched(c, p, "yielding", "RUNNABLE", "yielded")
              \/ sched(c, p, "exiting", "ZOMBIE", "exiting")
              \/ ScanSwitches(c, p) \/ resume(c, p) \/ forkret(c, p) \/ fork_run(c, p)
         \/ UNCHANGED vars
PROOF
  BY ScanCases DEF Next, Kernel, Scheduler, KernelOf, Handler, Timer, User

(* Every step keeps the types. *)
LEMMA TypeStep ==
  ASSUME IInv, [Next]_vars
  PROVE  TypeOK'
PROOF
<1>0. None \notin Slot /\ None \notin CPU
  BY SchedAssumption DEF Slot, None
<1>1. ASSUME NEW c \in CPU, acquire_start(c)
      PROVE  TypeOK'
  BY <1>0, <1>1, SchedAssumption
     DEF acquire_start, pushcli, Wants, InScheduler, On, schedVars, procVars, IInv, TypeOK,
         NoPanic, Stacks, Locks, Interrupts, Count, Skips, State, PC, SPC, HPC, Lock, HasPtable,
         HasLk, Interruptible, In, Spins
<1>2. ASSUME NEW c \in CPU, sched_sti(c)
      PROVE  TypeOK'
  BY <1>0, <1>2, SchedAssumption
     DEF sched_sti, InScheduler, schedVars, procVars, IInv, TypeOK, NoPanic, Stacks, Locks,
         Interrupts, Count, Skips, State, PC, SPC, HPC, Lock, HasPtable, HasLk, Interruptible,
         In, Spins
<1>3. ASSUME NEW c \in CPU, sched_acquire(c)
      PROVE  TypeOK'
  BY <1>0, <1>3, SchedAssumption
     DEF sched_acquire, acquire, InScheduler, schedVars, procVars, IInv, TypeOK, NoPanic,
         Stacks, Locks, Interrupts, Count, Skips, State, PC, SPC, HPC, Lock, HasPtable, HasLk,
         Interruptible, In, Spins
<1>4. ASSUME NEW c \in CPU, ScanSkips(c)
      PROVE  TypeOK'
  BY <1>0, <1>4, SchedAssumption
     DEF ScanSkips, InScheduler, cpuVars, schedVars, procVars, IInv, TypeOK, NoPanic, Stacks,
         Locks, Interrupts, Count, Skips, State, PC, SPC, HPC, Lock, HasPtable, HasLk,
         Interruptible, In, Spins
<1>5. ASSUME NEW c \in CPU, NEW p \in Slot, ScanSwitches(c, p)
      PROVE  TypeOK'
  <2>1. p + 1 \in 1..NPROC + 1
    BY SchedAssumption DEF Slot
  <2>2. 0 \in 0..2 * NPROC
    BY SchedAssumption
  <2>3. ctx' \in [CPU -> Slot \cup {None}] /\ scan' \in [CPU -> 1..NPROC + 1]
    BY <1>5, <2>1 DEF ScanSwitches, IInv, TypeOK
  <2>4. skipped' \in [CPU -> 0..2 * NPROC] /\ state' \in [Slot -> State]
    BY <1>5, <2>2 DEF ScanSwitches, IInv, TypeOK, State
  <2> QED
    BY <1>5, <2>3, <2>4 DEF ScanSwitches, cpuVars, procVars, IInv, TypeOK, State
<1>6. ASSUME NEW c \in CPU, sched_release(c)
      PROVE  TypeOK'
  BY <1>0, <1>6, SchedAssumption
     DEF sched_release, release, Popped, PopcliOK, InScheduler, schedVars, procVars, IInv,
         TypeOK, NoPanic, Stacks, Locks, Interrupts, Count, Skips, State, PC, SPC, HPC, Lock,
         HasPtable, HasLk, Interruptible, In, Spins
<1>7. ASSUME NEW c \in CPU, sched_hlt(c)
      PROVE  TypeOK'
  BY <1>0, <1>7, SchedAssumption
     DEF sched_hlt, InScheduler, cpuVars, schedVars, procVars, IInv, TypeOK, NoPanic, Stacks,
         Locks, Interrupts, Count, Skips, State, PC, SPC, HPC, Lock, HasPtable, HasLk,
         Interruptible, In, Spins
<1>8. ASSUME NEW c \in CPU, NEW p \in Slot, NEW at \in {"lock", "exit"}, enter(c, p, at)
      PROVE  TypeOK'
  BY <1>0, <1>8, SchedAssumption
     DEF enter, On, schedVars, procVars, IInv, TypeOK, NoPanic, Stacks, Locks, Interrupts,
         Count, Skips, State, PC, SPC, HPC, Lock, HasPtable, HasLk, Interruptible, In, Spins
<1>9. ASSUME NEW c \in CPU, NEW p \in Slot, timer_yields(c, p)
      PROVE  TypeOK'
  BY <1>0, <1>9, SchedAssumption
     DEF timer_yields, On, schedVars, procVars, IInv, TypeOK, NoPanic, Stacks, Locks,
         Interrupts, Count, Skips, State, PC, SPC, HPC, Lock, HasPtable, HasLk, Interruptible,
         In, Spins
<1>10. ASSUME NEW c \in CPU, NEW p \in Slot, acquire_lk(c, p)
      PROVE  TypeOK'
  BY <1>0, <1>10, SchedAssumption
     DEF acquire_lk, acquire, On, schedVars, procVars, IInv, TypeOK, NoPanic, Stacks, Locks,
         Interrupts, Count, Skips, State, PC, SPC, HPC, Lock, HasPtable, HasLk, Interruptible,
         In, Spins
<1>11. ASSUME NEW c \in CPU, NEW p \in Slot, consume(c, p)
      PROVE  TypeOK'
  <2>1. holder["lk"] = c /\ ncli[c] = 1
    BY <1>0, <1>11
       DEF consume, On, IInv, TypeOK, Locks, Interrupts, Count, HasPtable, HasLk, Interruptible,
           In
  <2>2. ncli' = [ncli EXCEPT ![c] = 0] /\ holder' = [holder EXCEPT !["lk"] = None]
    BY <1>11, <2>1 DEF consume, release
  <2>3. iflag' \in [CPU -> BOOLEAN] /\ panic' \in BOOLEAN
    BY <1>11 DEF consume, release, IInv, TypeOK
  <2> QED
    <3>1. ncli' \in [CPU -> 0..2]
      BY <2>2 DEF IInv, TypeOK
    <3>4. holder' \in [Lock -> CPU \cup {None}]
      BY <2>2 DEF IInv, TypeOK, Lock
    <3>2. pc' \in [Slot -> PC] /\ cond' \in BOOLEAN
      BY <1>11 DEF consume, IInv, TypeOK, PC
    <3>3. UNCHANGED <<intena, spin, ctx, spc, scan, skipped, hpc, state, kstack, saved,
                      trapped, np, first>>
      BY <1>11 DEF consume, release, schedVars, procVars
    <3> QED
      BY <2>3, <3>1, <3>2, <3>3, <3>4 DEF IInv, TypeOK
<1>12. ASSUME NEW c \in CPU, NEW p \in Slot, sleep(c, p)
      PROVE  TypeOK'
  BY <1>0, <1>12, SchedAssumption
     DEF sleep, acquire, On, schedVars, procVars, IInv, TypeOK, NoPanic, Stacks, Locks,
         Interrupts, Count, Skips, State, PC, SPC, HPC, Lock, HasPtable, HasLk, Interruptible,
         In, Spins
<1>13. ASSUME NEW c \in CPU, NEW p \in Slot, sleep_release(c, p)
      PROVE  TypeOK'
  BY <1>0, <1>13, SchedAssumption
     DEF sleep_release, release, Popped, PopcliOK, On, schedVars, procVars, IInv, TypeOK,
         NoPanic, Stacks, Locks, Interrupts, Count, Skips, State, PC, SPC, HPC, Lock, HasPtable,
         HasLk, Interruptible, In, Spins
<1>14. ASSUME NEW c \in CPU, NEW p \in Slot, lock_ptable(c, p)
      PROVE  TypeOK'
  BY <1>0, <1>14, SchedAssumption
     DEF lock_ptable, acquire, On, schedVars, procVars, IInv, TypeOK, NoPanic, Stacks, Locks,
         Interrupts, Count, Skips, State, PC, SPC, HPC, Lock, HasPtable, HasLk, Interruptible,
         In, Spins
<1>15. ASSUME NEW c \in CPU, NEW p \in Slot, sched(c, p, "sleeping", "SLEEPING", "woken")
      PROVE  TypeOK'
  BY <1>0, <1>15, SchedAssumption
     DEF sched, SchedOK, On, cpuVars, schedVars, procVars, IInv, TypeOK, NoPanic, Stacks, Locks,
         Interrupts, Count, Skips, State, PC, SPC, HPC, Lock, HasPtable, HasLk, Interruptible,
         In, Spins
<1>16. ASSUME NEW c \in CPU, NEW p \in Slot, sched(c, p, "yielding", "RUNNABLE", "yielded")
      PROVE  TypeOK'
  BY <1>0, <1>16, SchedAssumption
     DEF sched, SchedOK, On, cpuVars, schedVars, procVars, IInv, TypeOK, NoPanic, Stacks, Locks,
         Interrupts, Count, Skips, State, PC, SPC, HPC, Lock, HasPtable, HasLk, Interruptible,
         In, Spins
<1>17. ASSUME NEW c \in CPU, NEW p \in Slot, sched(c, p, "exiting", "ZOMBIE", "exiting")
      PROVE  TypeOK'
  BY <1>0, <1>17, SchedAssumption
     DEF sched, SchedOK, On, cpuVars, schedVars, procVars, IInv, TypeOK, NoPanic, Stacks, Locks,
         Interrupts, Count, Skips, State, PC, SPC, HPC, Lock, HasPtable, HasLk, Interruptible,
         In, Spins
<1>18. ASSUME NEW c \in CPU, NEW p \in Slot, resume(c, p)
      PROVE  TypeOK'
  BY <1>0, <1>18, SchedAssumption
     DEF resume, release, Popped, PopcliOK, On, schedVars, procVars, IInv, TypeOK, NoPanic,
         Stacks, Locks, Interrupts, Count, Skips, State, PC, SPC, HPC, Lock, HasPtable, HasLk,
         Interruptible, In, Spins
<1>19. ASSUME NEW c \in CPU, NEW p \in Slot, forkret(c, p)
      PROVE  TypeOK'
  <2>1. holder["ptable"] = c /\ ncli[c] = 1
    BY <1>0, <1>19
       DEF forkret, On, IInv, TypeOK, Locks, Interrupts, Count, HasPtable, HasLk, Spins, In
  <2>2. ncli' = [ncli EXCEPT ![c] = 0] /\ holder' = [holder EXCEPT !["ptable"] = None]
    BY <1>19, <2>1 DEF forkret, release
  <2>3. iflag' \in [CPU -> BOOLEAN] /\ panic' \in BOOLEAN
    BY <1>19 DEF forkret, release, IInv, TypeOK
  <2> QED
    <3>1. ncli' \in [CPU -> 0..2]
      BY <2>2 DEF IInv, TypeOK
    <3>4. holder' \in [Lock -> CPU \cup {None}]
      BY <2>2 DEF IInv, TypeOK, Lock
    <3>2. pc' \in [Slot -> PC] /\ first' \in BOOLEAN
      BY <1>19 DEF forkret, IInv, TypeOK, PC
    <3>3. UNCHANGED <<intena, spin, ctx, spc, scan, skipped, hpc, state, kstack, saved,
                      trapped, np, cond>>
      BY <1>19 DEF forkret, release, schedVars, procVars
    <3> QED
      BY <2>3, <3>1, <3>2, <3>3, <3>4 DEF IInv, TypeOK
<1>20. ASSUME NEW c \in CPU, NEW p \in Slot, NEW s \in Slot, fork(c, p, s)
      PROVE  TypeOK'
  BY <1>0, <1>20, SchedAssumption
     DEF fork, On, schedVars, procVars, IInv, TypeOK, NoPanic, Stacks, Locks, Interrupts, Count,
         Skips, State, PC, SPC, HPC, Lock, HasPtable, HasLk, Interruptible, In, Spins
<1>21. ASSUME NEW c \in CPU, NEW p \in Slot, fork_run(c, p)
      PROVE  TypeOK'
  BY <1>0, <1>21, SchedAssumption
     DEF fork_run, On, schedVars, procVars, IInv, TypeOK, NoPanic, Stacks, Locks, Interrupts,
         Count, Skips, State, PC, SPC, HPC, Lock, HasPtable, HasLk, Interruptible, In, Spins
<1>22. ASSUME NEW c \in CPU, NEW p \in Slot, NEW s \in Slot, wait(c, p, s)
      PROVE  TypeOK'
  BY <1>0, <1>22, SchedAssumption
     DEF wait, On, schedVars, procVars, IInv, TypeOK, NoPanic, Stacks, Locks, Interrupts, Count,
         Skips, State, PC, SPC, HPC, Lock, HasPtable, HasLk, Interruptible, In, Spins
<1>23. ASSUME NEW c \in CPU, intr(c)
      PROVE  TypeOK'
  BY <1>0, <1>23, SchedAssumption
     DEF intr, schedVars, procVars, IInv, TypeOK, NoPanic, Stacks, Locks, Interrupts, Count,
         Skips, State, PC, SPC, HPC, Lock, HasPtable, HasLk, Interruptible, In, Spins
<1>24. ASSUME NEW c \in CPU, intr_lock(c)
      PROVE  TypeOK'
  BY <1>0, <1>24, SchedAssumption
     DEF intr_lock, acquire, schedVars, procVars, IInv, TypeOK, NoPanic, Stacks, Locks,
         Interrupts, Count, Skips, State, PC, SPC, HPC, Lock, HasPtable, HasLk, Interruptible,
         In, Spins
<1>25. ASSUME NEW c \in CPU, wakeup(c)
      PROVE  TypeOK'
  BY <1>0, <1>25, SchedAssumption
     DEF wakeup, MayWake, PopcliOK, schedVars, procVars, IInv, TypeOK, NoPanic, Stacks, Locks,
         Interrupts, Count, Skips, State, PC, SPC, HPC, Lock, HasPtable, HasLk, Interruptible,
         In, Spins
<1>26. ASSUME NEW c \in CPU, intr_ret(c)
      PROVE  TypeOK'
  BY <1>0, <1>26, SchedAssumption
     DEF intr_ret, release, Popped, PopcliOK, WakeHalted, schedVars, procVars, IInv, TypeOK,
         NoPanic, Stacks, Locks, Interrupts, Count, Skips, State, PC, SPC, HPC, Lock, HasPtable,
         HasLk, Interruptible, In, Spins
<1>27. ASSUME NEW c \in CPU, timer_wakes(c)
      PROVE  TypeOK'
  BY <1>0, <1>27, SchedAssumption
     DEF timer_wakes, WakeHalted, InScheduler, cpuVars, schedVars, procVars, IInv, TypeOK,
         NoPanic, Stacks, Locks, Interrupts, Count, Skips, State, PC, SPC, HPC, Lock, HasPtable,
         HasLk, Interruptible, In, Spins
<1>28. CASE UNCHANGED vars
  BY <1>28
     DEF vars, IInv, TypeOK, NoPanic, Stacks, Locks, Interrupts, Count, Skips, State, PC, SPC,
         HPC, Lock, HasPtable, HasLk, Interruptible, In, Spins
<1> QED
  BY <1>1, <1>2, <1>3, <1>4, <1>5, <1>6, <1>7, <1>8, <1>9, <1>10, <1>11, <1>12, <1>13, <1>14,
     <1>15, <1>16, <1>17, <1>18, <1>19, <1>20, <1>21, <1>22, <1>23, <1>24, <1>25, <1>26, <1>27,
     <1>28, NextCases
     DEF IInv

(* No step panics: the checks of acquire, release, popcli and sched hold.  *)
LEMMA PanicStep ==
  ASSUME IInv, [Next]_vars
  PROVE  NoPanic'
PROOF
<1>0. None \notin Slot /\ None \notin CPU
  BY SchedAssumption DEF Slot, None
<1>1. ASSUME NEW c \in CPU, acquire_start(c)
      PROVE  NoPanic'
  BY <1>0, <1>1
     DEF acquire_start, pushcli, Wants, InScheduler, On, schedVars, procVars, IInv, TypeOK,
         NoPanic, Locks, Interrupts, Count, Lock, HasPtable, HasLk, Interruptible, In, Spins
<1>2. ASSUME NEW c \in CPU, sched_sti(c)
      PROVE  NoPanic'
  BY <1>0, <1>2
     DEF sched_sti, InScheduler, schedVars, procVars, IInv, TypeOK, NoPanic, Locks, Interrupts,
         Count, Lock, HasPtable, HasLk, Interruptible, In, Spins
<1>3. ASSUME NEW c \in CPU, sched_acquire(c)
      PROVE  NoPanic'
  BY <1>0, <1>3
     DEF sched_acquire, acquire, InScheduler, schedVars, procVars, IInv, TypeOK, NoPanic, Locks,
         Interrupts, Count, Lock, HasPtable, HasLk, Interruptible, In, Spins
<1>4. ASSUME NEW c \in CPU, ScanSkips(c)
      PROVE  NoPanic'
  BY <1>0, <1>4
     DEF ScanSkips, InScheduler, cpuVars, schedVars, procVars, IInv, TypeOK, NoPanic, Locks,
         Interrupts, Count, Lock, HasPtable, HasLk, Interruptible, In, Spins
<1>5. ASSUME NEW c \in CPU, NEW p \in Slot, ScanSwitches(c, p)
      PROVE  NoPanic'
  BY <1>0, <1>5
     DEF ScanSwitches, InScheduler, cpuVars, schedVars, procVars, IInv, TypeOK, NoPanic, Locks,
         Interrupts, Count, Lock, HasPtable, HasLk, Interruptible, In, Spins
<1>6. ASSUME NEW c \in CPU, sched_release(c)
      PROVE  NoPanic'
  BY <1>0, <1>6
     DEF sched_release, release, Popped, PopcliOK, InScheduler, schedVars, procVars, IInv,
         TypeOK, NoPanic, Locks, Interrupts, Count, Lock, HasPtable, HasLk, Interruptible, In,
         Spins
<1>7. ASSUME NEW c \in CPU, sched_hlt(c)
      PROVE  NoPanic'
  BY <1>0, <1>7
     DEF sched_hlt, InScheduler, cpuVars, schedVars, procVars, IInv, TypeOK, NoPanic, Locks,
         Interrupts, Count, Lock, HasPtable, HasLk, Interruptible, In, Spins
<1>8. ASSUME NEW c \in CPU, NEW p \in Slot, NEW at \in {"lock", "exit"}, enter(c, p, at)
      PROVE  NoPanic'
  BY <1>0, <1>8
     DEF enter, On, schedVars, procVars, IInv, TypeOK, NoPanic, Locks, Interrupts, Count, Lock,
         HasPtable, HasLk, Interruptible, In, Spins
<1>9. ASSUME NEW c \in CPU, NEW p \in Slot, timer_yields(c, p)
      PROVE  NoPanic'
  BY <1>0, <1>9
     DEF timer_yields, On, schedVars, procVars, IInv, TypeOK, NoPanic, Locks, Interrupts, Count,
         Lock, HasPtable, HasLk, Interruptible, In, Spins
<1>10. ASSUME NEW c \in CPU, NEW p \in Slot, acquire_lk(c, p)
      PROVE  NoPanic'
  BY <1>0, <1>10
     DEF acquire_lk, acquire, On, schedVars, procVars, IInv, TypeOK, NoPanic, Locks, Interrupts,
         Count, Lock, HasPtable, HasLk, Interruptible, In, Spins
<1>11. ASSUME NEW c \in CPU, NEW p \in Slot, consume(c, p)
      PROVE  NoPanic'
  BY <1>0, <1>11
     DEF consume, release, Popped, PopcliOK, On, schedVars, procVars, IInv, TypeOK, NoPanic,
         Locks, Interrupts, Count, Lock, HasPtable, HasLk, Interruptible, In, Spins
<1>12. ASSUME NEW c \in CPU, NEW p \in Slot, sleep(c, p)
      PROVE  NoPanic'
  BY <1>0, <1>12
     DEF sleep, acquire, On, schedVars, procVars, IInv, TypeOK, NoPanic, Locks, Interrupts,
         Count, Lock, HasPtable, HasLk, Interruptible, In, Spins
<1>13. ASSUME NEW c \in CPU, NEW p \in Slot, sleep_release(c, p)
      PROVE  NoPanic'
  BY <1>0, <1>13
     DEF sleep_release, release, Popped, PopcliOK, On, schedVars, procVars, IInv, TypeOK,
         NoPanic, Locks, Interrupts, Count, Lock, HasPtable, HasLk, Interruptible, In, Spins
<1>14. ASSUME NEW c \in CPU, NEW p \in Slot, lock_ptable(c, p)
      PROVE  NoPanic'
  BY <1>0, <1>14
     DEF lock_ptable, acquire, On, schedVars, procVars, IInv, TypeOK, NoPanic, Locks,
         Interrupts, Count, Lock, HasPtable, HasLk, Interruptible, In, Spins
<1>15. ASSUME NEW c \in CPU, NEW p \in Slot, sched(c, p, "sleeping", "SLEEPING", "woken")
      PROVE  NoPanic'
  BY <1>0, <1>15
     DEF sched, SchedOK, On, cpuVars, schedVars, procVars, IInv, TypeOK, NoPanic, Locks,
         Interrupts, Count, Lock, HasPtable, HasLk, Interruptible, In, Spins
<1>16. ASSUME NEW c \in CPU, NEW p \in Slot, sched(c, p, "yielding", "RUNNABLE", "yielded")
      PROVE  NoPanic'
  BY <1>0, <1>16
     DEF sched, SchedOK, On, cpuVars, schedVars, procVars, IInv, TypeOK, NoPanic, Locks,
         Interrupts, Count, Lock, HasPtable, HasLk, Interruptible, In, Spins
<1>17. ASSUME NEW c \in CPU, NEW p \in Slot, sched(c, p, "exiting", "ZOMBIE", "exiting")
      PROVE  NoPanic'
  BY <1>0, <1>17
     DEF sched, SchedOK, On, cpuVars, schedVars, procVars, IInv, TypeOK, NoPanic, Locks,
         Interrupts, Count, Lock, HasPtable, HasLk, Interruptible, In, Spins
<1>18. ASSUME NEW c \in CPU, NEW p \in Slot, resume(c, p)
      PROVE  NoPanic'
  BY <1>0, <1>18
     DEF resume, release, Popped, PopcliOK, On, schedVars, procVars, IInv, TypeOK, NoPanic,
         Locks, Interrupts, Count, Lock, HasPtable, HasLk, Interruptible, In, Spins
<1>19. ASSUME NEW c \in CPU, NEW p \in Slot, forkret(c, p)
      PROVE  NoPanic'
  BY <1>0, <1>19
     DEF forkret, release, Popped, PopcliOK, On, schedVars, procVars, IInv, TypeOK, NoPanic,
         Locks, Interrupts, Count, Lock, HasPtable, HasLk, Interruptible, In, Spins
<1>20. ASSUME NEW c \in CPU, NEW p \in Slot, NEW s \in Slot, fork(c, p, s)
      PROVE  NoPanic'
  BY <1>0, <1>20
     DEF fork, On, schedVars, procVars, IInv, TypeOK, NoPanic, Locks, Interrupts, Count, Lock,
         HasPtable, HasLk, Interruptible, In, Spins
<1>21. ASSUME NEW c \in CPU, NEW p \in Slot, fork_run(c, p)
      PROVE  NoPanic'
  BY <1>0, <1>21
     DEF fork_run, On, schedVars, procVars, IInv, TypeOK, NoPanic, Locks, Interrupts, Count,
         Lock, HasPtable, HasLk, Interruptible, In, Spins
<1>22. ASSUME NEW c \in CPU, NEW p \in Slot, NEW s \in Slot, wait(c, p, s)
      PROVE  NoPanic'
  BY <1>0, <1>22
     DEF wait, On, schedVars, procVars, IInv, TypeOK, NoPanic, Locks, Interrupts, Count, Lock,
         HasPtable, HasLk, Interruptible, In, Spins
<1>23. ASSUME NEW c \in CPU, intr(c)
      PROVE  NoPanic'
  BY <1>0, <1>23
     DEF intr, schedVars, procVars, IInv, TypeOK, NoPanic, Locks, Interrupts, Count, Lock,
         HasPtable, HasLk, Interruptible, In, Spins
<1>24. ASSUME NEW c \in CPU, intr_lock(c)
      PROVE  NoPanic'
  BY <1>0, <1>24
     DEF intr_lock, acquire, schedVars, procVars, IInv, TypeOK, NoPanic, Locks, Interrupts,
         Count, Lock, HasPtable, HasLk, Interruptible, In, Spins
<1>25. ASSUME NEW c \in CPU, wakeup(c)
      PROVE  NoPanic'
  BY <1>0, <1>25
     DEF wakeup, MayWake, PopcliOK, schedVars, procVars, IInv, TypeOK, NoPanic, Locks,
         Interrupts, Count, Lock, HasPtable, HasLk, Interruptible, In, Spins
<1>26. ASSUME NEW c \in CPU, intr_ret(c)
      PROVE  NoPanic'
  BY <1>0, <1>26
     DEF intr_ret, release, Popped, PopcliOK, WakeHalted, schedVars, procVars, IInv, TypeOK,
         NoPanic, Locks, Interrupts, Count, Lock, HasPtable, HasLk, Interruptible, In, Spins
<1>27. ASSUME NEW c \in CPU, timer_wakes(c)
      PROVE  NoPanic'
  BY <1>0, <1>27
     DEF timer_wakes, WakeHalted, InScheduler, cpuVars, schedVars, procVars, IInv, TypeOK,
         NoPanic, Locks, Interrupts, Count, Lock, HasPtable, HasLk, Interruptible, In, Spins
<1>28. CASE UNCHANGED vars
  BY <1>28
     DEF vars, IInv, TypeOK, NoPanic, Locks, Interrupts, Count, Lock, HasPtable, HasLk,
         Interruptible, In, Spins
<1> QED
  BY <1>1, <1>2, <1>3, <1>4, <1>5, <1>6, <1>7, <1>8, <1>9, <1>10, <1>11, <1>12, <1>13, <1>14,
     <1>15, <1>16, <1>17, <1>18, <1>19, <1>20, <1>21, <1>22, <1>23, <1>24, <1>25, <1>26, <1>27,
     <1>28, NextCases
     DEF IInv

(* Every step keeps stacks apart. *)
LEMMA StacksStep ==
  ASSUME IInv, [Next]_vars
  PROVE  Stacks'
PROOF
<1>0. None \notin Slot /\ None \notin CPU
  BY SchedAssumption DEF Slot, None
<1>1. ASSUME NEW c \in CPU, acquire_start(c)
      PROVE  Stacks'
  BY <1>0, <1>1
     DEF acquire_start, pushcli, Wants, InScheduler, On, schedVars, procVars, IInv, TypeOK,
         Stacks, StackSafe, Lock, State
<1>2. ASSUME NEW c \in CPU, sched_sti(c)
      PROVE  Stacks'
  BY <1>0, <1>2
     DEF sched_sti, InScheduler, schedVars, procVars, IInv, TypeOK, Stacks, StackSafe, Lock,
         State
<1>3. ASSUME NEW c \in CPU, sched_acquire(c)
      PROVE  Stacks'
  BY <1>0, <1>3
     DEF sched_acquire, acquire, InScheduler, schedVars, procVars, IInv, TypeOK, Stacks,
         StackSafe, Lock, State
<1>4. ASSUME NEW c \in CPU, ScanSkips(c)
      PROVE  Stacks'
  BY <1>0, <1>4
     DEF ScanSkips, InScheduler, cpuVars, schedVars, procVars, IInv, TypeOK, Stacks, StackSafe,
         Lock, State
<1>5. ASSUME NEW c \in CPU, NEW p \in Slot, ScanSwitches(c, p)
      PROVE  Stacks'
  BY <1>0, <1>5
     DEF ScanSwitches, InScheduler, cpuVars, schedVars, procVars, IInv, TypeOK, Stacks,
         StackSafe, Lock, State
<1>6. ASSUME NEW c \in CPU, sched_release(c)
      PROVE  Stacks'
  BY <1>0, <1>6
     DEF sched_release, release, Popped, PopcliOK, InScheduler, schedVars, procVars, IInv,
         TypeOK, Stacks, StackSafe, Lock, State
<1>7. ASSUME NEW c \in CPU, sched_hlt(c)
      PROVE  Stacks'
  BY <1>0, <1>7
     DEF sched_hlt, InScheduler, cpuVars, schedVars, procVars, IInv, TypeOK, Stacks, StackSafe,
         Lock, State
<1>8. ASSUME NEW c \in CPU, NEW p \in Slot, NEW at \in {"lock", "exit"}, enter(c, p, at)
      PROVE  Stacks'
  BY <1>0, <1>8 DEF enter, On, schedVars, procVars, IInv, TypeOK, Stacks, StackSafe, Lock, State
<1>9. ASSUME NEW c \in CPU, NEW p \in Slot, timer_yields(c, p)
      PROVE  Stacks'
  BY <1>0, <1>9
     DEF timer_yields, On, schedVars, procVars, IInv, TypeOK, Stacks, StackSafe, Lock, State
<1>10. ASSUME NEW c \in CPU, NEW p \in Slot, acquire_lk(c, p)
      PROVE  Stacks'
  BY <1>0, <1>10
     DEF acquire_lk, acquire, On, schedVars, procVars, IInv, TypeOK, Stacks, StackSafe, Lock,
         State
<1>11. ASSUME NEW c \in CPU, NEW p \in Slot, consume(c, p)
      PROVE  Stacks'
  BY <1>0, <1>11
     DEF consume, release, Popped, PopcliOK, On, schedVars, procVars, IInv, TypeOK, Stacks,
         StackSafe, Lock, State
<1>12. ASSUME NEW c \in CPU, NEW p \in Slot, sleep(c, p)
      PROVE  Stacks'
  BY <1>0, <1>12
     DEF sleep, acquire, On, schedVars, procVars, IInv, TypeOK, Stacks, StackSafe, Lock, State
<1>13. ASSUME NEW c \in CPU, NEW p \in Slot, sleep_release(c, p)
      PROVE  Stacks'
  BY <1>0, <1>13
     DEF sleep_release, release, Popped, PopcliOK, On, schedVars, procVars, IInv, TypeOK,
         Stacks, StackSafe, Lock, State
<1>14. ASSUME NEW c \in CPU, NEW p \in Slot, lock_ptable(c, p)
      PROVE  Stacks'
  BY <1>0, <1>14
     DEF lock_ptable, acquire, On, schedVars, procVars, IInv, TypeOK, Stacks, StackSafe, Lock,
         State
<1>15. ASSUME NEW c \in CPU, NEW p \in Slot, sched(c, p, "sleeping", "SLEEPING", "woken")
      PROVE  Stacks'
  BY <1>0, <1>15
     DEF sched, SchedOK, On, cpuVars, schedVars, procVars, IInv, TypeOK, Stacks, StackSafe,
         Lock, State
<1>16. ASSUME NEW c \in CPU, NEW p \in Slot, sched(c, p, "yielding", "RUNNABLE", "yielded")
      PROVE  Stacks'
  BY <1>0, <1>16
     DEF sched, SchedOK, On, cpuVars, schedVars, procVars, IInv, TypeOK, Stacks, StackSafe,
         Lock, State
<1>17. ASSUME NEW c \in CPU, NEW p \in Slot, sched(c, p, "exiting", "ZOMBIE", "exiting")
      PROVE  Stacks'
  BY <1>0, <1>17
     DEF sched, SchedOK, On, cpuVars, schedVars, procVars, IInv, TypeOK, Stacks, StackSafe,
         Lock, State
<1>18. ASSUME NEW c \in CPU, NEW p \in Slot, resume(c, p)
      PROVE  Stacks'
  BY <1>0, <1>18
     DEF resume, release, Popped, PopcliOK, On, schedVars, procVars, IInv, TypeOK, Stacks,
         StackSafe, Lock, State
<1>19. ASSUME NEW c \in CPU, NEW p \in Slot, forkret(c, p)
      PROVE  Stacks'
  BY <1>0, <1>19
     DEF forkret, release, Popped, PopcliOK, On, schedVars, procVars, IInv, TypeOK, Stacks,
         StackSafe, Lock, State
<1>20. ASSUME NEW c \in CPU, NEW p \in Slot, NEW s \in Slot, fork(c, p, s)
      PROVE  Stacks'
  BY <1>0, <1>20 DEF fork, On, schedVars, procVars, IInv, TypeOK, Stacks, StackSafe, Lock, State
<1>21. ASSUME NEW c \in CPU, NEW p \in Slot, fork_run(c, p)
      PROVE  Stacks'
  BY <1>0, <1>21
     DEF fork_run, On, schedVars, procVars, IInv, TypeOK, Stacks, StackSafe, Lock, State
<1>22. ASSUME NEW c \in CPU, NEW p \in Slot, NEW s \in Slot, wait(c, p, s)
      PROVE  Stacks'
  BY <1>0, <1>22 DEF wait, On, schedVars, procVars, IInv, TypeOK, Stacks, StackSafe, Lock, State
<1>23. ASSUME NEW c \in CPU, intr(c)
      PROVE  Stacks'
  BY <1>0, <1>23 DEF intr, schedVars, procVars, IInv, TypeOK, Stacks, StackSafe, Lock, State
<1>24. ASSUME NEW c \in CPU, intr_lock(c)
      PROVE  Stacks'
  BY <1>0, <1>24
     DEF intr_lock, acquire, schedVars, procVars, IInv, TypeOK, Stacks, StackSafe, Lock, State
<1>25. ASSUME NEW c \in CPU, wakeup(c)
      PROVE  Stacks'
  BY <1>0, <1>25
     DEF wakeup, MayWake, PopcliOK, schedVars, procVars, IInv, TypeOK, Stacks, StackSafe, Lock,
         State
<1>26. ASSUME NEW c \in CPU, intr_ret(c)
      PROVE  Stacks'
  BY <1>0, <1>26
     DEF intr_ret, release, Popped, PopcliOK, WakeHalted, schedVars, procVars, IInv, TypeOK,
         Stacks, StackSafe, Lock, State
<1>27. ASSUME NEW c \in CPU, timer_wakes(c)
      PROVE  Stacks'
  BY <1>0, <1>27
     DEF timer_wakes, WakeHalted, InScheduler, cpuVars, schedVars, procVars, IInv, TypeOK,
         Stacks, StackSafe, Lock, State
<1>28. CASE UNCHANGED vars
  BY <1>28 DEF vars, IInv, TypeOK, Stacks, StackSafe, Lock, State
<1> QED
  BY <1>1, <1>2, <1>3, <1>4, <1>5, <1>6, <1>7, <1>8, <1>9, <1>10, <1>11, <1>12, <1>13, <1>14,
     <1>15, <1>16, <1>17, <1>18, <1>19, <1>20, <1>21, <1>22, <1>23, <1>24, <1>25, <1>26, <1>27,
     <1>28, NextCases
     DEF IInv

(* Every step keeps the locks where the code says. *)
LEMMA LocksStep ==
  ASSUME IInv, [Next]_vars
  PROVE  Locks'
PROOF
<1>0. None \notin Slot /\ None \notin CPU
  BY SchedAssumption DEF Slot, None
<1>1. ASSUME NEW c \in CPU, acquire_start(c)
      PROVE  Locks'
  BY <1>0, <1>1
     DEF acquire_start, pushcli, Wants, InScheduler, On, schedVars, procVars, IInv, TypeOK,
         Stacks, StackSafe, Locks, Lock, HasPtable, HasLk, Interruptible, In, Spins
<1>2. ASSUME NEW c \in CPU, sched_sti(c)
      PROVE  Locks'
  BY <1>0, <1>2
     DEF sched_sti, InScheduler, schedVars, procVars, IInv, TypeOK, Stacks, StackSafe, Locks,
         Lock, HasPtable, HasLk, Interruptible, In, Spins
<1>3. ASSUME NEW c \in CPU, sched_acquire(c)
      PROVE  Locks'
  BY <1>0, <1>3
     DEF sched_acquire, acquire, InScheduler, schedVars, procVars, IInv, TypeOK, Stacks,
         StackSafe, Locks, Lock, HasPtable, HasLk, Interruptible, In, Spins
<1>4. ASSUME NEW c \in CPU, ScanSkips(c)
      PROVE  Locks'
  BY <1>0, <1>4
     DEF ScanSkips, InScheduler, cpuVars, schedVars, procVars, IInv, TypeOK, Stacks, StackSafe,
         Locks, Lock, HasPtable, HasLk, Interruptible, In, Spins
<1>5. ASSUME NEW c \in CPU, NEW p \in Slot, ScanSwitches(c, p)
      PROVE  Locks'
  BY <1>0, <1>5
     DEF ScanSwitches, InScheduler, cpuVars, schedVars, procVars, IInv, TypeOK, Stacks,
         StackSafe, Locks, Lock, HasPtable, HasLk, Interruptible, In, Spins
<1>6. ASSUME NEW c \in CPU, sched_release(c)
      PROVE  Locks'
  BY <1>0, <1>6
     DEF sched_release, release, Popped, PopcliOK, InScheduler, schedVars, procVars, IInv,
         TypeOK, Stacks, StackSafe, Locks, Lock, HasPtable, HasLk, Interruptible, In, Spins
<1>7. ASSUME NEW c \in CPU, sched_hlt(c)
      PROVE  Locks'
  BY <1>0, <1>7
     DEF sched_hlt, InScheduler, cpuVars, schedVars, procVars, IInv, TypeOK, Stacks, StackSafe,
         Locks, Lock, HasPtable, HasLk, Interruptible, In, Spins
<1>8. ASSUME NEW c \in CPU, NEW p \in Slot, NEW at \in {"lock", "exit"}, enter(c, p, at)
      PROVE  Locks'
  BY <1>0, <1>8
     DEF enter, On, schedVars, procVars, IInv, TypeOK, Stacks, StackSafe, Locks, Lock,
         HasPtable, HasLk, Interruptible, In, Spins
<1>9. ASSUME NEW c \in CPU, NEW p \in Slot, timer_yields(c, p)
      PROVE  Locks'
  BY <1>0, <1>9
     DEF timer_yields, On, schedVars, procVars, IInv, TypeOK, Stacks, StackSafe, Locks, Lock,
         HasPtable, HasLk, Interruptible, In, Spins
<1>10. ASSUME NEW c \in CPU, NEW p \in Slot, acquire_lk(c, p)
      PROVE  Locks'
  BY <1>0, <1>10
     DEF acquire_lk, acquire, On, schedVars, procVars, IInv, TypeOK, Stacks, StackSafe, Locks,
         Lock, HasPtable, HasLk, Interruptible, In, Spins
<1>11. ASSUME NEW c \in CPU, NEW p \in Slot, consume(c, p)
      PROVE  Locks'
  BY <1>0, <1>11
     DEF consume, release, Popped, PopcliOK, On, schedVars, procVars, IInv, TypeOK, Stacks,
         StackSafe, Locks, Lock, HasPtable, HasLk, Interruptible, In, Spins
<1>12. ASSUME NEW c \in CPU, NEW p \in Slot, sleep(c, p)
      PROVE  Locks'
  BY <1>0, <1>12
     DEF sleep, acquire, On, schedVars, procVars, IInv, TypeOK, Stacks, StackSafe, Locks, Lock,
         HasPtable, HasLk, Interruptible, In, Spins
<1>13. ASSUME NEW c \in CPU, NEW p \in Slot, sleep_release(c, p)
      PROVE  Locks'
  BY <1>0, <1>13
     DEF sleep_release, release, Popped, PopcliOK, On, schedVars, procVars, IInv, TypeOK,
         Stacks, StackSafe, Locks, Lock, HasPtable, HasLk, Interruptible, In, Spins
<1>14. ASSUME NEW c \in CPU, NEW p \in Slot, lock_ptable(c, p)
      PROVE  Locks'
  BY <1>0, <1>14
     DEF lock_ptable, acquire, On, schedVars, procVars, IInv, TypeOK, Stacks, StackSafe, Locks,
         Lock, HasPtable, HasLk, Interruptible, In, Spins
<1>15. ASSUME NEW c \in CPU, NEW p \in Slot, sched(c, p, "sleeping", "SLEEPING", "woken")
      PROVE  Locks'
  BY <1>0, <1>15
     DEF sched, SchedOK, On, cpuVars, schedVars, procVars, IInv, TypeOK, Stacks, StackSafe,
         Locks, Lock, HasPtable, HasLk, Interruptible, In, Spins
<1>16. ASSUME NEW c \in CPU, NEW p \in Slot, sched(c, p, "yielding", "RUNNABLE", "yielded")
      PROVE  Locks'
  BY <1>0, <1>16
     DEF sched, SchedOK, On, cpuVars, schedVars, procVars, IInv, TypeOK, Stacks, StackSafe,
         Locks, Lock, HasPtable, HasLk, Interruptible, In, Spins
<1>17. ASSUME NEW c \in CPU, NEW p \in Slot, sched(c, p, "exiting", "ZOMBIE", "exiting")
      PROVE  Locks'
  BY <1>0, <1>17
     DEF sched, SchedOK, On, cpuVars, schedVars, procVars, IInv, TypeOK, Stacks, StackSafe,
         Locks, Lock, HasPtable, HasLk, Interruptible, In, Spins
<1>18. ASSUME NEW c \in CPU, NEW p \in Slot, resume(c, p)
      PROVE  Locks'
  BY <1>0, <1>18
     DEF resume, release, Popped, PopcliOK, On, schedVars, procVars, IInv, TypeOK, Stacks,
         StackSafe, Locks, Lock, HasPtable, HasLk, Interruptible, In, Spins
<1>19. ASSUME NEW c \in CPU, NEW p \in Slot, forkret(c, p)
      PROVE  Locks'
  BY <1>0, <1>19
     DEF forkret, release, Popped, PopcliOK, On, schedVars, procVars, IInv, TypeOK, Stacks,
         StackSafe, Locks, Lock, HasPtable, HasLk, Interruptible, In, Spins
<1>20. ASSUME NEW c \in CPU, NEW p \in Slot, NEW s \in Slot, fork(c, p, s)
      PROVE  Locks'
  BY <1>0, <1>20
     DEF fork, On, schedVars, procVars, IInv, TypeOK, Stacks, StackSafe, Locks, Lock, HasPtable,
         HasLk, Interruptible, In, Spins
<1>21. ASSUME NEW c \in CPU, NEW p \in Slot, fork_run(c, p)
      PROVE  Locks'
  BY <1>0, <1>21
     DEF fork_run, On, schedVars, procVars, IInv, TypeOK, Stacks, StackSafe, Locks, Lock,
         HasPtable, HasLk, Interruptible, In, Spins
<1>22. ASSUME NEW c \in CPU, NEW p \in Slot, NEW s \in Slot, wait(c, p, s)
      PROVE  Locks'
  BY <1>0, <1>22
     DEF wait, On, schedVars, procVars, IInv, TypeOK, Stacks, StackSafe, Locks, Lock, HasPtable,
         HasLk, Interruptible, In, Spins
<1>23. ASSUME NEW c \in CPU, intr(c)
      PROVE  Locks'
  <2>1. hpc[c] = "none" /\ Interruptible(c) /\ ~spin[c]
    BY <1>23 DEF intr, IInv, Interrupts
  <2>2. hpc' = [hpc EXCEPT ![c] = "lock"] /\ UNCHANGED <<ctx, spc, pc, holder, spin, cond>>
    BY <1>23 DEF intr, schedVars
  <2> QED
    BY <2>1, <2>2 DEF IInv, TypeOK, Locks, Lock, HasPtable, HasLk, Interruptible, In, Spins
<1>24. ASSUME NEW c \in CPU, intr_lock(c)
      PROVE  Locks'
  BY <1>0, <1>24
     DEF intr_lock, acquire, schedVars, procVars, IInv, TypeOK, Stacks, StackSafe, Locks, Lock,
         HasPtable, HasLk, Interruptible, In, Spins
<1>25. ASSUME NEW c \in CPU, wakeup(c)
      PROVE  Locks'
  BY <1>0, <1>25
     DEF wakeup, MayWake, PopcliOK, schedVars, procVars, IInv, TypeOK, Stacks, StackSafe, Locks,
         Lock, HasPtable, HasLk, Interruptible, In, Spins
<1>26. ASSUME NEW c \in CPU, intr_ret(c)
      PROVE  Locks'
  BY <1>0, <1>26
     DEF intr_ret, release, Popped, PopcliOK, WakeHalted, schedVars, procVars, IInv, TypeOK,
         Stacks, StackSafe, Locks, Lock, HasPtable, HasLk, Interruptible, In, Spins
<1>27. ASSUME NEW c \in CPU, timer_wakes(c)
      PROVE  Locks'
  BY <1>0, <1>27
     DEF timer_wakes, WakeHalted, InScheduler, cpuVars, schedVars, procVars, IInv, TypeOK,
         Stacks, StackSafe, Locks, Lock, HasPtable, HasLk, Interruptible, In, Spins
<1>28. CASE UNCHANGED vars
  BY <1>28
     DEF vars, IInv, TypeOK, Stacks, StackSafe, Locks, Lock, HasPtable, HasLk, Interruptible,
         In, Spins
<1> QED
  BY <1>1, <1>2, <1>3, <1>4, <1>5, <1>6, <1>7, <1>8, <1>9, <1>10, <1>11, <1>12, <1>13, <1>14,
     <1>15, <1>16, <1>17, <1>18, <1>19, <1>20, <1>21, <1>22, <1>23, <1>24, <1>25, <1>26, <1>27,
     <1>28, NextCases
     DEF IInv

(* Every step keeps interrupts off where a lock is held. *)
LEMMA InterruptsStep ==
  ASSUME IInv, [Next]_vars
  PROVE  Interrupts'
PROOF
<1>0. None \notin Slot /\ None \notin CPU
  BY SchedAssumption DEF Slot, None
<1>1. ASSUME NEW c \in CPU, acquire_start(c)
      PROVE  Interrupts'
  BY <1>0, <1>1
     DEF acquire_start, pushcli, Wants, InScheduler, On, schedVars, procVars, IInv, TypeOK,
         Stacks, StackSafe, Locks, Interrupts, Count, Skips, Lock, HasPtable, HasLk,
         Interruptible, In, Spins
<1>2. ASSUME NEW c \in CPU, sched_sti(c)
      PROVE  Interrupts'
  BY <1>0, <1>2
     DEF sched_sti, InScheduler, schedVars, procVars, IInv, TypeOK, Stacks, StackSafe, Locks,
         Interrupts, Count, Skips, Lock, HasPtable, HasLk, Interruptible, In, Spins
<1>3. ASSUME NEW c \in CPU, sched_acquire(c)
      PROVE  Interrupts'
  BY <1>0, <1>3
     DEF sched_acquire, acquire, InScheduler, schedVars, procVars, IInv, TypeOK, Stacks,
         StackSafe, Locks, Interrupts, Count, Skips, Lock, HasPtable, HasLk, Interruptible, In,
         Spins
<1>4. ASSUME NEW c \in CPU, ScanSkips(c)
      PROVE  Interrupts'
  BY <1>0, <1>4
     DEF ScanSkips, InScheduler, cpuVars, schedVars, procVars, IInv, TypeOK, Stacks, StackSafe,
         Locks, Interrupts, Count, Skips, Lock, HasPtable, HasLk, Interruptible, In, Spins
<1>5. ASSUME NEW c \in CPU, NEW p \in Slot, ScanSwitches(c, p)
      PROVE  Interrupts'
  BY <1>0, <1>5
     DEF ScanSwitches, InScheduler, cpuVars, schedVars, procVars, IInv, TypeOK, Stacks,
         StackSafe, Locks, Interrupts, Count, Skips, Lock, HasPtable, HasLk, Interruptible, In,
         Spins
<1>6. ASSUME NEW c \in CPU, sched_release(c)
      PROVE  Interrupts'
  <2>1. ncli[c] = 1 /\ ~spin[c] /\ ~iflag[c] /\ holder["ptable"] = c
    BY <1>0, <1>6
       DEF sched_release, InScheduler, IInv, TypeOK, Locks, Interrupts, Count, HasPtable, HasLk,
           Interruptible, Spins, In
  <2>2. /\ ncli' = [ncli EXCEPT ![c] = 0]
        /\ spin' = spin
    BY <1>6, <2>1 DEF sched_release, release
  <2>4. /\ iflag'[c] <=> intena[c]
        /\ \A d \in CPU : d # c => (iflag'[d] <=> iflag[d])
    BY <1>6, <2>1 DEF sched_release, release, Popped, IInv, TypeOK
  <2>3. skipped[c] > NPROC => intena[c]
    BY <1>6, SchedAssumption DEF sched_release, InScheduler, IInv, TypeOK, Interrupts
  <2> QED
    BY <1>0, <1>6, <2>1, <2>2, <2>3, <2>4
       DEF sched_release, InScheduler, schedVars, procVars, IInv, TypeOK, Interrupts, Count,
      HasPtable, HasLk, Interruptible, In
<1>7. ASSUME NEW c \in CPU, sched_hlt(c)
      PROVE  Interrupts'
  BY <1>0, <1>7
     DEF sched_hlt, InScheduler, cpuVars, schedVars, procVars, IInv, TypeOK, Stacks, StackSafe,
         Locks, Interrupts, Count, Skips, Lock, HasPtable, HasLk, Interruptible, In, Spins
<1>8. ASSUME NEW c \in CPU, NEW p \in Slot, NEW at \in {"lock", "exit"}, enter(c, p, at)
      PROVE  Interrupts'
  BY <1>0, <1>8
     DEF enter, On, schedVars, procVars, IInv, TypeOK, Stacks, StackSafe, Locks, Interrupts,
         Count, Skips, Lock, HasPtable, HasLk, Interruptible, In, Spins
<1>9. ASSUME NEW c \in CPU, NEW p \in Slot, timer_yields(c, p)
      PROVE  Interrupts'
  BY <1>0, <1>9
     DEF timer_yields, On, schedVars, procVars, IInv, TypeOK, Stacks, StackSafe, Locks,
         Interrupts, Count, Skips, Lock, HasPtable, HasLk, Interruptible, In, Spins
<1>10. ASSUME NEW c \in CPU, NEW p \in Slot, acquire_lk(c, p)
      PROVE  Interrupts'
  BY <1>0, <1>10
     DEF acquire_lk, acquire, On, schedVars, procVars, IInv, TypeOK, Stacks, StackSafe, Locks,
         Interrupts, Count, Skips, Lock, HasPtable, HasLk, Interruptible, In, Spins
<1>11. ASSUME NEW c \in CPU, NEW p \in Slot, consume(c, p)
      PROVE  Interrupts'
  BY <1>0, <1>11
     DEF consume, release, Popped, PopcliOK, On, schedVars, procVars, IInv, TypeOK, Stacks,
         StackSafe, Locks, Interrupts, Count, Skips, Lock, HasPtable, HasLk, Interruptible, In,
         Spins
<1>12. ASSUME NEW c \in CPU, NEW p \in Slot, sleep(c, p)
      PROVE  Interrupts'
  BY <1>0, <1>12
     DEF sleep, acquire, On, schedVars, procVars, IInv, TypeOK, Stacks, StackSafe, Locks,
         Interrupts, Count, Skips, Lock, HasPtable, HasLk, Interruptible, In, Spins
<1>13. ASSUME NEW c \in CPU, NEW p \in Slot, sleep_release(c, p)
      PROVE  Interrupts'
  BY <1>0, <1>13
     DEF sleep_release, release, Popped, PopcliOK, On, schedVars, procVars, IInv, TypeOK,
         Stacks, StackSafe, Locks, Interrupts, Count, Skips, Lock, HasPtable, HasLk,
         Interruptible, In, Spins
<1>14. ASSUME NEW c \in CPU, NEW p \in Slot, lock_ptable(c, p)
      PROVE  Interrupts'
  BY <1>0, <1>14
     DEF lock_ptable, acquire, On, schedVars, procVars, IInv, TypeOK, Stacks, StackSafe, Locks,
         Interrupts, Count, Skips, Lock, HasPtable, HasLk, Interruptible, In, Spins
<1>15. ASSUME NEW c \in CPU, NEW p \in Slot, sched(c, p, "sleeping", "SLEEPING", "woken")
      PROVE  Interrupts'
  BY <1>0, <1>15
     DEF sched, SchedOK, On, cpuVars, schedVars, procVars, IInv, TypeOK, Stacks, StackSafe,
         Locks, Interrupts, Count, Skips, Lock, HasPtable, HasLk, Interruptible, In, Spins
<1>16. ASSUME NEW c \in CPU, NEW p \in Slot, sched(c, p, "yielding", "RUNNABLE", "yielded")
      PROVE  Interrupts'
  BY <1>0, <1>16
     DEF sched, SchedOK, On, cpuVars, schedVars, procVars, IInv, TypeOK, Stacks, StackSafe,
         Locks, Interrupts, Count, Skips, Lock, HasPtable, HasLk, Interruptible, In, Spins
<1>17. ASSUME NEW c \in CPU, NEW p \in Slot, sched(c, p, "exiting", "ZOMBIE", "exiting")
      PROVE  Interrupts'
  BY <1>0, <1>17
     DEF sched, SchedOK, On, cpuVars, schedVars, procVars, IInv, TypeOK, Stacks, StackSafe,
         Locks, Interrupts, Count, Skips, Lock, HasPtable, HasLk, Interruptible, In, Spins
<1>18. ASSUME NEW c \in CPU, NEW p \in Slot, resume(c, p)
      PROVE  Interrupts'
  BY <1>0, <1>18
     DEF resume, release, Popped, PopcliOK, On, schedVars, procVars, IInv, TypeOK, Stacks,
         StackSafe, Locks, Interrupts, Count, Skips, Lock, HasPtable, HasLk, Interruptible, In,
         Spins
<1>19. ASSUME NEW c \in CPU, NEW p \in Slot, forkret(c, p)
      PROVE  Interrupts'
  BY <1>0, <1>19
     DEF forkret, release, Popped, PopcliOK, On, schedVars, procVars, IInv, TypeOK, Stacks,
         StackSafe, Locks, Interrupts, Count, Skips, Lock, HasPtable, HasLk, Interruptible, In,
         Spins
<1>20. ASSUME NEW c \in CPU, NEW p \in Slot, NEW s \in Slot, fork(c, p, s)
      PROVE  Interrupts'
  BY <1>0, <1>20
     DEF fork, On, schedVars, procVars, IInv, TypeOK, Stacks, StackSafe, Locks, Interrupts,
         Count, Skips, Lock, HasPtable, HasLk, Interruptible, In, Spins
<1>21. ASSUME NEW c \in CPU, NEW p \in Slot, fork_run(c, p)
      PROVE  Interrupts'
  BY <1>0, <1>21
     DEF fork_run, On, schedVars, procVars, IInv, TypeOK, Stacks, StackSafe, Locks, Interrupts,
         Count, Skips, Lock, HasPtable, HasLk, Interruptible, In, Spins
<1>22. ASSUME NEW c \in CPU, NEW p \in Slot, NEW s \in Slot, wait(c, p, s)
      PROVE  Interrupts'
  BY <1>0, <1>22
     DEF wait, On, schedVars, procVars, IInv, TypeOK, Stacks, StackSafe, Locks, Interrupts,
         Count, Skips, Lock, HasPtable, HasLk, Interruptible, In, Spins
<1>23. ASSUME NEW c \in CPU, intr(c)
      PROVE  Interrupts'
  BY <1>0, <1>23
     DEF intr, schedVars, procVars, IInv, TypeOK, Stacks, StackSafe, Locks, Interrupts, Count,
         Skips, Lock, HasPtable, HasLk, Interruptible, In, Spins
<1>24. ASSUME NEW c \in CPU, intr_lock(c)
      PROVE  Interrupts'
  BY <1>0, <1>24
     DEF intr_lock, acquire, schedVars, procVars, IInv, TypeOK, Stacks, StackSafe, Locks,
         Interrupts, Count, Skips, Lock, HasPtable, HasLk, Interruptible, In, Spins
<1>25. ASSUME NEW c \in CPU, wakeup(c)
      PROVE  Interrupts'
  BY <1>0, <1>25
     DEF wakeup, MayWake, PopcliOK, schedVars, procVars, IInv, TypeOK, Stacks, StackSafe, Locks,
         Interrupts, Count, Skips, Lock, HasPtable, HasLk, Interruptible, In, Spins
<1>26. ASSUME NEW c \in CPU, intr_ret(c)
      PROVE  Interrupts'
  <2>1. ncli[c] = 1 /\ ~spin[c] /\ Interruptible(c) /\ holder["lk"] = c
    BY <1>0, <1>26
       DEF intr_ret, IInv, TypeOK, Locks, Interrupts, Count, HasPtable, HasLk, Interruptible,
           Spins, In, Stacks
  <2>2. /\ ncli' = [ncli EXCEPT ![c] = 0]
        /\ hpc' = [hpc EXCEPT ![c] = "none"]
        /\ UNCHANGED <<spin, intena, ctx, pc, scan, skipped>>
    BY <1>26, <2>1 DEF intr_ret, release
  <2>4. /\ iflag'[c]
        /\ \A d \in CPU : d # c => (iflag'[d] <=> iflag[d])
    BY <1>26 DEF intr_ret, release, IInv, TypeOK
  <2>3. /\ \A d \in CPU : d # c => spc'[d] = spc[d]
        /\ spc'[c] = spc[c] \/ (spc[c] = "halted" /\ spc'[c] = "sti")
    BY <1>26 DEF intr_ret, WakeHalted, IInv, TypeOK
  <2> QED
    BY <1>0, <2>1, <2>2, <2>3, <2>4
       DEF IInv, TypeOK, Interrupts, Count, HasPtable, HasLk, Interruptible, In
<1>27. ASSUME NEW c \in CPU, timer_wakes(c)
      PROVE  Interrupts'
  BY <1>0, <1>27
     DEF timer_wakes, WakeHalted, InScheduler, cpuVars, schedVars, procVars, IInv, TypeOK,
         Stacks, StackSafe, Locks, Interrupts, Count, Skips, Lock, HasPtable, HasLk,
         Interruptible, In, Spins
<1>28. CASE UNCHANGED vars
  BY <1>28
     DEF vars, IInv, TypeOK, Stacks, StackSafe, Locks, Interrupts, Count, Skips, Lock,
         HasPtable, HasLk, Interruptible, In, Spins
<1> QED
  BY <1>1, <1>2, <1>3, <1>4, <1>5, <1>6, <1>7, <1>8, <1>9, <1>10, <1>11, <1>12, <1>13, <1>14,
     <1>15, <1>16, <1>17, <1>18, <1>19, <1>20, <1>21, <1>22, <1>23, <1>24, <1>25, <1>26, <1>27,
     <1>28, NextCases
     DEF IInv

(* Every step keeps the count of skipped slots. *)
LEMMA SkipsStep ==
  ASSUME IInv, [Next]_vars
  PROVE  Skips'
PROOF
<1>0. None \notin Slot /\ None \notin CPU
  BY SchedAssumption DEF Slot, None
<1>1. ASSUME NEW c \in CPU, acquire_start(c)
      PROVE  Skips'
  BY <1>0, <1>1, SchedAssumption
     DEF acquire_start, pushcli, Wants, InScheduler, On, schedVars, procVars, IInv, TypeOK,
         Stacks, Skips, Slot
<1>2. ASSUME NEW c \in CPU, sched_sti(c)
      PROVE  Skips'
  BY <1>0, <1>2, SchedAssumption
     DEF sched_sti, InScheduler, schedVars, procVars, IInv, TypeOK, Stacks, Skips, Slot
<1>3. ASSUME NEW c \in CPU, sched_acquire(c)
      PROVE  Skips'
  BY <1>0, <1>3, SchedAssumption
     DEF sched_acquire, acquire, InScheduler, schedVars, procVars, IInv, TypeOK, Stacks, Skips,
         Slot
<1>4. ASSUME NEW c \in CPU, ScanSkips(c)
      PROVE  Skips'
  BY <1>0, <1>4, SchedAssumption
     DEF ScanSkips, InScheduler, cpuVars, schedVars, procVars, IInv, TypeOK, Stacks, Skips, Slot
<1>5. ASSUME NEW c \in CPU, NEW p \in Slot, ScanSwitches(c, p)
      PROVE  Skips'
  BY <1>0, <1>5, SchedAssumption
     DEF ScanSwitches, InScheduler, cpuVars, schedVars, procVars, IInv, TypeOK, Stacks, Skips,
         Slot
<1>6. ASSUME NEW c \in CPU, sched_release(c)
      PROVE  Skips'
  BY <1>0, <1>6, SchedAssumption
     DEF sched_release, release, Popped, PopcliOK, InScheduler, schedVars, procVars, IInv,
         TypeOK, Stacks, Skips, Slot
<1>7. ASSUME NEW c \in CPU, sched_hlt(c)
      PROVE  Skips'
  BY <1>0, <1>7, SchedAssumption
     DEF sched_hlt, InScheduler, cpuVars, schedVars, procVars, IInv, TypeOK, Stacks, Skips, Slot
<1>8. ASSUME NEW c \in CPU, NEW p \in Slot, NEW at \in {"lock", "exit"}, enter(c, p, at)
      PROVE  Skips'
  BY <1>0, <1>8, SchedAssumption
     DEF enter, On, schedVars, procVars, IInv, TypeOK, Stacks, Skips, Slot
<1>9. ASSUME NEW c \in CPU, NEW p \in Slot, timer_yields(c, p)
      PROVE  Skips'
  BY <1>0, <1>9, SchedAssumption
     DEF timer_yields, On, schedVars, procVars, IInv, TypeOK, Stacks, Skips, Slot
<1>10. ASSUME NEW c \in CPU, NEW p \in Slot, acquire_lk(c, p)
      PROVE  Skips'
  BY <1>0, <1>10, SchedAssumption
     DEF acquire_lk, acquire, On, schedVars, procVars, IInv, TypeOK, Stacks, Skips, Slot
<1>11. ASSUME NEW c \in CPU, NEW p \in Slot, consume(c, p)
      PROVE  Skips'
  BY <1>0, <1>11, SchedAssumption
     DEF consume, release, Popped, PopcliOK, On, schedVars, procVars, IInv, TypeOK, Stacks,
         Skips, Slot
<1>12. ASSUME NEW c \in CPU, NEW p \in Slot, sleep(c, p)
      PROVE  Skips'
  BY <1>0, <1>12, SchedAssumption
     DEF sleep, acquire, On, schedVars, procVars, IInv, TypeOK, Stacks, Skips, Slot
<1>13. ASSUME NEW c \in CPU, NEW p \in Slot, sleep_release(c, p)
      PROVE  Skips'
  BY <1>0, <1>13, SchedAssumption
     DEF sleep_release, release, Popped, PopcliOK, On, schedVars, procVars, IInv, TypeOK,
         Stacks, Skips, Slot
<1>14. ASSUME NEW c \in CPU, NEW p \in Slot, lock_ptable(c, p)
      PROVE  Skips'
  BY <1>0, <1>14, SchedAssumption
     DEF lock_ptable, acquire, On, schedVars, procVars, IInv, TypeOK, Stacks, Skips, Slot
<1>15. ASSUME NEW c \in CPU, NEW p \in Slot, sched(c, p, "sleeping", "SLEEPING", "woken")
      PROVE  Skips'
  BY <1>0, <1>15, SchedAssumption
     DEF sched, SchedOK, On, cpuVars, schedVars, procVars, IInv, TypeOK, Stacks, Skips, Slot
<1>16. ASSUME NEW c \in CPU, NEW p \in Slot, sched(c, p, "yielding", "RUNNABLE", "yielded")
      PROVE  Skips'
  BY <1>0, <1>16, SchedAssumption
     DEF sched, SchedOK, On, cpuVars, schedVars, procVars, IInv, TypeOK, Stacks, Skips, Slot
<1>17. ASSUME NEW c \in CPU, NEW p \in Slot, sched(c, p, "exiting", "ZOMBIE", "exiting")
      PROVE  Skips'
  BY <1>0, <1>17, SchedAssumption
     DEF sched, SchedOK, On, cpuVars, schedVars, procVars, IInv, TypeOK, Stacks, Skips, Slot
<1>18. ASSUME NEW c \in CPU, NEW p \in Slot, resume(c, p)
      PROVE  Skips'
  BY <1>0, <1>18, SchedAssumption
     DEF resume, release, Popped, PopcliOK, On, schedVars, procVars, IInv, TypeOK, Stacks,
         Skips, Slot
<1>19. ASSUME NEW c \in CPU, NEW p \in Slot, forkret(c, p)
      PROVE  Skips'
  BY <1>0, <1>19, SchedAssumption
     DEF forkret, release, Popped, PopcliOK, On, schedVars, procVars, IInv, TypeOK, Stacks,
         Skips, Slot
<1>20. ASSUME NEW c \in CPU, NEW p \in Slot, NEW s \in Slot, fork(c, p, s)
      PROVE  Skips'
  BY <1>0, <1>20, SchedAssumption
     DEF fork, On, schedVars, procVars, IInv, TypeOK, Stacks, Skips, Slot
<1>21. ASSUME NEW c \in CPU, NEW p \in Slot, fork_run(c, p)
      PROVE  Skips'
  BY <1>0, <1>21, SchedAssumption
     DEF fork_run, On, schedVars, procVars, IInv, TypeOK, Stacks, Skips, Slot
<1>22. ASSUME NEW c \in CPU, NEW p \in Slot, NEW s \in Slot, wait(c, p, s)
      PROVE  Skips'
  BY <1>0, <1>22, SchedAssumption
     DEF wait, On, schedVars, procVars, IInv, TypeOK, Stacks, Skips, Slot
<1>23. ASSUME NEW c \in CPU, intr(c)
      PROVE  Skips'
  BY <1>0, <1>23, SchedAssumption
     DEF intr, schedVars, procVars, IInv, TypeOK, Stacks, Skips, Slot
<1>24. ASSUME NEW c \in CPU, intr_lock(c)
      PROVE  Skips'
  BY <1>0, <1>24, SchedAssumption
     DEF intr_lock, acquire, schedVars, procVars, IInv, TypeOK, Stacks, Skips, Slot
<1>25. ASSUME NEW c \in CPU, wakeup(c)
      PROVE  Skips'
  BY <1>0, <1>25, SchedAssumption
     DEF wakeup, MayWake, PopcliOK, schedVars, procVars, IInv, TypeOK, Stacks, Skips, Slot
<1>26. ASSUME NEW c \in CPU, intr_ret(c)
      PROVE  Skips'
  BY <1>0, <1>26, SchedAssumption
     DEF intr_ret, release, Popped, PopcliOK, WakeHalted, schedVars, procVars, IInv, TypeOK,
         Stacks, Skips, Slot
<1>27. ASSUME NEW c \in CPU, timer_wakes(c)
      PROVE  Skips'
  BY <1>0, <1>27, SchedAssumption
     DEF timer_wakes, WakeHalted, InScheduler, cpuVars, schedVars, procVars, IInv, TypeOK,
         Stacks, Skips, Slot
<1>28. CASE UNCHANGED vars
  BY <1>28 DEF vars, IInv, TypeOK, Stacks, Skips, Slot
<1> QED
  BY <1>1, <1>2, <1>3, <1>4, <1>5, <1>6, <1>7, <1>8, <1>9, <1>10, <1>11, <1>12, <1>13, <1>14,
     <1>15, <1>16, <1>17, <1>18, <1>19, <1>20, <1>21, <1>22, <1>23, <1>24, <1>25, <1>26, <1>27,
     <1>28, NextCases
     DEF IInv

(* Every step keeps sleepers waking. *)
LEMMA WakingStep ==
  ASSUME IInv, Waking, [Next]_vars
  PROVE  Waking'
PROOF
<1>0. None \notin Slot /\ None \notin CPU
  BY SchedAssumption DEF Slot, None
<1>1. ASSUME NEW c \in CPU, acquire_start(c)
      PROVE  Waking'
  BY <1>0, <1>1
     DEF acquire_start, pushcli, Wants, InScheduler, On, schedVars, procVars, IInv, TypeOK,
         Stacks, StackSafe, Locks, Waking, Lock, HasPtable, HasLk, Interruptible, In, Spins
<1>2. ASSUME NEW c \in CPU, sched_sti(c)
      PROVE  Waking'
  BY <1>0, <1>2
     DEF sched_sti, InScheduler, schedVars, procVars, IInv, TypeOK, Stacks, StackSafe, Locks,
         Waking, Lock, HasPtable, HasLk, Interruptible, In, Spins
<1>3. ASSUME NEW c \in CPU, sched_acquire(c)
      PROVE  Waking'
  BY <1>0, <1>3
     DEF sched_acquire, acquire, InScheduler, schedVars, procVars, IInv, TypeOK, Stacks,
         StackSafe, Locks, Waking, Lock, HasPtable, HasLk, Interruptible, In, Spins
<1>4. ASSUME NEW c \in CPU, ScanSkips(c)
      PROVE  Waking'
  BY <1>0, <1>4
     DEF ScanSkips, InScheduler, cpuVars, schedVars, procVars, IInv, TypeOK, Stacks, StackSafe,
         Locks, Waking, Lock, HasPtable, HasLk, Interruptible, In, Spins
<1>5. ASSUME NEW c \in CPU, NEW p \in Slot, ScanSwitches(c, p)
      PROVE  Waking'
  BY <1>0, <1>5
     DEF ScanSwitches, InScheduler, cpuVars, schedVars, procVars, IInv, TypeOK, Stacks,
         StackSafe, Locks, Waking, Lock, HasPtable, HasLk, Interruptible, In, Spins
<1>6. ASSUME NEW c \in CPU, sched_release(c)
      PROVE  Waking'
  BY <1>0, <1>6
     DEF sched_release, release, Popped, PopcliOK, InScheduler, schedVars, procVars, IInv,
         TypeOK, Stacks, StackSafe, Locks, Waking, Lock, HasPtable, HasLk, Interruptible, In,
         Spins
<1>7. ASSUME NEW c \in CPU, sched_hlt(c)
      PROVE  Waking'
  BY <1>0, <1>7
     DEF sched_hlt, InScheduler, cpuVars, schedVars, procVars, IInv, TypeOK, Stacks, StackSafe,
         Locks, Waking, Lock, HasPtable, HasLk, Interruptible, In, Spins
<1>8. ASSUME NEW c \in CPU, NEW p \in Slot, NEW at \in {"lock", "exit"}, enter(c, p, at)
      PROVE  Waking'
  BY <1>0, <1>8
     DEF enter, On, schedVars, procVars, IInv, TypeOK, Stacks, StackSafe, Locks, Waking, Lock,
         HasPtable, HasLk, Interruptible, In, Spins
<1>9. ASSUME NEW c \in CPU, NEW p \in Slot, timer_yields(c, p)
      PROVE  Waking'
  BY <1>0, <1>9
     DEF timer_yields, On, schedVars, procVars, IInv, TypeOK, Stacks, StackSafe, Locks, Waking,
         Lock, HasPtable, HasLk, Interruptible, In, Spins
<1>10. ASSUME NEW c \in CPU, NEW p \in Slot, acquire_lk(c, p)
      PROVE  Waking'
  BY <1>0, <1>10
     DEF acquire_lk, acquire, On, schedVars, procVars, IInv, TypeOK, Stacks, StackSafe, Locks,
         Waking, Lock, HasPtable, HasLk, Interruptible, In, Spins
<1>11. ASSUME NEW c \in CPU, NEW p \in Slot, consume(c, p)
      PROVE  Waking'
  BY <1>0, <1>11
     DEF consume, release, Popped, PopcliOK, On, schedVars, procVars, IInv, TypeOK, Stacks,
         StackSafe, Locks, Waking, Lock, HasPtable, HasLk, Interruptible, In, Spins
<1>12. ASSUME NEW c \in CPU, NEW p \in Slot, sleep(c, p)
      PROVE  Waking'
  BY <1>0, <1>12
     DEF sleep, acquire, On, schedVars, procVars, IInv, TypeOK, Stacks, StackSafe, Locks,
         Waking, Lock, HasPtable, HasLk, Interruptible, In, Spins
<1>13. ASSUME NEW c \in CPU, NEW p \in Slot, sleep_release(c, p)
      PROVE  Waking'
  BY <1>0, <1>13
     DEF sleep_release, release, Popped, PopcliOK, On, schedVars, procVars, IInv, TypeOK,
         Stacks, StackSafe, Locks, Waking, Lock, HasPtable, HasLk, Interruptible, In, Spins
<1>14. ASSUME NEW c \in CPU, NEW p \in Slot, lock_ptable(c, p)
      PROVE  Waking'
  BY <1>0, <1>14
     DEF lock_ptable, acquire, On, schedVars, procVars, IInv, TypeOK, Stacks, StackSafe, Locks,
         Waking, Lock, HasPtable, HasLk, Interruptible, In, Spins
<1>15. ASSUME NEW c \in CPU, NEW p \in Slot, sched(c, p, "sleeping", "SLEEPING", "woken")
      PROVE  Waking'
  BY <1>0, <1>15
     DEF sched, SchedOK, On, cpuVars, schedVars, procVars, IInv, TypeOK, Stacks, StackSafe,
         Locks, Waking, Lock, HasPtable, HasLk, Interruptible, In, Spins
<1>16. ASSUME NEW c \in CPU, NEW p \in Slot, sched(c, p, "yielding", "RUNNABLE", "yielded")
      PROVE  Waking'
  BY <1>0, <1>16
     DEF sched, SchedOK, On, cpuVars, schedVars, procVars, IInv, TypeOK, Stacks, StackSafe,
         Locks, Waking, Lock, HasPtable, HasLk, Interruptible, In, Spins
<1>17. ASSUME NEW c \in CPU, NEW p \in Slot, sched(c, p, "exiting", "ZOMBIE", "exiting")
      PROVE  Waking'
  BY <1>0, <1>17
     DEF sched, SchedOK, On, cpuVars, schedVars, procVars, IInv, TypeOK, Stacks, StackSafe,
         Locks, Waking, Lock, HasPtable, HasLk, Interruptible, In, Spins
<1>18. ASSUME NEW c \in CPU, NEW p \in Slot, resume(c, p)
      PROVE  Waking'
  BY <1>0, <1>18
     DEF resume, release, Popped, PopcliOK, On, schedVars, procVars, IInv, TypeOK, Stacks,
         StackSafe, Locks, Waking, Lock, HasPtable, HasLk, Interruptible, In, Spins
<1>19. ASSUME NEW c \in CPU, NEW p \in Slot, forkret(c, p)
      PROVE  Waking'
  BY <1>0, <1>19
     DEF forkret, release, Popped, PopcliOK, On, schedVars, procVars, IInv, TypeOK, Stacks,
         StackSafe, Locks, Waking, Lock, HasPtable, HasLk, Interruptible, In, Spins
<1>20. ASSUME NEW c \in CPU, NEW p \in Slot, NEW s \in Slot, fork(c, p, s)
      PROVE  Waking'
  BY <1>0, <1>20
     DEF fork, On, schedVars, procVars, IInv, TypeOK, Stacks, StackSafe, Locks, Waking, Lock,
         HasPtable, HasLk, Interruptible, In, Spins
<1>21. ASSUME NEW c \in CPU, NEW p \in Slot, fork_run(c, p)
      PROVE  Waking'
  BY <1>0, <1>21
     DEF fork_run, On, schedVars, procVars, IInv, TypeOK, Stacks, StackSafe, Locks, Waking,
         Lock, HasPtable, HasLk, Interruptible, In, Spins
<1>22. ASSUME NEW c \in CPU, NEW p \in Slot, NEW s \in Slot, wait(c, p, s)
      PROVE  Waking'
  BY <1>0, <1>22
     DEF wait, On, schedVars, procVars, IInv, TypeOK, Stacks, StackSafe, Locks, Waking, Lock,
         HasPtable, HasLk, Interruptible, In, Spins
<1>23. ASSUME NEW c \in CPU, intr(c)
      PROVE  Waking'
  BY <1>0, <1>23
     DEF intr, schedVars, procVars, IInv, TypeOK, Stacks, StackSafe, Locks, Waking, Lock,
         HasPtable, HasLk, Interruptible, In, Spins
<1>24. ASSUME NEW c \in CPU, intr_lock(c)
      PROVE  Waking'
  BY <1>0, <1>24
     DEF intr_lock, acquire, schedVars, procVars, IInv, TypeOK, Stacks, StackSafe, Locks,
         Waking, Lock, HasPtable, HasLk, Interruptible, In, Spins
<1>25. ASSUME NEW c \in CPU, wakeup(c)
      PROVE  Waking'
  BY <1>0, <1>25
     DEF wakeup, MayWake, PopcliOK, schedVars, procVars, IInv, TypeOK, Stacks, StackSafe, Locks,
         Waking, Lock, HasPtable, HasLk, Interruptible, In, Spins
<1>26. ASSUME NEW c \in CPU, intr_ret(c)
      PROVE  Waking'
  BY <1>0, <1>26
     DEF intr_ret, release, Popped, PopcliOK, WakeHalted, schedVars, procVars, IInv, TypeOK,
         Stacks, StackSafe, Locks, Waking, Lock, HasPtable, HasLk, Interruptible, In, Spins
<1>27. ASSUME NEW c \in CPU, timer_wakes(c)
      PROVE  Waking'
  BY <1>0, <1>27
     DEF timer_wakes, WakeHalted, InScheduler, cpuVars, schedVars, procVars, IInv, TypeOK,
         Stacks, StackSafe, Locks, Waking, Lock, HasPtable, HasLk, Interruptible, In, Spins
<1>28. CASE UNCHANGED vars
  BY <1>28
     DEF vars, IInv, TypeOK, Stacks, StackSafe, Locks, Waking, Lock, HasPtable, HasLk,
         Interruptible, In, Spins
<1> QED
  BY <1>1, <1>2, <1>3, <1>4, <1>5, <1>6, <1>7, <1>8, <1>9, <1>10, <1>11, <1>12, <1>13, <1>14,
     <1>15, <1>16, <1>17, <1>18, <1>19, <1>20, <1>21, <1>22, <1>23, <1>24, <1>25, <1>26, <1>27,
     <1>28, NextCases
     DEF IInv

-----------------------------------------------------------------------------
(* Theorems. *)

(* At boot no lock is held and every scheduler is at its start. *)
LEMMA InitIInv == Init => IInv /\ Waking
PROOF
<1> SUFFICES ASSUME Init PROVE IInv /\ Waking
  OBVIOUS
<1>0. None \notin Slot /\ None \notin CPU /\ 1 \in Slot
  BY SchedAssumption DEF Slot, None
<1>1. TypeOK
  <2>1. 1 \in 1..NPROC + 1 /\ 0 \in 0..2 * NPROC
    BY SchedAssumption
  <2>2. kstack \in [Slot -> BOOLEAN] /\ state \in [Slot -> State]
    BY DEF Init, State
  <2>3. ncli \in [CPU -> 0..2]
    BY DEF Init
  <2>4. scan \in [CPU -> 1..NPROC + 1] /\ skipped \in [CPU -> 0..2 * NPROC]
    BY <2>1 DEF Init
  <2>5. /\ iflag \in [CPU -> BOOLEAN] /\ intena \in [CPU -> BOOLEAN]
        /\ spin \in [CPU -> BOOLEAN] /\ saved \in [Slot -> BOOLEAN]
        /\ cond \in BOOLEAN /\ first \in BOOLEAN /\ panic \in BOOLEAN
    BY DEF Init
  <2>6. /\ ctx \in [CPU -> Slot \cup {None}]
        /\ spc \in [CPU -> SPC] /\ hpc \in [CPU -> HPC]
        /\ holder \in [Lock -> CPU \cup {None}]
        /\ pc \in [Slot -> PC] /\ trapped \in [Slot -> {"user", "lock"}]
        /\ np \in [Slot -> Slot \cup {None}]
    BY DEF Init, SPC, HPC, PC
  <2> QED
    BY <2>2, <2>3, <2>4, <2>5, <2>6 DEF TypeOK
<1>2. NoPanic /\ Stacks
  BY <1>0 DEF Init, NoPanic, Stacks, StackSafe
<1>3. Locks
  BY <1>0 DEF Init, Locks, HasPtable, HasLk, Interruptible, Spins, In, Lock
<1>4. Interrupts
  BY <1>0 DEF Init, Interrupts, Count, HasPtable, HasLk, Interruptible, In
<1>5. Skips
  BY <1>0, SchedAssumption DEF Init, Skips
<1>6. Waking
  BY <1>0 DEF Init, Waking, In
<1> QED
  BY <1>1, <1>2, <1>3, <1>4, <1>5, <1>6 DEF IInv

(* Every step keeps the invariant. *)
LEMMA IInvStep == IInv /\ [Next]_vars => IInv'
PROOF
  BY TypeStep, PanicStep, StacksStep, LocksStep, InterruptsStep, SkipsStep DEF IInv

(* For every set of processors and every size of the table, ptable.lock    *)
(* and lk are held exactly where the code on the processor says, on        *)
(* whichever stack, and ncli counts them (spinlock.c, proc.c).             *)
THEOREM SchedInvariant == Spec => []IInv
PROOF
  BY InitIInv, IInvStep, PTL DEF Spec

(* For every set of processors and every size of the table: no check of    *)
(* acquire, release, popcli or sched fails, no stack is shared or used     *)
(* after it was freed, no processor halts with interrupts off, and no lock *)
(* is held with interrupts on (scheduler and sched, proc.c; spinlock.c).   *)
THEOREM SchedIsSafe == Spec => []SchedSafe
PROOF
<1>1. IInv => HaltsInterruptible
  BY DEF IInv, Interrupts, HaltsInterruptible
<1>2. IInv => LockMasksInterrupts
  <2> SUFFICES ASSUME IInv, NEW c \in CPU, NEW l \in Lock, holder[l] = c, iflag[c] PROVE FALSE
    BY DEF LockMasksInterrupts
  <2>0. None \notin CPU
    BY SchedAssumption DEF None
  <2>1. HasPtable(c) \/ HasLk(c)
    BY DEF Lock, IInv, Locks
  <2>2. hpc[c] = "none" /\ Interruptible(c)
    BY DEF IInv, Interrupts
  <2> QED
    BY <2>1, <2>2 DEF HasPtable, HasLk, Interruptible, In
<1>3. IInv => SchedSafe
  BY <1>1, <1>2 DEF IInv, Stacks, SchedSafe
<1> QED
  BY <1>3, SchedInvariant, PTL

(* For every set of processors and every size of the table: "we can be     *)
(* guaranteed that we won't miss any wakeup".  A process that sleeps with  *)
(* the condition true is about to be woken by the handler that made it     *)
(* true (sleep and wakeup, proc.c).                                        *)
THEOREM SleepMissesNoWakeup == Spec => []NoLostWakeup
PROOF
<1>1. Init => IInv /\ Waking
  BY InitIInv
<1>2. IInv /\ Waking /\ [Next]_vars => (IInv /\ Waking)'
  BY IInvStep, WakingStep
<1>3. Waking => NoLostWakeup
  BY DEF Waking, NoLostWakeup
<1> QED
  BY <1>1, <1>2, <1>3, PTL DEF Spec

=============================================================================
