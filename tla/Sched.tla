------------------------------- MODULE Sched -------------------------------
(***************************************************************************)
(* Processors, interrupts and context switches: scheduler, sched, yield,   *)
(* sleep, wakeup, forkret (proc.c), acquire and release with pushcli and   *)
(* popcli (spinlock.c), and the interrupt entry of trap.c.                 *)
(*                                                                         *)
(* A processor is on the stack of a process or on its scheduler's.  The    *)
(* processes use sleep and wakeup as iderw and ideintr do: a system call   *)
(* takes a lock lk and sleeps until a condition holds, a device interrupt  *)
(* takes lk, makes the condition true and wakes the sleepers.  They also   *)
(* fork, exit and wait, in as much as stacks come and go (the rest is in   *)
(* Proc), and are preempted by the timer.  System calls run with           *)
(* interrupts off (syscallinit masks FL_IF) and traps enter with them off; *)
(* the first process reads the disk in forkret, where they may be on.      *)
(***************************************************************************)
EXTENDS Naturals, FiniteSets

CONSTANTS
  CPU,    \* processors
  NPROC   \* slots of the process table

ASSUME SchedAssumption == CPU # {} /\ 0 \notin CPU /\ NPROC \in Nat \ {0}

Slot == 1..NPROC
Lock == {"ptable", "lk"}
None == 0     \* no processor holds the lock; the processor is in its scheduler

VARIABLES
  iflag, ncli, intena,   \* of each cpu: FL_IF, cpu->ncli, cpu->intena
  spin,                  \* of each cpu: acquire has called pushcli and spins
  ctx,                   \* of each cpu: the process whose stack it is on, or None
  spc, scan, skipped,    \* of each cpu: where its scheduler is, p and skipped there
  hpc,                   \* of each cpu: where its device interrupt handler is
  holder,                \* of each lock: the cpu that holds it
  state, kstack,         \* of each slot: p->state, p->kstack is allocated
  pc, saved,             \* of each slot: where its kernel code is, sched's intena
  trapped, np,           \* of each slot: where the timer interrupted it, fork's np
  cond,                  \* the condition the sleepers wait for
  first,                 \* forkret's first
  panic

cpuVars == <<iflag, ncli, intena, spin>>
schedVars == <<spc, scan, skipped>>
procVars == <<saved, trapped, np>>
vars == <<iflag, ncli, intena, spin, ctx, spc, scan, skipped, hpc, holder, state, kstack,
          pc, saved, trapped, np, cond, first, panic>>

State == {"UNUSED", "EMBRYO", "SLEEPING", "RUNNABLE", "RUNNING", "ZOMBIE"}
SPC == {"sti", "acquire", "scan", "hlt", "halted"}
HPC == {"none", "lock", "wakeup", "release"}
PC == {"user", "lock", "check", "release_lk", "sleeping", "woken", "yield", "yielding",
       "yielded", "exit", "exiting", "fork", "forkret"}

(* The first process is about to run for the first time. *)
Init ==
  /\ iflag = [c \in CPU |-> FALSE]
  /\ ncli = [c \in CPU |-> 0]
  /\ intena = [c \in CPU |-> FALSE]
  /\ spin = [c \in CPU |-> FALSE]
  /\ ctx = [c \in CPU |-> None]
  /\ spc = [c \in CPU |-> "sti"]
  /\ scan = [c \in CPU |-> 1]
  /\ skipped = [c \in CPU |-> 0]
  /\ hpc = [c \in CPU |-> "none"]
  /\ holder = [l \in Lock |-> None]
  /\ state = [p \in Slot |-> IF p = 1 THEN "RUNNABLE" ELSE "UNUSED"]
  /\ kstack = [p \in Slot |-> p = 1]
  /\ pc = [p \in Slot |-> "forkret"]
  /\ saved = [p \in Slot |-> FALSE]
  /\ trapped = [p \in Slot |-> "user"]
  /\ np = [p \in Slot |-> None]
  /\ cond = FALSE
  /\ first = TRUE
  /\ panic = FALSE

-----------------------------------------------------------------------------
(* spinlock.c *)

InScheduler(c) == ctx[c] = None /\ hpc[c] = "none" /\ ~panic
On(c, p, at) == ctx[c] = p /\ hpc[c] = "none" /\ pc[p] = at /\ ~panic

(* The processor's code is about to call acquire(l). *)
Wants(c, l) ==
  IF l = "lk"
    THEN hpc[c] = "lock" \/ \E p \in Slot : On(c, p, "lock")
    ELSE \/ InScheduler(c) /\ spc[c] = "acquire"
         \/ hpc[c] = "wakeup"
         \/ \E p \in Slot : On(c, p, "yield") \/ On(c, p, "exit") \/ (On(c, p, "check") /\ ~cond)

(* pushcli: interrupts go off, and the outermost call remembers them. *)
pushcli(c) ==
  /\ iflag' = [iflag EXCEPT ![c] = FALSE]
  /\ intena' = [intena EXCEPT ![c] = IF ncli[c] = 0 THEN iflag[c] ELSE @]
  /\ ncli' = [ncli EXCEPT ![c] = @ + 1]

(* The start of acquire: pushcli, and a panic on a lock it has already. *)
acquire_start(c) ==
  /\ ~panic /\ ~spin[c]
  /\ \E l \in Lock : Wants(c, l) /\ panic' = (holder[l] = c)
  /\ pushcli(c)
  /\ spin' = [spin EXCEPT ![c] = TRUE]
  /\ UNCHANGED <<ctx, schedVars, hpc, holder, state, kstack, pc, procVars, cond, first>>

(* The end of acquire: xchg finds the lock free. *)
acquire(c, l) ==
  /\ ~panic /\ spin[c] /\ holder[l] = None
  /\ spin' = [spin EXCEPT ![c] = FALSE]
  /\ holder' = [holder EXCEPT ![l] = c]
  /\ UNCHANGED <<iflag, ncli, intena, panic>>

(* What popcli does to FL_IF when cpu->intena is ie; it panics when        *)
(* interrupts are on, and when it is called more often than pushcli.       *)
Popped(c, ie) == IF ncli[c] = 1 /\ ie THEN TRUE ELSE iflag[c]
PopcliOK(c) == ~iflag[c] /\ ncli[c] >= 1

(* release; back is TRUE when the kernel then returns to code that runs    *)
(* with interrupts on: user code, or what an interrupt interrupted.        *)
release(c, l, ie, back) ==
  /\ panic' = ~(holder[l] = c /\ PopcliOK(c))
  /\ holder' = [holder EXCEPT ![l] = None]
  /\ iflag' = [iflag EXCEPT ![c] = back \/ Popped(c, ie)]
  /\ ncli' = [ncli EXCEPT ![c] = IF @ = 0 THEN 0 ELSE @ - 1]
  /\ UNCHANGED spin

-----------------------------------------------------------------------------
(* The scheduler of each processor *)

sched_sti(c) ==
  /\ InScheduler(c) /\ spc[c] = "sti"
  /\ iflag' = [iflag EXCEPT ![c] = TRUE]
  /\ spc' = [spc EXCEPT ![c] = "acquire"]
  /\ UNCHANGED <<ncli, intena, spin, ctx, scan, skipped, hpc, holder, state, kstack,
                 pc, procVars, cond, first, panic>>

sched_acquire(c) ==
  /\ InScheduler(c) /\ spc[c] = "acquire"
  /\ acquire(c, "ptable")
  /\ scan' = [scan EXCEPT ![c] = 1]
  /\ spc' = [spc EXCEPT ![c] = "scan"]
  /\ UNCHANGED <<ctx, skipped, hpc, state, kstack, pc, procVars, cond, first>>

(* Mutants: the process that is switched to stays RUNNABLE; the pass       *)
(* starts again at the first slot after each process.                      *)
Switched_Not(p) == state
Onward_Restarts(c) == IF state[scan[c]] = "RUNNABLE" THEN 1 ELSE scan[c] + 1

Switched(p) == [state EXCEPT ![p] = "RUNNING"]
Onward(c) == scan[c] + 1

(* One slot of the table; a runnable process gets the processor, and the   *)
(* scan goes on after it when it comes back.                               *)
sched_scan(c) ==
  /\ InScheduler(c) /\ spc[c] = "scan" /\ scan[c] <= NPROC
  /\ LET p == scan[c] IN
       IF state[p] # "RUNNABLE"
         THEN /\ skipped' = [skipped EXCEPT ![c] = @ + 1]
              /\ UNCHANGED <<state, ctx>>
         ELSE /\ skipped' = [skipped EXCEPT ![c] = 0]
              /\ state' = Switched(p)
              /\ ctx' = [ctx EXCEPT ![c] = p]
  /\ scan' = [scan EXCEPT ![c] = Onward(c)]
  /\ UNCHANGED <<cpuVars, spc, hpc, holder, kstack, pc, procVars, cond, first, panic>>

(* The end of a pass: a processor that found nothing to run for more than  *)
(* a pass halts.                                                           *)
sched_release(c) ==
  /\ InScheduler(c) /\ spc[c] = "scan" /\ scan[c] > NPROC
  /\ release(c, "ptable", intena[c], FALSE)
  /\ spc' = [spc EXCEPT ![c] = IF skipped[c] > NPROC THEN "hlt" ELSE "sti"]
  /\ UNCHANGED <<intena, ctx, scan, skipped, hpc, state, kstack, pc, procVars, cond, first>>

(* hlt, and skipped = 0 once it is over. *)
sched_hlt(c) ==
  /\ InScheduler(c) /\ spc[c] = "hlt"
  /\ skipped' = [skipped EXCEPT ![c] = 0]
  /\ spc' = [spc EXCEPT ![c] = "halted"]
  /\ UNCHANGED <<cpuVars, ctx, scan, hpc, holder, state, kstack, pc, procVars, cond, first, panic>>

-----------------------------------------------------------------------------
(* Processes *)

(* A system call takes the process into the kernel. *)
enter(c, p, at) ==
  /\ On(c, p, "user")
  /\ iflag' = [iflag EXCEPT ![c] = FALSE]
  /\ pc' = [pc EXCEPT ![p] = at]
  /\ UNCHANGED <<ncli, intena, spin, ctx, schedVars, hpc, holder, state, kstack,
                 procVars, cond, first, panic>>

(* The timer interrupts it, in user code or in the kernel: trap calls      *)
(* yield.                                                                  *)
timer_yields(c, p) ==
  /\ On(c, p, "user") \/ On(c, p, "lock")
  /\ iflag[c]
  /\ iflag' = [iflag EXCEPT ![c] = FALSE]
  /\ trapped' = [trapped EXCEPT ![p] = pc[p]]
  /\ pc' = [pc EXCEPT ![p] = "yield"]
  /\ UNCHANGED <<ncli, intena, spin, ctx, schedVars, hpc, holder, state, kstack,
                 saved, np, cond, first, panic>>

acquire_lk(c, p) ==
  /\ On(c, p, "lock")
  /\ acquire(c, "lk")
  /\ pc' = [pc EXCEPT ![p] = "check"]
  /\ UNCHANGED <<ctx, schedVars, hpc, state, kstack, procVars, cond, first>>

(* The condition holds: take it, release lk and return. *)
consume(c, p) ==
  /\ On(c, p, "check") /\ ~spin[c]
  /\ cond
  /\ cond' = FALSE
  /\ release(c, "lk", intena[c], TRUE)
  /\ pc' = [pc EXCEPT ![p] = "user"]
  /\ UNCHANGED <<intena, ctx, schedVars, hpc, state, kstack, procVars, first>>

(* sleep(chan, lk), called when the condition does not hold: ptable.lock   *)
(* first, then lk is let go, then sched.                                   *)
sleep(c, p) ==
  /\ On(c, p, "check")
  /\ acquire(c, "ptable")
  /\ pc' = [pc EXCEPT ![p] = "release_lk"]
  /\ UNCHANGED <<ctx, schedVars, hpc, state, kstack, procVars, cond, first>>

sleep_release(c, p) ==
  /\ On(c, p, "release_lk")
  /\ release(c, "lk", intena[c], FALSE)
  /\ pc' = [pc EXCEPT ![p] = "sleeping"]
  /\ UNCHANGED <<intena, ctx, schedVars, hpc, state, kstack, procVars, cond, first>>

(* yield and exit take ptable.lock before they change the state. *)
lock_ptable(c, p) ==
  /\ On(c, p, "yield") \/ On(c, p, "exit")
  /\ acquire(c, "ptable")
  /\ pc' = [pc EXCEPT ![p] = IF @ = "yield" THEN "yielding" ELSE "exiting"]
  /\ UNCHANGED <<ctx, schedVars, hpc, state, kstack, procVars, cond, first>>

(* The state change and sched(): its checks, then back to the scheduler's  *)
(* stack, which finds the locks and the interrupt flag as they are.        *)
SchedOK(c, st) == holder["ptable"] = c /\ ncli[c] = 1 /\ st # "RUNNING" /\ ~iflag[c]

sched(c, p, at, st, next) ==
  /\ On(c, p, at)
  /\ state' = [state EXCEPT ![p] = st]
  /\ panic' = ~SchedOK(c, st)
  /\ saved' = [saved EXCEPT ![p] = intena[c]]
  /\ ctx' = [ctx EXCEPT ![c] = None]
  /\ pc' = [pc EXCEPT ![p] = next]
  /\ UNCHANGED <<cpuVars, schedVars, hpc, holder, kstack, trapped, np, cond, first>>

(* sched returns, on any processor: intena is put back, ptable.lock is let *)
(* go; sleep goes on to take lk again, yield returns from the interrupt.   *)
resume(c, p) ==
  /\ On(c, p, "woken") \/ On(c, p, "yielded")
  /\ intena' = [intena EXCEPT ![c] = saved[p]]
  /\ release(c, "ptable", saved[p], pc[p] = "yielded")
  /\ pc' = [pc EXCEPT ![p] = IF @ = "woken" THEN "lock" ELSE trapped[p]]
  /\ UNCHANGED <<ctx, schedVars, hpc, state, kstack, procVars, cond, first>>

(* The first switch to a new process lands here, with ptable.lock held;    *)
(* the first process of all goes on to read the disk.                      *)
forkret(c, p) ==
  /\ On(c, p, "forkret")
  /\ release(c, "ptable", intena[c], ~first)
  /\ pc' = [pc EXCEPT ![p] = IF first THEN "lock" ELSE "user"]
  /\ first' = FALSE
  /\ UNCHANGED <<intena, ctx, schedVars, hpc, state, kstack, procVars, cond>>

(* fork: allocproc under ptable.lock, then the child is made RUNNABLE      *)
(* without it.                                                             *)
fork(c, p, s) ==
  /\ On(c, p, "user")
  /\ holder["ptable"] = None
  /\ state[s] = "UNUSED"
  /\ state' = [state EXCEPT ![s] = "EMBRYO"]
  /\ kstack' = [kstack EXCEPT ![s] = TRUE]
  /\ np' = [np EXCEPT ![p] = s]
  /\ pc' = [pc EXCEPT ![p] = "fork", ![s] = "forkret"]
  /\ iflag' = [iflag EXCEPT ![c] = FALSE]
  /\ intena' = [intena EXCEPT ![c] = FALSE]
  /\ UNCHANGED <<ncli, spin, ctx, schedVars, hpc, holder, saved, trapped, cond, first, panic>>

fork_run(c, p) ==
  /\ On(c, p, "fork")
  /\ state' = [state EXCEPT ![np[p]] = "RUNNABLE"]
  /\ np' = [np EXCEPT ![p] = None]
  /\ pc' = [pc EXCEPT ![p] = "user"]
  /\ iflag' = [iflag EXCEPT ![c] = TRUE]
  /\ UNCHANGED <<ncli, intena, spin, ctx, schedVars, hpc, holder, kstack, saved, trapped,
                 cond, first, panic>>

(* wait frees the stack of a zombie, under ptable.lock. *)
wait(c, p, s) ==
  /\ On(c, p, "user")
  /\ holder["ptable"] = None
  /\ state[s] = "ZOMBIE"
  /\ state' = [state EXCEPT ![s] = "UNUSED"]
  /\ kstack' = [kstack EXCEPT ![s] = FALSE]
  /\ intena' = [intena EXCEPT ![c] = FALSE]
  /\ UNCHANGED <<iflag, ncli, spin, ctx, schedVars, hpc, holder, pc, procVars, cond, first, panic>>

-----------------------------------------------------------------------------
(* Interrupts *)

(* The device has finished: its handler takes lk, sets the condition,      *)
(* wakes the sleepers and returns; a halted scheduler goes on.  The device *)
(* does one request at a time.                                             *)
intr(c) ==
  /\ ~panic /\ iflag[c] /\ ~cond
  /\ \A d \in CPU : hpc[d] = "none"
  /\ hpc' = [hpc EXCEPT ![c] = "lock"]
  /\ iflag' = [iflag EXCEPT ![c] = FALSE]
  /\ UNCHANGED <<ncli, intena, spin, ctx, schedVars, holder, state, kstack, pc, procVars,
                 cond, first, panic>>

intr_lock(c) ==
  /\ hpc[c] = "lock"
  /\ acquire(c, "lk")
  /\ cond' = TRUE
  /\ hpc' = [hpc EXCEPT ![c] = "wakeup"]
  /\ UNCHANGED <<ctx, schedVars, state, kstack, pc, procVars, first>>

(* Mutant: ptable.lock is not waited for. *)
MayWake_Always(c) == spin[c]

MayWake(c) == spin[c] /\ holder["ptable"] = None

(* wakeup: wakeup1 between acquire and release of ptable.lock; lk is still *)
(* held, so popcli leaves the interrupts off.                              *)
wakeup(c) ==
  /\ ~panic /\ hpc[c] = "wakeup" /\ MayWake(c)
  /\ state' = [p \in Slot |-> IF state[p] = "SLEEPING" THEN "RUNNABLE" ELSE state[p]]
  /\ panic' = ~PopcliOK(c)
  /\ ncli' = [ncli EXCEPT ![c] = @ - 1]
  /\ spin' = [spin EXCEPT ![c] = FALSE]
  /\ hpc' = [hpc EXCEPT ![c] = "release"]
  /\ UNCHANGED <<iflag, intena, ctx, schedVars, holder, kstack, pc, procVars, cond, first>>

WakeHalted(c) == [spc EXCEPT ![c] = IF ctx[c] = None /\ @ = "halted" THEN "sti" ELSE @]

intr_ret(c) ==
  /\ ~panic /\ hpc[c] = "release"
  /\ release(c, "lk", intena[c], TRUE)
  /\ hpc' = [hpc EXCEPT ![c] = "none"]
  /\ spc' = WakeHalted(c)
  /\ UNCHANGED <<intena, ctx, scan, skipped, state, kstack, pc, procVars, cond, first>>

(* A timer tick that finds the processor halted ends the hlt. *)
timer_wakes(c) ==
  /\ InScheduler(c) /\ spc[c] = "halted" /\ iflag[c]
  /\ spc' = WakeHalted(c)
  /\ UNCHANGED <<cpuVars, ctx, scan, skipped, hpc, holder, state, kstack, pc,
                 procVars, cond, first, panic>>

-----------------------------------------------------------------------------

Scheduler(c) ==
  \/ sched_sti(c)
  \/ sched_acquire(c)
  \/ sched_scan(c)
  \/ sched_release(c)
  \/ sched_hlt(c)

(* Kernel code of the process on the processor *)
KernelOf(c, p) ==
  \/ acquire_lk(c, p)
  \/ consume(c, p)
  \/ sleep(c, p)
  \/ sleep_release(c, p)
  \/ lock_ptable(c, p)
  \/ sched(c, p, "sleeping", "SLEEPING", "woken")
  \/ sched(c, p, "yielding", "RUNNABLE", "yielded")
  \/ sched(c, p, "exiting", "ZOMBIE", "exiting")
  \/ resume(c, p)
  \/ forkret(c, p)
  \/ fork_run(c, p)

Handler(c) == intr_lock(c) \/ wakeup(c) \/ intr_ret(c)

(* The processor carries on with what it is at in the kernel. *)
Kernel(c) == Scheduler(c) \/ (\E p \in Slot : KernelOf(c, p)) \/ Handler(c) \/ acquire_start(c)

Timer(c) == timer_wakes(c) \/ \E p \in Slot : timer_yields(c, p)

(* One process never exits, as init. *)
User(c) ==
  \/ \E p \in Slot : enter(c, p, "lock")
  \/ \E p \in Slot \ {1} : enter(c, p, "exit")
  \/ \E p, s \in Slot : fork(c, p, s) \/ wait(c, p, s)

Next == \E c \in CPU : Kernel(c) \/ Timer(c) \/ User(c) \/ intr(c)

Spec == Init /\ [][Next]_vars

(* A processor goes on with its kernel code, and its timer ticks: a tick   *)
(* stays pending while interrupts are off and is taken when they come on.  *)
Fairness == \A c \in CPU : WF_vars(Kernel(c)) /\ SF_vars(Timer(c))

FairSpec == Spec /\ Fairness

-----------------------------------------------------------------------------
(* Properties *)

TypeOK ==
  /\ iflag \in [CPU -> BOOLEAN] /\ intena \in [CPU -> BOOLEAN] /\ ncli \in [CPU -> 0..2]
  /\ spin \in [CPU -> BOOLEAN]
  /\ ctx \in [CPU -> Slot \cup {None}]
  /\ spc \in [CPU -> SPC] /\ scan \in [CPU -> 1..NPROC + 1] /\ skipped \in [CPU -> 0..2 * NPROC]
  /\ hpc \in [CPU -> HPC]
  /\ holder \in [Lock -> CPU \cup {None}]
  /\ state \in [Slot -> State] /\ kstack \in [Slot -> BOOLEAN]
  /\ pc \in [Slot -> PC] /\ saved \in [Slot -> BOOLEAN]
  /\ trapped \in [Slot -> {"user", "lock"}] /\ np \in [Slot -> Slot \cup {None}]
  /\ cond \in BOOLEAN /\ first \in BOOLEAN /\ panic \in BOOLEAN

(* The checks of acquire, release, popcli and sched never fail, although   *)
(* ptable.lock is taken on one stack and released on another, and ncli and *)
(* intena belong to the processor and not to the process.                  *)
NoPanic == ~panic

(* A kernel stack is used by one processor, and is allocated while used: a *)
(* process that is RUNNABLE or a ZOMBIE has left its stack before another  *)
(* processor can run it or wait can free it.                               *)
StackSafe ==
  /\ \A c, d \in CPU : ctx[c] = ctx[d] /\ ctx[c] # None => c = d
  /\ \A c \in CPU : ctx[c] # None => kstack[ctx[c]] /\ state[ctx[c]] = "RUNNING"

(* "we can be guaranteed that we won't miss any wakeup": a process sleeps  *)
(* with the condition true only until the handler that made it true has    *)
(* called wakeup.                                                          *)
NoLostWakeup ==
  \A p \in Slot : state[p] = "SLEEPING" /\ cond => \E c \in CPU : hpc[c] = "wakeup"

(* A processor halts only with interrupts on: it can be woken. *)
HaltsInterruptible ==
  \A c \in CPU : ctx[c] = None /\ hpc[c] = "none" /\ spc[c] \in {"hlt", "halted"} => iflag[c]

(* A processor that holds a lock takes no interrupt, so that no handler    *)
(* spins on a lock of the code it interrupted.                             *)
LockMasksInterrupts ==
  \A c \in CPU : (\E l \in Lock : holder[l] = c) => ~iflag[c]

(* The discipline around swtch (spinlock.c, scheduler and sched): its own  *)
(* checks hold, no stack is shared or used after it is freed, and no lock  *)
(* holder and no halt is left in the wrong interrupt state.                *)
SchedSafe == TypeOK /\ NoPanic /\ StackSafe /\ HaltsInterruptible /\ LockMasksInterrupts

(* Every runnable process gets a processor. *)
RunnableRuns == \A p \in Slot : state[p] = "RUNNABLE" ~> state[p] = "RUNNING"

=============================================================================
