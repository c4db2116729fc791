-------------------------------- MODULE Proc --------------------------------
(***************************************************************************)
(* The life of processes (proc.c): fork, exit, wait and kill, the check of *)
(* proc->killed on the way back to user space (syscall.c, trap.c), and the *)
(* program of the first process (init.c).  One action is one critical      *)
(* section of ptable.lock, or one stretch of fork or exit outside it.      *)
(*                                                                         *)
(* A process is named by its slot in ptable.proc.  RUNNABLE stands for     *)
(* RUNNING too: which runnable process has a processor is the business of  *)
(* Sched.  Memory is not exhausted here: kalloc panics when it is, so the  *)
(* branches of allocproc and fork for a null page are never taken.         *)
(***************************************************************************)
EXTENDS Integers, FiniteSets, FiniteSetsExt

CONSTANTS
  NPROC,     \* slots of the process table
  MaxPid,    \* bound: no fork once nextpid has passed it
  KillArgs   \* arguments given to kill

ASSUME ProcAssumption ==
  /\ NPROC \in Nat \ {0}
  /\ MaxPid \in Nat \ {0}
  /\ KillArgs \subseteq Nat

Slot == 1..NPROC
initproc == 1
NoSlot == 0

VARIABLES
  state, pid, parent, killed, chan,   \* the fields of each slot
  nextpid,
  pc,        \* where the code of each process is
  np,        \* fork's np
  rv,        \* the result of a system call until it returns, then 0
  ipid,      \* init's variable pid
  panic,     \* the kernel has panicked
  named,     \* pids that kill was given and found, or that faulted
  reaped     \* pids that wait has returned

table == <<state, pid, parent, killed, chan, nextpid>>
vars == <<state, pid, parent, killed, chan, nextpid, pc, np, rv, ipid, panic, named, reaped>>

State == {"UNUSED", "EMBRYO", "SLEEPING", "RUNNABLE", "ZOMBIE"}

(* User code of init is at "init_fork" or "init_wait", that of any other   *)
(* process at "user"; the rest are places in the kernel.                   *)
PC == {"none", "user", "init_fork", "init_wait", "fork_copy", "fork_run", "wait", "sysret", "exit"}

Live(p) == state[p] = "RUNNABLE" /\ ~panic
Children(p) == {s \in Slot : parent[s] = p}
Zombies(p) == {s \in Children(p) : state[s] = "ZOMBIE"}
Unused == {s \in Slot : state[s] = "UNUSED"}

(* userinit: the first process. *)
Init ==
  /\ state = [s \in Slot |-> IF s = initproc THEN "RUNNABLE" ELSE "UNUSED"]
  /\ pid = [s \in Slot |-> IF s = initproc THEN 1 ELSE 0]
  /\ parent = [s \in Slot |-> NoSlot]
  /\ killed = [s \in Slot |-> FALSE]
  /\ chan = [s \in Slot |-> NoSlot]
  /\ nextpid = 2
  /\ pc = [s \in Slot |-> IF s = initproc THEN "init_fork" ELSE "none"]
  /\ np = [s \in Slot |-> NoSlot]
  /\ rv = [s \in Slot |-> 0]
  /\ ipid = 0
  /\ panic = FALSE
  /\ named = {}
  /\ reaped = {}

-----------------------------------------------------------------------------
(* fork *)

(* allocproc takes the first unused slot; fork returns -1 without one. *)
fork(p) ==
  /\ Live(p) /\ pc[p] \in {"user", "init_fork"}
  /\ nextpid <= MaxPid
  /\ IF Unused = {}
       THEN /\ pc' = [pc EXCEPT ![p] = "sysret"]
            /\ rv' = [rv EXCEPT ![p] = -1]
            /\ UNCHANGED <<table, np>>
       ELSE LET s == Min(Unused) IN
            /\ state' = [state EXCEPT ![s] = "EMBRYO"]
            /\ pid' = [pid EXCEPT ![s] = nextpid]
            /\ nextpid' = nextpid + 1
            /\ pc' = [pc EXCEPT ![p] = "fork_copy"]
            /\ np' = [np EXCEPT ![p] = s]
            /\ UNCHANGED <<parent, killed, chan, rv>>
  /\ UNCHANGED <<ipid, panic, named, reaped>>

(* The child is filled in without the lock, and its pid is kept. *)
fork_copy(p) ==
  /\ Live(p) /\ pc[p] = "fork_copy"
  /\ parent' = [parent EXCEPT ![np[p]] = p]
  /\ rv' = [rv EXCEPT ![p] = pid[np[p]]]
  /\ pc' = [pc EXCEPT ![p] = "fork_run", ![np[p]] = "user"]
  /\ UNCHANGED <<state, pid, killed, chan, nextpid, np, ipid, panic, named, reaped>>

fork_run(p) ==
  /\ Live(p) /\ pc[p] = "fork_run"
  /\ state' = [state EXCEPT ![np[p]] = "RUNNABLE"]
  /\ pc' = [pc EXCEPT ![p] = "sysret"]
  /\ np' = [np EXCEPT ![p] = NoSlot]
  /\ UNCHANGED <<pid, parent, killed, chan, nextpid, rv, ipid, panic, named, reaped>>

-----------------------------------------------------------------------------
(* exit *)

(* The call, from user code or on the way back to it.  Files and the       *)
(* current directory are given back without ptable.lock.                   *)
exit_call(p) ==
  IF p = initproc
    THEN panic' = TRUE /\ UNCHANGED pc
    ELSE pc' = [pc EXCEPT ![p] = "exit"] /\ UNCHANGED panic

sys_exit(p) ==
  /\ Live(p) /\ pc[p] = "user"
  /\ exit_call(p)
  /\ UNCHANGED <<table, np, rv, ipid, named, reaped>>

(* wakeup1(chan) on the table st *)
wakeup1(st, c) ==
  [s \in Slot |-> IF st[s] = "SLEEPING" /\ chan[s] = c THEN "RUNNABLE" ELSE st[s]]

(* Mutants: the children keep their parent; init is not woken for a zombie *)
(* it inherits; kill leaves a sleeping process asleep.                     *)
Adopted_Not(p) == parent
InitWoken_Not(st, p) == st
Roused_Not(s) == state

(* exit passes p's children to init, and wakes it if one is a zombie. *)
Adopted(p) == [s \in Slot |-> IF parent[s] = p THEN initproc ELSE parent[s]]
InitWoken(st, p) == IF Zombies(p) # {} THEN wakeup1(st, initproc) ELSE st

(* The rest of exit, under ptable.lock; the parent is woken first. *)
exit(p) ==
  /\ Live(p) /\ pc[p] = "exit"
  /\ state' = [InitWoken(wakeup1(state, parent[p]), p) EXCEPT ![p] = "ZOMBIE"]
  /\ parent' = Adopted(p)
  /\ pc' = [pc EXCEPT ![p] = "none"]
  /\ UNCHANGED <<pid, killed, chan, nextpid, np, rv, ipid, panic, named, reaped>>

-----------------------------------------------------------------------------
(* wait *)

sys_wait(p) ==
  /\ Live(p) /\ pc[p] \in {"user", "init_wait"}
  /\ pc' = [pc EXCEPT ![p] = "wait"]
  /\ UNCHANGED <<table, np, rv, ipid, panic, named, reaped>>

(* The end of sleep: "Tidy up." *)
Tidied(p) == [chan EXCEPT ![p] = NoSlot]

(* One scan of the table under ptable.lock, at the call and after each     *)
(* wakeup: free the first zombie child, or give up, or sleep.              *)
wait(p) ==
  /\ Live(p) /\ pc[p] = "wait"
  /\ \/ /\ Zombies(p) # {}
        /\ LET s == Min(Zombies(p)) IN
             /\ rv' = [rv EXCEPT ![p] = pid[s]]
             /\ pid' = [pid EXCEPT ![s] = 0]
             /\ parent' = [parent EXCEPT ![s] = NoSlot]
             /\ killed' = [killed EXCEPT ![s] = FALSE]
             /\ state' = [state EXCEPT ![s] = "UNUSED"]
             /\ reaped' = reaped \cup {pid[s]}
        /\ pc' = [pc EXCEPT ![p] = "sysret"]
        /\ chan' = Tidied(p)
     \/ /\ Zombies(p) = {}
        /\ Children(p) = {} \/ killed[p]
        /\ rv' = [rv EXCEPT ![p] = -1]
        /\ pc' = [pc EXCEPT ![p] = "sysret"]
        /\ chan' = Tidied(p)
        /\ UNCHANGED <<state, pid, parent, killed, reaped>>
     \/ /\ Zombies(p) = {} /\ Children(p) # {} /\ ~killed[p]
        /\ state' = [state EXCEPT ![p] = "SLEEPING"]
        /\ chan' = [chan EXCEPT ![p] = p]
        /\ UNCHANGED <<pid, parent, killed, rv, pc, reaped>>
  /\ UNCHANGED <<nextpid, np, ipid, panic, named>>

-----------------------------------------------------------------------------
(* kill, faults, and the return to user space *)

(* "Wake process from sleep if necessary." *)
Roused(s) == [state EXCEPT ![s] = IF @ = "SLEEPING" THEN "RUNNABLE" ELSE @]

(* kill marks the first slot whose pid field matches. *)
kill(p, k) ==
  /\ Live(p) /\ pc[p] = "user"
  /\ LET match == {s \in Slot : pid[s] = k} IN
       IF match = {}
         THEN /\ rv' = [rv EXCEPT ![p] = -1]
              /\ UNCHANGED <<killed, state, named>>
         ELSE LET s == Min(match) IN
              /\ killed' = [killed EXCEPT ![s] = TRUE]
              /\ state' = Roused(s)
              /\ named' = named \cup {k}
              /\ rv' = [rv EXCEPT ![p] = 0]
  /\ pc' = [pc EXCEPT ![p] = "sysret"]
  /\ UNCHANGED <<pid, parent, chan, nextpid, np, ipid, panic, reaped>>

(* A fault in user space (trap's default case) kills the process. *)
trap_fault(p) ==
  /\ Live(p) /\ pc[p] = "user"
  /\ killed' = [killed EXCEPT ![p] = TRUE]
  /\ named' = named \cup {pid[p]}
  /\ exit_call(p)
  /\ UNCHANGED <<state, pid, parent, chan, nextpid, np, rv, ipid, reaped>>

(* An interrupt of user code finds the process killed. *)
trap_killed(p) ==
  /\ Live(p) /\ pc[p] \in {"user", "init_fork", "init_wait"}
  /\ killed[p]
  /\ exit_call(p)
  /\ UNCHANGED <<table, np, rv, ipid, named, reaped>>

(* The end of syscall(): a killed process exits instead of returning.      *)
(* init then goes on with its program: after fork it waits for that child, *)
(* and it forks again when wait returns the child or nothing (ipid is 0    *)
(* from then until fork returns).                                          *)
sysret(p) ==
  /\ Live(p) /\ pc[p] = "sysret" /\ p # initproc
  /\ IF killed[p]
       THEN exit_call(p)
       ELSE pc' = [pc EXCEPT ![p] = "user"] /\ UNCHANGED panic
  /\ rv' = [rv EXCEPT ![p] = 0]
  /\ UNCHANGED <<table, np, ipid, named, reaped>>

init_sysret ==
  LET p == initproc
      forked == ipid = 0
      wpid == rv[p]
  IN
  /\ Live(p) /\ pc[p] = "sysret"
  /\ IF killed[p] \/ (forked /\ rv[p] < 0)
       THEN exit_call(p) /\ UNCHANGED ipid
       ELSE LET again == ~forked /\ ~(wpid >= 0 /\ wpid # ipid) IN
            /\ ipid' = IF forked THEN rv[p] ELSE IF again THEN 0 ELSE ipid
            /\ pc' = [pc EXCEPT ![p] = IF again THEN "init_fork" ELSE "init_wait"]
            /\ UNCHANGED panic
  /\ rv' = [rv EXCEPT ![p] = 0]
  /\ UNCHANGED <<table, np, named, reaped>>

-----------------------------------------------------------------------------

(* What a process does once it is in the kernel, or must do when killed. *)
Kernel(p) ==
  \/ fork_copy(p) \/ fork_run(p)
  \/ exit(p)
  \/ wait(p)
  \/ trap_killed(p)
  \/ sysret(p)

InitProgram ==
  \/ fork(initproc) \/ sys_wait(initproc)
  \/ init_sysret

User(p) ==
  \/ fork(p) \/ sys_exit(p) \/ sys_wait(p) \/ trap_fault(p)
  \/ \E k \in KillArgs : kill(p, k)

Next ==
  \/ \E p \in Slot : Kernel(p)
  \/ \E p \in Slot \ {initproc} : User(p)
  \/ InitProgram

Spec == Init /\ [][Next]_vars

(* Every process gets a processor again and again, and a timer interrupt   *)
(* with it; user programs need not make system calls, except init.         *)
Fairness ==
  /\ \A p \in Slot : WF_vars(Kernel(p))
  /\ WF_vars(InitProgram)

FairSpec == Spec /\ Fairness

-----------------------------------------------------------------------------
(* Properties *)

TypeOK ==
  /\ state \in [Slot -> State]
  /\ pid \in [Slot -> Nat]
  /\ parent \in [Slot -> Slot \cup {NoSlot}]
  /\ killed \in [Slot -> BOOLEAN]
  /\ chan \in [Slot -> Slot \cup {NoSlot}]
  /\ \A p \in Slot : chan[p] # NoSlot => pc[p] = "wait"
  /\ nextpid \in Nat
  /\ pc \in [Slot -> PC]
  /\ np \in [Slot -> Slot \cup {NoSlot}]
  /\ rv \in [Slot -> Nat \cup {-1}]
  /\ ipid \in Nat
  /\ panic \in BOOLEAN
  /\ named \subseteq Nat
  /\ reaped \subseteq Nat

InUse == Slot \ Unused

(* No process is lost or doubled: each pid that allocproc gave out is held *)
(* by one slot in use until wait returns it, and is returned once.         *)
ProcessConserved ==
  \A i \in 1..nextpid - 1 :
    LET holders == {s \in InUse : pid[s] = i} IN
    IF i \in reaped THEN holders = {} ELSE Cardinality(holders) = 1

(* Every process that runs, sleeps or is a zombie has a parent that can    *)
(* still call wait: exit hands its children to init, and slots are reused  *)
(* only after that.                                                        *)
ParentAlive ==
  \A s \in InUse \ {initproc} :
    state[s] # "EMBRYO" =>
      parent[s] \in Slot /\ state[parent[s]] \in {"RUNNABLE", "SLEEPING"}

(* A process sleeps in wait only while it has a child, none of its         *)
(* children is a zombie and it is not killed: an exit, an adoption or a    *)
(* kill never goes unnoticed.                                              *)
NoLostChildExit ==
  \A p \in Slot :
    state[p] = "SLEEPING" =>
      Children(p) # {} /\ Zombies(p) = {} /\ ~killed[p]

(* "Kill the process with the given pid": a process is marked killed only  *)
(* if its own pid was given to kill, or it faulted.                        *)
KillIsTargeted == \A s \in InUse : killed[s] => pid[s] \in named

(* The process table under every interleaving of fork, exit, wait and kill *)
(* (proc.c): no process is lost or doubled, none is left without a parent  *)
(* that can wait for it, and kill marks only the process it names.         *)
ProcTable == TypeOK /\ ProcessConserved /\ ParentAlive /\ KillIsTargeted

(* A killed process, asleep in wait or not, comes to its end. *)
KilledExits ==
  \A s \in Slot :
    killed[s] /\ state[s] \in {"RUNNABLE", "SLEEPING"}
      ~> state[s] \in {"ZOMBIE", "UNUSED"} \/ panic

(* Zombies handed to init are freed (unless init has come to the bound on  *)
(* forks and cannot start its next shell).                                 *)
OrphansReaped ==
  \A s \in Slot :
    state[s] = "ZOMBIE" /\ parent[s] = initproc
      ~> \/ state[s] = "UNUSED" \/ panic
         \/ pc[initproc] = "init_fork" /\ nextpid > MaxPid

(* Every process that is killed, or that is handed to init as a zombie,    *)
(* comes to its end: kill wakes what sleeps, the way back to user space    *)
(* sees killed, and init waits for children it never started.              *)
ProcessesEnd == KilledExits /\ OrphansReaped

=============================================================================
