----------------------------- MODULE ProcProofs -----------------------------
(***************************************************************************)
(* Proofs about Proc, for every size of the process table, every bound on  *)
(* pids and every set of arguments of kill.                                *)
(***************************************************************************)
EXTENDS Proc, FiniteSetTheorems, WellFoundedInduction, TLAPS

(* A non-empty set of slots has a first one, which a scan of the table     *)
(* finds (proc.c:42, 230, 435).                                            *)
LEMMA FirstSlot ==
  ASSUME NEW S \in SUBSET Slot, S # {}
  PROVE  Min(S) \in S /\ Min(S) \in Slot
PROOF
<1>1. Slot \subseteq Nat
  BY ProcAssumption DEF Slot
<1>2. PICK x \in S : \A y \in S : ~ (<<y, x>> \in OpToRel(<, Nat))
  BY <1>1, WFMin, NatLessThanWellFounded
<1>3. \A y \in S : x <= y
  <2> SUFFICES ASSUME NEW y \in S PROVE x <= y
    OBVIOUS
  <2>1. x \in Nat /\ y \in Nat
    BY <1>1
  <2>2. ~ (y < x)
    BY <1>2, <2>1 DEF OpToRel
  <2> QED
    BY <2>1, <2>2
<1> QED
  BY <1>3 DEF Min

-----------------------------------------------------------------------------
(* The inductive invariant. *)

(* Where the code of a slot is follows from its state.  Only init runs the *)
(* code of init, and it is never a zombie: exit panics instead             *)
(* (proc.c:181-182).                                                       *)
Places ==
  /\ \A s \in Slot :
       /\ state[s] \in {"UNUSED", "ZOMBIE"} => pc[s] = "none"
       /\ state[s] = "EMBRYO" => pc[s] \in {"none", "user"}
       /\ state[s] = "SLEEPING" => pc[s] = "wait" /\ chan[s] = s
       /\ s # initproc => pc[s] \notin {"init_fork", "init_wait"}
  /\ state[initproc] \in {"RUNNABLE", "SLEEPING"}
  /\ pc[initproc] \notin {"none", "user", "exit"}

(* A process inside fork owns one slot in state EMBRYO, and no other       *)
(* process owns it: allocproc marks the slot under ptable.lock             *)
(* (proc.c:42-51), and fork fills it in without the lock.                  *)
Forking(p) == pc[p] \in {"fork_copy", "fork_run"}

Embryos ==
  /\ \A p \in Slot : Forking(p) =>
       /\ np[p] \in Slot /\ np[p] # initproc
       /\ state[np[p]] = "EMBRYO"
       /\ pc[p] = "fork_copy" => parent[np[p]] = NoSlot /\ pc[np[p]] = "none"
       /\ pc[p] = "fork_run" => parent[np[p]] = p /\ pc[np[p]] = "user"
  /\ \A p, q \in Slot : Forking(p) /\ Forking(q) /\ np[p] = np[q] => p = q
  /\ \A s \in Slot : state[s] = "EMBRYO" /\ parent[s] # NoSlot =>
       pc[parent[s]] = "fork_run" /\ np[parent[s]] = s

(* Parents are alive, whatever the state of the child; init has none.      *)
Parents ==
  /\ \A s \in Slot :
       /\ parent[s] # NoSlot =>
            state[parent[s]] \in {"RUNNABLE", "SLEEPING"} /\ parent[s] # s
       /\ state[s] = "UNUSED" => parent[s] = NoSlot
       /\ state[s] \in {"RUNNABLE", "SLEEPING", "ZOMBIE"} /\ s # initproc =>
            parent[s] # NoSlot
  /\ parent[initproc] = NoSlot

(* Every pid given out is held by one slot in use, or has been returned by *)
(* wait; a free slot has pid 0.                                            *)
Pids ==
  /\ nextpid > 0
  /\ \A s \in Slot : IF state[s] = "UNUSED" THEN pid[s] = 0
                     ELSE pid[s] \in 1..nextpid - 1 /\ pid[s] \notin reaped
  /\ \A s, t \in Slot : state[s] # "UNUSED" /\ pid[s] = pid[t] => s = t
  /\ reaped \subseteq 1..nextpid - 1
  /\ \A i \in 1..nextpid - 1 : i \notin reaped => \E s \in Slot : pid[s] = i

(* killed is FALSE in a free slot, so that allocproc need not clear it.    *)
KillMarks ==
  \A s \in Slot : killed[s] => state[s] # "UNUSED" /\ pid[s] \in named

IInv == TypeOK /\ Places /\ Embryos /\ Parents /\ Pids

-----------------------------------------------------------------------------
(* The steps, with the slot that a scan of the table has found. *)

Allocates(p, s) ==
  /\ Live(p) /\ pc[p] \in {"user", "init_fork"}
  /\ state[s] = "UNUSED"
  /\ state' = [state EXCEPT ![s] = "EMBRYO"]
  /\ pid' = [pid EXCEPT ![s] = nextpid]
  /\ nextpid' = nextpid + 1
  /\ pc' = [pc EXCEPT ![p] = "fork_copy"]
  /\ np' = [np EXCEPT ![p] = s]
  /\ UNCHANGED <<parent, killed, chan, rv, ipid, panic, named, reaped>>

(* A call that only has a result to return: fork without a free slot, kill *)
(* of no process, wait without children.                                   *)
Fails(p) ==
  /\ Live(p) /\ pc[p] \in {"user", "init_fork", "wait"}
  /\ pc' = [pc EXCEPT ![p] = "sysret"]
  /\ rv' = [rv EXCEPT ![p] = -1]
  /\ chan' \in {chan, Tidied(p)}
  /\ pc[p] = "wait" => chan' = Tidied(p)
  /\ UNCHANGED <<state, pid, parent, killed, nextpid, np, ipid, panic, named, reaped>>

Reaps(p, s) ==
  /\ Live(p) /\ pc[p] = "wait"
  /\ state[s] = "ZOMBIE" /\ parent[s] = p
  /\ rv' = [rv EXCEPT ![p] = pid[s]]
  /\ pid' = [pid EXCEPT ![s] = 0]
  /\ parent' = [parent EXCEPT ![s] = NoSlot]
  /\ killed' = [killed EXCEPT ![s] = FALSE]
  /\ state' = [state EXCEPT ![s] = "UNUSED"]
  /\ reaped' = reaped \cup {pid[s]}
  /\ pc' = [pc EXCEPT ![p] = "sysret"]
  /\ chan' = Tidied(p)
  /\ UNCHANGED <<nextpid, np, ipid, panic, named>>

Sleeps(p) ==
  /\ Live(p) /\ pc[p] = "wait"
  /\ Zombies(p) = {} /\ Children(p) # {} /\ ~killed[p]
  /\ state' = [state EXCEPT ![p] = "SLEEPING"]
  /\ chan' = [chan EXCEPT ![p] = p]
  /\ UNCHANGED <<pid, parent, killed, rv, pc, reaped, nextpid, np, ipid, panic, named>>

Kills(p, s, k) ==
  /\ Live(p) /\ pc[p] = "user"
  /\ pid[s] = k
  /\ killed' = [killed EXCEPT ![s] = TRUE]
  /\ state' = Roused(s)
  /\ named' = named \cup {k}
  /\ rv' = [rv EXCEPT ![p] = 0]
  /\ pc' = [pc EXCEPT ![p] = "sysret"]
  /\ UNCHANGED <<pid, parent, chan, nextpid, np, ipid, panic, reaped>>

(* A step that changes neither the table nor fork's np: a call, an exit    *)
(* that begins, a panic of init, a return to user space.  A process that   *)
(* has faulted is marked killed.                                           *)
Moves(p) ==
  /\ Live(p) /\ pc[p] \in {"user", "init_fork", "init_wait", "sysret"}
  /\ \/ pc' = pc /\ p = initproc
     \/ /\ \E l \in {"user", "wait", "exit"} : pc' = [pc EXCEPT ![p] = l]
        /\ pc'[p] # "wait" => p # initproc
     \/ /\ \E l \in {"init_fork", "init_wait"} : pc' = [pc EXCEPT ![p] = l]
        /\ p = initproc
  /\ rv' \in {rv, [rv EXCEPT ![p] = 0]}
  /\ ipid' \in Nat
  /\ panic' \in BOOLEAN
  /\ \/ UNCHANGED <<killed, named>>
     \/ /\ killed' = [killed EXCEPT ![p] = TRUE]
        /\ named' = named \cup {pid[p]}
  /\ UNCHANGED <<state, pid, parent, chan, nextpid, np, reaped>>

(* Every step is one of these.                                             *)
LEMMA StepCases ==
  ASSUME TypeOK, [Next]_vars
  PROVE  \/ \E p \in Slot : Fails(p) \/ Sleeps(p) \/ Moves(p)
         \/ \E p, s \in Slot : Allocates(p, s) \/ Reaps(p, s)
         \/ \E p, s \in Slot : \E k \in KillArgs : Kills(p, s, k)
         \/ \E p \in Slot : fork_copy(p) \/ fork_run(p) \/ exit(p)
         \/ UNCHANGED vars
PROOF
<1>0. initproc \in Slot
  BY ProcAssumption DEF Slot, initproc
<1>1. ASSUME NEW p \in Slot, fork(p)
      PROVE  Fails(p) \/ \E s \in Slot : Allocates(p, s)
  <2>1. CASE Unused = {}
    <3>1. Fails(p)
      BY <1>1, <2>1 DEF fork, Fails, table
    <3> QED
      BY <3>1
  <2>2. CASE Unused # {}
    <3>1. Min(Unused) \in Slot /\ state[Min(Unused)] = "UNUSED"
      BY <2>2, FirstSlot DEF Unused
    <3>2. Allocates(p, Min(Unused))
      BY <1>1, <2>2, <3>1 DEF fork, Allocates
    <3> QED
      BY <3>1, <3>2
  <2> QED
    BY <2>1, <2>2
<1>2. ASSUME NEW p \in Slot, wait(p)
      PROVE  Fails(p) \/ Sleeps(p) \/ \E s \in Slot : Reaps(p, s)
  <2>1. CASE Zombies(p) # {}
    <3>1. Min(Zombies(p)) \in Slot /\ state[Min(Zombies(p))] = "ZOMBIE"
          /\ parent[Min(Zombies(p))] = p
      BY <2>1, FirstSlot DEF Zombies, Children
    <3>2. Reaps(p, Min(Zombies(p)))
      BY <1>2, <2>1, <3>1 DEF wait, Reaps
    <3> QED
      BY <3>1, <3>2
  <2>2. CASE Zombies(p) = {} /\ (Children(p) = {} \/ killed[p])
    <3>1. Fails(p)
      BY <1>2, <2>2 DEF wait, Fails
    <3> QED
      BY <3>1
  <2>3. CASE Zombies(p) = {} /\ Children(p) # {} /\ ~killed[p]
    <3>1. Sleeps(p)
      BY <1>2, <2>3 DEF wait, Sleeps
    <3> QED
      BY <3>1
  <2> QED
    BY <2>1, <2>2, <2>3
<1>3. ASSUME NEW p \in Slot, NEW k \in KillArgs, kill(p, k)
      PROVE  Fails(p) \/ \E s \in Slot : Kills(p, s, k)
  <2> DEFINE match == {s \in Slot : pid[s] = k}
  <2>1. CASE match = {}
    <3>1. Fails(p)
      BY <1>3, <2>1 DEF kill, Fails
    <3> QED
      BY <3>1
  <2>2. CASE match # {}
    <3>1. Min(match) \in Slot /\ pid[Min(match)] = k
      BY <2>2, FirstSlot
    <3>2. Kills(p, Min(match), k)
      BY <1>3, <2>2, <3>1 DEF kill, Kills
    <3> QED
      BY <3>1, <3>2
  <2> QED
    BY <2>1, <2>2
<1>4. ASSUME NEW p \in Slot, p # initproc, sys_exit(p) \/ trap_fault(p) \/ sysret(p)
      PROVE  Moves(p)
  BY <1>4 DEF sys_exit, trap_fault, sysret, exit_call, Moves, Live, TypeOK, table
<1>5. ASSUME NEW p \in Slot, sys_wait(p) \/ trap_killed(p)
      PROVE  Moves(p)
  BY <1>5 DEF sys_wait, trap_killed, exit_call, Moves, Live, TypeOK, table
<1>6. ASSUME init_sysret
      PROVE  Moves(initproc)
  <2>1. rv[initproc] \in Nat \cup {-1}
    BY <1>0 DEF TypeOK
  <2>2. CASE killed[initproc] \/ (ipid = 0 /\ rv[initproc] < 0)
    BY <1>6, <2>2 DEF init_sysret, exit_call, Moves, Live, TypeOK, table
  <2>3. CASE ~(killed[initproc] \/ (ipid = 0 /\ rv[initproc] < 0))
    BY <1>0, <1>6, <2>1, <2>3 DEF init_sysret, Moves, Live, TypeOK, table
  <2> QED
    BY <2>2, <2>3
<1> QED
  BY <1>0, <1>1, <1>2, <1>3, <1>4, <1>5, <1>6 DEF Next, Kernel, User, InitProgram, sysret

-----------------------------------------------------------------------------
(* The invariant is inductive: one step per case, one lemma per part. *)

(* Every step keeps the types. *)
LEMMA TypeStep ==
  ASSUME IInv, [Next]_vars
  PROVE  TypeOK'
PROOF
<1>0. initproc \in Slot /\ NoSlot \notin Slot
  BY ProcAssumption DEF Slot, initproc, NoSlot
<1>1. ASSUME NEW p \in Slot, Fails(p)
      PROVE  TypeOK'
  BY <1>0, <1>1, ProcAssumption
     DEF Fails, Live, Tidied, IInv, TypeOK, Places, Embryos, Forking, State, PC, Pids
<1>2. ASSUME NEW p \in Slot, Sleeps(p)
      PROVE  TypeOK'
  BY <1>0, <1>2, ProcAssumption
     DEF Sleeps, Live, IInv, TypeOK, Places, Embryos, Forking, State, PC, Pids
<1>3. ASSUME NEW p \in Slot, Moves(p)
      PROVE  TypeOK'
  <2>1. pid[p] \in Nat
    BY DEF IInv, TypeOK
  <2>2. named' \in SUBSET Nat /\ killed' \in [Slot -> BOOLEAN]
    BY <1>3, <2>1 DEF Moves, IInv, TypeOK
  <2>3. pc' \in [Slot -> PC]
    BY <1>3 DEF Moves, IInv, TypeOK, PC
  <2>4. rv' \in [Slot -> Nat \cup {-1}]
    BY <1>3 DEF Moves, IInv, TypeOK
  <2>5. \A q \in Slot : chan[q] # NoSlot => pc'[q] = "wait"
    BY <1>3 DEF Moves, IInv, TypeOK
  <2> QED
    BY <1>3, <2>2, <2>3, <2>4, <2>5 DEF Moves, IInv, TypeOK
<1>4. ASSUME NEW p \in Slot, NEW s \in Slot, Allocates(p, s)
      PROVE  TypeOK'
  BY <1>0, <1>4, ProcAssumption
     DEF Allocates, Live, IInv, TypeOK, Places, Embryos, Forking, State, PC, Pids
<1>5. ASSUME NEW p \in Slot, NEW s \in Slot, Reaps(p, s)
      PROVE  TypeOK'
  <2>1. pid[s] \in Nat
    BY DEF IInv, TypeOK
  <2>2. reaped' \in SUBSET Nat
    BY <1>5, <2>1 DEF Reaps, IInv, TypeOK
  <2>3. rv' \in [Slot -> Nat \cup {-1}] /\ pid' \in [Slot -> Nat]
    BY <1>5, <2>1 DEF Reaps, IInv, TypeOK
  <2> QED
    BY <1>5, <2>2, <2>3 DEF Reaps, Tidied, IInv, TypeOK, State, PC
<1>6. ASSUME NEW p \in Slot, NEW s \in Slot, NEW k \in KillArgs, Kills(p, s, k)
      PROVE  TypeOK'
  BY <1>0, <1>6, ProcAssumption
     DEF Kills, Live, Roused, IInv, TypeOK, Places, Embryos, Forking, State, PC, Pids
<1>7. ASSUME NEW p \in Slot, fork_copy(p)
      PROVE  TypeOK'
  BY <1>0, <1>7, ProcAssumption
     DEF fork_copy, Live, IInv, TypeOK, Places, Embryos, Forking, State, PC, Pids
<1>8. ASSUME NEW p \in Slot, fork_run(p)
      PROVE  TypeOK'
  BY <1>0, <1>8, ProcAssumption
     DEF fork_run, Live, IInv, TypeOK, Places, Embryos, Forking, State, PC, Pids
<1>9. ASSUME NEW p \in Slot, exit(p)
      PROVE  TypeOK'
  BY <1>0, <1>9, ProcAssumption
     DEF exit, Live, InitWoken, wakeup1, Adopted, IInv, TypeOK, Places, Embryos, Forking, State,
         PC, Pids
<1>10. CASE UNCHANGED vars
  BY <1>10 DEF vars, IInv, TypeOK, Places, Embryos, Forking, State, PC, Pids
<1> QED
  BY <1>1, <1>2, <1>3, <1>4, <1>5, <1>6, <1>7, <1>8, <1>9, <1>10, StepCases DEF IInv

(* Every step keeps the code of a slot where its state says it is. *)
LEMMA PlacesStep ==
  ASSUME IInv, [Next]_vars
  PROVE  Places'
PROOF
<1>0. initproc \in Slot /\ NoSlot \notin Slot
  BY ProcAssumption DEF Slot, initproc, NoSlot
<1>1. ASSUME NEW p \in Slot, Fails(p)
      PROVE  Places'
  BY <1>0, <1>1 DEF Fails, Live, Tidied, IInv, TypeOK, Places, Embryos, Forking
<1>2. ASSUME NEW p \in Slot, Sleeps(p)
      PROVE  Places'
  BY <1>0, <1>2 DEF Sleeps, Live, IInv, TypeOK, Places, Embryos, Forking
<1>3. ASSUME NEW p \in Slot, Moves(p)
      PROVE  Places'
  BY <1>0, <1>3 DEF Moves, Live, IInv, TypeOK, Places, Embryos, Forking
<1>4. ASSUME NEW p \in Slot, NEW s \in Slot, Allocates(p, s)
      PROVE  Places'
  BY <1>0, <1>4 DEF Allocates, Live, IInv, TypeOK, Places, Embryos, Forking
<1>5. ASSUME NEW p \in Slot, NEW s \in Slot, Reaps(p, s)
      PROVE  Places'
  BY <1>0, <1>5 DEF Reaps, Live, Tidied, IInv, TypeOK, Places, Embryos, Forking
<1>6. ASSUME NEW p \in Slot, NEW s \in Slot, NEW k \in KillArgs, Kills(p, s, k)
      PROVE  Places'
  BY <1>0, <1>6 DEF Kills, Live, Roused, IInv, TypeOK, Places, Embryos, Forking
<1>7. ASSUME NEW p \in Slot, fork_copy(p)
      PROVE  Places'
  BY <1>0, <1>7 DEF fork_copy, Live, IInv, TypeOK, Places, Embryos, Forking
<1>8. ASSUME NEW p \in Slot, fork_run(p)
      PROVE  Places'
  BY <1>0, <1>8 DEF fork_run, Live, IInv, TypeOK, Places, Embryos, Forking
<1>9. ASSUME NEW p \in Slot, exit(p)
      PROVE  Places'
  BY <1>0, <1>9
     DEF exit, Live, InitWoken, wakeup1, Adopted, IInv, TypeOK, Places, Embryos, Forking
<1>10. CASE UNCHANGED vars
  BY <1>10 DEF vars, IInv, TypeOK, Places, Embryos, Forking
<1> QED
  BY <1>1, <1>2, <1>3, <1>4, <1>5, <1>6, <1>7, <1>8, <1>9, <1>10, StepCases DEF IInv

(* Every step keeps an embryo with the one process that forks it. *)
LEMMA EmbryosStep ==
  ASSUME IInv, [Next]_vars
  PROVE  Embryos'
PROOF
<1>0. initproc \in Slot /\ NoSlot \notin Slot
  BY ProcAssumption DEF Slot, initproc, NoSlot
<1>1. ASSUME NEW p \in Slot, Fails(p)
      PROVE  Embryos'
  BY <1>0, <1>1 DEF Fails, Live, Tidied, IInv, TypeOK, Places, Embryos, Parents, Forking
<1>2. ASSUME NEW p \in Slot, Sleeps(p)
      PROVE  Embryos'
  BY <1>0, <1>2 DEF Sleeps, Live, IInv, TypeOK, Places, Embryos, Parents, Forking
<1>3. ASSUME NEW p \in Slot, Moves(p)
      PROVE  Embryos'
  BY <1>0, <1>3 DEF Moves, Live, IInv, TypeOK, Places, Embryos, Parents, Forking
<1>4. ASSUME NEW p \in Slot, NEW s \in Slot, Allocates(p, s)
      PROVE  Embryos'
  BY <1>0, <1>4 DEF Allocates, Live, IInv, TypeOK, Places, Embryos, Parents, Forking
<1>5. ASSUME NEW p \in Slot, NEW s \in Slot, Reaps(p, s)
      PROVE  Embryos'
  BY <1>0, <1>5 DEF Reaps, Live, Tidied, IInv, TypeOK, Places, Embryos, Parents, Forking
<1>6. ASSUME NEW p \in Slot, NEW s \in Slot, NEW k \in KillArgs, Kills(p, s, k)
      PROVE  Embryos'
  BY <1>0, <1>6 DEF Kills, Live, Roused, IInv, TypeOK, Places, Embryos, Parents, Forking
<1>7. ASSUME NEW p \in Slot, fork_copy(p)
      PROVE  Embryos'
  BY <1>0, <1>7 DEF fork_copy, Live, IInv, TypeOK, Places, Embryos, Parents, Forking
<1>8. ASSUME NEW p \in Slot, fork_run(p)
      PROVE  Embryos'
  BY <1>0, <1>8 DEF fork_run, Live, IInv, TypeOK, Places, Embryos, Parents, Forking
<1>9. ASSUME NEW p \in Slot, exit(p)
      PROVE  Embryos'
  BY <1>0, <1>9
     DEF exit, Live, InitWoken, wakeup1, Adopted, IInv, TypeOK, Places, Embryos, Parents,
         Forking
<1>10. CASE UNCHANGED vars
  BY <1>10 DEF vars, IInv, TypeOK, Places, Embryos, Parents, Forking
<1> QED
  BY <1>1, <1>2, <1>3, <1>4, <1>5, <1>6, <1>7, <1>8, <1>9, <1>10, StepCases DEF IInv

(* Every step keeps parents alive: exit has given its children to init. *)
LEMMA ParentsStep ==
  ASSUME IInv, [Next]_vars
  PROVE  Parents'
PROOF
<1>0. initproc \in Slot /\ NoSlot \notin Slot
  BY ProcAssumption DEF Slot, initproc, NoSlot
<1>1. ASSUME NEW p \in Slot, Fails(p)
      PROVE  Parents'
  BY <1>0, <1>1
     DEF Fails, Live, Tidied, IInv, TypeOK, Places, Embryos, Parents, Forking, Zombies, Children
<1>2. ASSUME NEW p \in Slot, Sleeps(p)
      PROVE  Parents'
  BY <1>0, <1>2
     DEF Sleeps, Live, IInv, TypeOK, Places, Embryos, Parents, Forking, Zombies, Children
<1>3. ASSUME NEW p \in Slot, Moves(p)
      PROVE  Parents'
  BY <1>0, <1>3
     DEF Moves, Live, IInv, TypeOK, Places, Embryos, Parents, Forking, Zombies, Children
<1>4. ASSUME NEW p \in Slot, NEW s \in Slot, Allocates(p, s)
      PROVE  Parents'
  BY <1>0, <1>4
     DEF Allocates, Live, IInv, TypeOK, Places, Embryos, Parents, Forking, Zombies, Children
<1>5. ASSUME NEW p \in Slot, NEW s \in Slot, Reaps(p, s)
      PROVE  Parents'
  BY <1>0, <1>5
     DEF Reaps, Live, Tidied, IInv, TypeOK, Places, Embryos, Parents, Forking, Zombies, Children
<1>6. ASSUME NEW p \in Slot, NEW s \in Slot, NEW k \in KillArgs, Kills(p, s, k)
      PROVE  Parents'
  BY <1>0, <1>6
     DEF Kills, Live, Roused, IInv, TypeOK, Places, Embryos, Parents, Forking, Zombies, Children
<1>7. ASSUME NEW p \in Slot, fork_copy(p)
      PROVE  Parents'
  BY <1>0, <1>7
     DEF fork_copy, Live, IInv, TypeOK, Places, Embryos, Parents, Forking, Zombies, Children
<1>8. ASSUME NEW p \in Slot, fork_run(p)
      PROVE  Parents'
  BY <1>0, <1>8
     DEF fork_run, Live, IInv, TypeOK, Places, Embryos, Parents, Forking, Zombies, Children
<1>9. ASSUME NEW p \in Slot, exit(p)
      PROVE  Parents'
  BY <1>0, <1>9
     DEF exit, Live, InitWoken, wakeup1, Adopted, IInv, TypeOK, Places, Embryos, Parents,
         Forking, Zombies, Children
<1>10. CASE UNCHANGED vars
  BY <1>10 DEF vars, IInv, TypeOK, Places, Embryos, Parents, Forking, Zombies, Children
<1> QED
  BY <1>1, <1>2, <1>3, <1>4, <1>5, <1>6, <1>7, <1>8, <1>9, <1>10, StepCases DEF IInv

(* Every step keeps pids: allocproc takes a new one, wait gives one back. *)
LEMMA PidsStep ==
  ASSUME IInv, [Next]_vars
  PROVE  Pids'
PROOF
<1>0. initproc \in Slot /\ NoSlot \notin Slot
  BY ProcAssumption DEF Slot, initproc, NoSlot
<1>1. ASSUME NEW p \in Slot, Fails(p)
      PROVE  Pids'
  BY <1>0, <1>1 DEF Fails, Live, Tidied, IInv, TypeOK, Places, Embryos, Pids, Forking
<1>2. ASSUME NEW p \in Slot, Sleeps(p)
      PROVE  Pids'
  BY <1>0, <1>2 DEF Sleeps, Live, IInv, TypeOK, Places, Embryos, Pids, Forking
<1>3. ASSUME NEW p \in Slot, Moves(p)
      PROVE  Pids'
  BY <1>0, <1>3 DEF Moves, Live, IInv, TypeOK, Places, Embryos, Pids, Forking
<1>4. ASSUME NEW p \in Slot, NEW s \in Slot, Allocates(p, s)
      PROVE  Pids'
  BY <1>0, <1>4 DEF Allocates, Live, IInv, TypeOK, Places, Embryos, Pids, Forking
<1>5. ASSUME NEW p \in Slot, NEW s \in Slot, Reaps(p, s)
      PROVE  Pids'
  <2>1. pid[s] \in 1..nextpid - 1 /\ pid[s] \notin reaped /\ nextpid \in Nat
    BY <1>5 DEF Reaps, IInv, TypeOK, Pids
  <2>2. /\ pid' = [pid EXCEPT ![s] = 0]
        /\ state' = [state EXCEPT ![s] = "UNUSED"]
        /\ reaped' = reaped \cup {pid[s]}
        /\ nextpid' = nextpid
        /\ state[s] = "ZOMBIE"
    BY <1>5 DEF Reaps
  <2>3. /\ \A t \in Slot : t # s => pid'[t] = pid[t] /\ state'[t] = state[t]
        /\ pid'[s] = 0 /\ state'[s] = "UNUSED"
    BY <2>2 DEF IInv, TypeOK
  <2>4. \A t \in Slot : t # s => pid[t] # pid[s]
    BY <2>2 DEF IInv, Pids
  <2>5. \A t \in Slot : IF state'[t] = "UNUSED" THEN pid'[t] = 0
                         ELSE pid'[t] \in 1..nextpid' - 1 /\ pid'[t] \notin reaped'
    BY <2>2, <2>3, <2>4 DEF IInv, Pids
  <2>6. \A t, u \in Slot : state'[t] # "UNUSED" /\ pid'[t] = pid'[u] => t = u
    BY <2>3, <2>5, <2>1 DEF IInv, Pids
  <2>7. reaped' \subseteq 1..nextpid' - 1
    BY <2>1, <2>2 DEF IInv, Pids
  <2>8. \A i \in 1..nextpid' - 1 : i \notin reaped' => \E t \in Slot : pid'[t] = i
    BY <2>1, <2>2, <2>3 DEF IInv, Pids
  <2> QED
    BY <2>2, <2>5, <2>6, <2>7, <2>8 DEF IInv, Pids
<1>6. ASSUME NEW p \in Slot, NEW s \in Slot, NEW k \in KillArgs, Kills(p, s, k)
      PROVE  Pids'
  BY <1>0, <1>6 DEF Kills, Live, Roused, IInv, TypeOK, Places, Embryos, Pids, Forking
<1>7. ASSUME NEW p \in Slot, fork_copy(p)
      PROVE  Pids'
  BY <1>0, <1>7 DEF fork_copy, Live, IInv, TypeOK, Places, Embryos, Pids, Forking
<1>8. ASSUME NEW p \in Slot, fork_run(p)
      PROVE  Pids'
  BY <1>0, <1>8 DEF fork_run, Live, IInv, TypeOK, Places, Embryos, Pids, Forking
<1>9. ASSUME NEW p \in Slot, exit(p)
      PROVE  Pids'
  BY <1>0, <1>9
     DEF exit, Live, InitWoken, wakeup1, Adopted, IInv, TypeOK, Places, Embryos, Pids, Forking
<1>10. CASE UNCHANGED vars
  BY <1>10 DEF vars, IInv, TypeOK, Places, Embryos, Pids, Forking
<1> QED
  BY <1>1, <1>2, <1>3, <1>4, <1>5, <1>6, <1>7, <1>8, <1>9, <1>10, StepCases DEF IInv

(* When kill is not asked for pid 0, every step keeps its marks on the     *)
(* processes it named.                                                     *)
LEMMA KillStep ==
  ASSUME IInv, KillMarks, 0 \notin KillArgs, [Next]_vars
  PROVE  KillMarks'
PROOF
<1>0. initproc \in Slot /\ NoSlot \notin Slot
  BY ProcAssumption DEF Slot, initproc, NoSlot
<1>1. ASSUME NEW p \in Slot, Fails(p)
      PROVE  KillMarks'
  BY <1>0, <1>1 DEF Fails, Live, Tidied, IInv, TypeOK, Places, Embryos, Pids, Forking, KillMarks
<1>2. ASSUME NEW p \in Slot, Sleeps(p)
      PROVE  KillMarks'
  BY <1>0, <1>2 DEF Sleeps, Live, IInv, TypeOK, Places, Embryos, Pids, Forking, KillMarks
<1>3. ASSUME NEW p \in Slot, Moves(p)
      PROVE  KillMarks'
  BY <1>0, <1>3 DEF Moves, Live, IInv, TypeOK, Places, Embryos, Pids, Forking, KillMarks
<1>4. ASSUME NEW p \in Slot, NEW s \in Slot, Allocates(p, s)
      PROVE  KillMarks'
  BY <1>0, <1>4 DEF Allocates, Live, IInv, TypeOK, Places, Embryos, Pids, Forking, KillMarks
<1>5. ASSUME NEW p \in Slot, NEW s \in Slot, Reaps(p, s)
      PROVE  KillMarks'
  BY <1>0, <1>5 DEF Reaps, Live, Tidied, IInv, TypeOK, Places, Embryos, Pids, Forking, KillMarks
<1>6. ASSUME NEW p \in Slot, NEW s \in Slot, NEW k \in KillArgs, Kills(p, s, k)
      PROVE  KillMarks'
  BY <1>0, <1>6 DEF Kills, Live, Roused, IInv, TypeOK, Places, Embryos, Pids, Forking, KillMarks
<1>7. ASSUME NEW p \in Slot, fork_copy(p)
      PROVE  KillMarks'
  BY <1>0, <1>7 DEF fork_copy, Live, IInv, TypeOK, Places, Embryos, Pids, Forking, KillMarks
<1>8. ASSUME NEW p \in Slot, fork_run(p)
      PROVE  KillMarks'
  BY <1>0, <1>8 DEF fork_run, Live, IInv, TypeOK, Places, Embryos, Pids, Forking, KillMarks
<1>9. ASSUME NEW p \in Slot, exit(p)
      PROVE  KillMarks'
  BY <1>0, <1>9
     DEF exit, Live, InitWoken, wakeup1, Adopted, IInv, TypeOK, Places, Embryos, Pids, Forking,
         KillMarks
<1>10. CASE UNCHANGED vars
  BY <1>10 DEF vars, IInv, TypeOK, Places, Embryos, Pids, Forking, KillMarks
<1> QED
  BY <1>1, <1>2, <1>3, <1>4, <1>5, <1>6, <1>7, <1>8, <1>9, <1>10, StepCases DEF IInv

(* Every step wakes a parent that sleeps when its wait has something to    *)
(* return.                                                                 *)
LEMMA SleepStep ==
  ASSUME IInv, NoLostChildExit, [Next]_vars
  PROVE  NoLostChildExit'
PROOF
<1>0. initproc \in Slot /\ NoSlot \notin Slot
  BY ProcAssumption DEF Slot, initproc, NoSlot
<1>1. ASSUME NEW p \in Slot, Fails(p)
      PROVE  NoLostChildExit'
  BY <1>0, <1>1
     DEF Fails, Live, Tidied, IInv, TypeOK, Places, Embryos, Parents, Forking, NoLostChildExit,
         Zombies, Children
<1>2. ASSUME NEW p \in Slot, Sleeps(p)
      PROVE  NoLostChildExit'
  BY <1>0, <1>2
     DEF Sleeps, Live, IInv, TypeOK, Places, Embryos, Parents, Forking, NoLostChildExit,
         Zombies, Children
<1>3. ASSUME NEW p \in Slot, Moves(p)
      PROVE  NoLostChildExit'
  BY <1>0, <1>3
     DEF Moves, Live, IInv, TypeOK, Places, Embryos, Parents, Forking, NoLostChildExit, Zombies,
         Children
<1>4. ASSUME NEW p \in Slot, NEW s \in Slot, Allocates(p, s)
      PROVE  NoLostChildExit'
  BY <1>0, <1>4
     DEF Allocates, Live, IInv, TypeOK, Places, Embryos, Parents, Forking, NoLostChildExit,
         Zombies, Children
<1>5. ASSUME NEW p \in Slot, NEW s \in Slot, Reaps(p, s)
      PROVE  NoLostChildExit'
  BY <1>0, <1>5
     DEF Reaps, Live, Tidied, IInv, TypeOK, Places, Embryos, Parents, Forking, NoLostChildExit,
         Zombies, Children
<1>6. ASSUME NEW p \in Slot, NEW s \in Slot, NEW k \in KillArgs, Kills(p, s, k)
      PROVE  NoLostChildExit'
  BY <1>0, <1>6
     DEF Kills, Live, Roused, IInv, TypeOK, Places, Embryos, Parents, Forking, NoLostChildExit,
         Zombies, Children
<1>7. ASSUME NEW p \in Slot, fork_copy(p)
      PROVE  NoLostChildExit'
  BY <1>0, <1>7
     DEF fork_copy, Live, IInv, TypeOK, Places, Embryos, Parents, Forking, NoLostChildExit,
         Zombies, Children
<1>8. ASSUME NEW p \in Slot, fork_run(p)
      PROVE  NoLostChildExit'
  BY <1>0, <1>8
     DEF fork_run, Live, IInv, TypeOK, Places, Embryos, Parents, Forking, NoLostChildExit,
         Zombies, Children
<1>9. ASSUME NEW p \in Slot, exit(p)
      PROVE  NoLostChildExit'
  BY <1>0, <1>9
     DEF exit, Live, InitWoken, wakeup1, Adopted, IInv, TypeOK, Places, Embryos, Parents,
         Forking, NoLostChildExit, Zombies, Children
<1>10. CASE UNCHANGED vars
  BY <1>10
     DEF vars, IInv, TypeOK, Places, Embryos, Parents, Forking, NoLostChildExit, Zombies,
         Children
<1> QED
  BY <1>1, <1>2, <1>3, <1>4, <1>5, <1>6, <1>7, <1>8, <1>9, <1>10, StepCases DEF IInv

-----------------------------------------------------------------------------
(* Theorems. *)

(* userinit leaves a table that satisfies the invariant. *)
LEMMA InitIInv == Init => IInv /\ KillMarks /\ NoLostChildExit
PROOF
<1> SUFFICES ASSUME Init PROVE IInv /\ KillMarks /\ NoLostChildExit
  OBVIOUS
<1>0. initproc \in Slot /\ NoSlot \notin Slot
  BY ProcAssumption DEF Slot, initproc, NoSlot
<1>1. TypeOK
  BY <1>0, ProcAssumption DEF Init, TypeOK, State, PC
<1>2. Places /\ Embryos /\ Parents
  BY <1>0 DEF Init, Places, Embryos, Parents, Forking
<1>3. Pids
  BY <1>0 DEF Init, Pids
<1>4. KillMarks /\ NoLostChildExit
  BY <1>0 DEF Init, KillMarks, NoLostChildExit
<1> QED
  BY <1>1, <1>2, <1>3, <1>4 DEF IInv

(* Every step keeps the invariant. *)
LEMMA IInvStep == IInv /\ [Next]_vars => IInv'
PROOF
  BY TypeStep, PlacesStep, EmbryosStep, ParentsStep, PidsStep DEF IInv

(* The inductive invariant of the process table. *)
THEOREM ProcInvariant == Spec => []IInv
PROOF
  BY InitIInv, IInvStep, PTL DEF Spec

(* The invariant says that a pid given out is held by exactly one slot in  *)
(* use or was returned by wait (proc.c:51, 236).                           *)
LEMMA PidsConserved == IInv => ProcessConserved
PROOF
<1> SUFFICES ASSUME IInv, NEW i \in 1..nextpid - 1
             PROVE  LET holders == {s \in InUse : pid[s] = i}
                    IN  IF i \in reaped THEN holders = {} ELSE Cardinality(holders) = 1
  BY DEF ProcessConserved
<1> DEFINE holders == {s \in InUse : pid[s] = i}
<1>1. CASE i \in reaped
  BY <1>1 DEF IInv, Pids, InUse, Unused
<1>2. CASE i \notin reaped
  <2>1. nextpid \in Nat
    BY DEF IInv, TypeOK
  <2>2. PICK s \in Slot : pid[s] = i
    BY <1>2 DEF IInv, Pids
  <2>3. state[s] # "UNUSED"
    BY <2>1, <2>2 DEF IInv, Pids
  <2>4. holders = {s}
    BY <2>2, <2>3 DEF IInv, Pids, InUse, Unused
  <2>5. Cardinality(holders) = 1
    BY <2>4, FS_Singleton
  <2> QED
    BY <1>2, <2>5
<1> QED
  BY <1>1, <1>2

(* The invariant says that whoever may be waited for has a parent that can *)
(* still call wait.                                                        *)
LEMMA ParentsAlive == IInv => ParentAlive
PROOF
  BY DEF IInv, TypeOK, Parents, ParentAlive, InUse, Unused, State

(* For every size of the table and every set of arguments of kill: no      *)
(* process is lost or doubled, and every process that runs, sleeps or is a *)
(* zombie has a parent that can still wait for it (fork, exit and wait,    *)
(* proc.c:132-259).                                                        *)
THEOREM ProcessesKept == Spec => [](TypeOK /\ ProcessConserved /\ ParentAlive)
PROOF
<1>1. IInv => TypeOK /\ ProcessConserved /\ ParentAlive
  BY PidsConserved, ParentsAlive DEF IInv
<1> QED
  BY <1>1, ProcInvariant, PTL

(* For every size of the table: the process table keeps its promises, when *)
(* no process calls kill(0).  The pid field of a free slot is 0, kill      *)
(* compares pids without looking at the state (proc.c:436), and allocproc  *)
(* does not clear killed: after kill(0) a new process is born killed.      *)
THEOREM ProcTableKept ==
  ASSUME 0 \notin KillArgs
  PROVE  Spec => []ProcTable
PROOF
<1>1. Init => IInv /\ KillMarks
  BY InitIInv
<1>2. IInv /\ KillMarks /\ [Next]_vars => (IInv /\ KillMarks)'
  BY IInvStep, KillStep
<1>3. IInv /\ KillMarks => ProcTable
  BY PidsConserved, ParentsAlive DEF IInv, KillMarks, ProcTable, KillIsTargeted, InUse
<1> QED
  BY <1>1, <1>2, <1>3, PTL DEF Spec

(* For every size of the table and every set of arguments of kill: no exit *)
(* of a child, adoption of a zombie or kill is missed by a process asleep  *)
(* in wait (proc.c:199-212, 257, 440).                                     *)
THEOREM WaitMissesNothing == Spec => []NoLostChildExit
PROOF
<1>1. Init => IInv /\ NoLostChildExit
  BY InitIInv
<1>2. IInv /\ NoLostChildExit /\ [Next]_vars => (IInv /\ NoLostChildExit)'
  BY IInvStep, SleepStep
<1> QED
  BY <1>1, <1>2, PTL DEF Spec

=============================================================================
