-------------------------------- MODULE Log --------------------------------
(***************************************************************************)
(* The write-ahead log of the file system (log.c): system calls reserve    *)
(* log space, change blocks in the buffer cache, and the last one to       *)
(* finish commits the changes of all of them.  One action is one critical  *)
(* section of log.lock, one unlocked check, or one block written to disk,  *)
(* so that a crash may fall between any two of them.                       *)
(*                                                                         *)
(* A block number of the log header is a member of Block, a block's data   *)
(* one member of Val.  A disk write of one block is atomic.                *)
(***************************************************************************)
EXTENDS Naturals, Sequences, FiniteSets

CONSTANTS
  Proc,         \* processes that make file system calls
  Block,        \* home blocks of the file system
  Val,          \* contents of a block
  InitVal,      \* content of every block of the initial image
  NoBlock,      \* "holds no buffer"
  InodeBlock,   \* the block that follows the log area, sb.inodestart
  MAXOPBLOCKS,  \* param.h: log blocks reserved for one system call
  LOGSIZE,      \* param.h: entries of the log header
  NLOG,         \* sb.nlog: blocks of the log area, the header included
  OpBlocks      \* distinct blocks one system call logs

ASSUME ConstAssumption ==
  /\ IsFiniteSet(Proc)
  /\ InitVal \in Val
  /\ NoBlock \notin Block
  /\ InodeBlock \in Block
  /\ MAXOPBLOCKS \in Nat /\ LOGSIZE \in Nat /\ NLOG \in Nat /\ OpBlocks \in Nat
  /\ 0 < OpBlocks /\ OpBlocks <= MAXOPBLOCKS

VARIABLES
  lh,           \* log.lh: block[0..n-1]
  outstanding,  \* log.outstanding
  committing,   \* log.committing
  tail,         \* the loop variable of write_log and install_trans, from 1
  pc,           \* where each process is
  wrote,        \* blocks each open system call has logged, in order
  arg,          \* the buffer whose log_write a process is in
  buf,          \* each block as read through the buffer cache
  home,         \* each block on disk
  dlog,         \* the log area on disk
  dhead,        \* the log header on disk
  boot          \* "up", or the step of initlog, or "panic"

memVars == <<lh, outstanding, committing, tail, pc, wrote, arg, buf, boot>>
diskVars == <<home, dlog, dhead>>
vars == <<lh, outstanding, committing, tail, pc, wrote, arg, buf, boot,
          home, dlog, dhead>>

PC == {"user", "begin", "sleep", "op", "append", "write_log", "write_head",
       "install_trans", "clear_head", "commit_done"}
Boot == {"read_head", "install_trans", "clear_head", "up", "panic"}

Elems(s) == {s[i] : i \in 1..Len(s)}

(* Processes between begin_op and end_op, and those in commit. *)
OpProc == {p \in Proc : pc[p] \in {"op", "append"}}
CommitPC == {"write_log", "write_head", "install_trans", "clear_head", "commit_done"}
Committer == {p \in Proc : pc[p] \in CommitPC}

-----------------------------------------------------------------------------

(* The i-th block of the log area.  The area holds NLOG - 1 blocks after   *)
(* its header; the block after them is the first inode block, which        *)
(* log.start+tail+1 names when tail runs past the area.                    *)
InArea(i) == i < NLOG
Slot(i) == IF InArea(i) THEN dlog[i] ELSE home[InodeBlock]

(* What recovery would make of the disk. *)
Recovered ==
  [b \in Block |->
     IF b \in Elems(dhead)
       THEN Slot(CHOOSE i \in 1..Len(dhead) : dhead[i] = b)
       ELSE home[b]]

Init ==
  /\ lh = <<>>
  /\ outstanding = 0
  /\ committing = FALSE
  /\ tail = 1
  /\ pc = [p \in Proc |-> "user"]
  /\ wrote = [p \in Proc |-> <<>>]
  /\ arg = [p \in Proc |-> NoBlock]
  /\ buf = [b \in Block |-> InitVal]
  /\ home = [b \in Block |-> InitVal]
  /\ dlog = [i \in 1..LOGSIZE |-> InitVal]
  /\ dhead = <<>>
  /\ boot = "read_head"

-----------------------------------------------------------------------------
(* System calls. *)

(* wakeup(&log): every sleeper looks at the condition again. *)
Woken(f) == [q \in Proc |-> IF f[q] = "sleep" THEN "begin" ELSE f[q]]

(* Mutant: a call is let in during a commit. *)
Blocked_DuringCommit == Len(lh) + (outstanding + 1) * MAXOPBLOCKS > LOGSIZE

Blocked ==
  \/ committing
  \/ Len(lh) + (outstanding + 1) * MAXOPBLOCKS > LOGSIZE

begin_op(p) ==
  /\ boot = "up"
  /\ pc[p] \in {"user", "begin"}
  /\ IF Blocked
       THEN /\ pc' = [pc EXCEPT ![p] = "sleep"]
            /\ UNCHANGED outstanding
       ELSE /\ pc' = [pc EXCEPT ![p] = "op"]
            /\ outstanding' = outstanding + 1
  /\ UNCHANGED <<lh, committing, tail, wrote, arg, buf, boot, diskVars>>

(* A system call keeps to its reservation: it logs OpBlocks blocks at most. *)
MayLog(p, b) == b \in Elems(wrote[p]) \/ Len(wrote[p]) < OpBlocks

(* The caller locks a buffer (bread), changes it, and calls log_write,     *)
(* whose checks read log.lh.n and log.outstanding without log.lock.        *)
log_write(p, b, v) ==
  /\ boot = "up"
  /\ pc[p] = "op"
  /\ \A q \in Proc : arg[q] # b
  /\ MayLog(p, b)
  /\ buf' = [buf EXCEPT ![b] = v]
  /\ IF Len(lh) >= LOGSIZE \/ Len(lh) >= NLOG - 1 \/ outstanding < 1
       THEN /\ boot' = "panic"
            /\ UNCHANGED <<pc, arg>>
       ELSE /\ pc' = [pc EXCEPT ![p] = "append"]
            /\ arg' = [arg EXCEPT ![p] = b]
            /\ UNCHANGED boot
  /\ UNCHANGED <<lh, outstanding, committing, tail, wrote, diskVars>>

(* The rest of log_write, under log.lock: a block already in the header is *)
(* absorbed.  The caller then releases the buffer (brelse).                *)
AppendTo(s, b) == IF b \in Elems(s) THEN s ELSE Append(s, b)

log_append(p) ==
  /\ boot = "up"
  /\ pc[p] = "append"
  /\ lh' = AppendTo(lh, arg[p])
  /\ wrote' = [wrote EXCEPT ![p] = AppendTo(@, arg[p])]
  /\ arg' = [arg EXCEPT ![p] = NoBlock]
  /\ pc' = [pc EXCEPT ![p] = "op"]
  /\ UNCHANGED <<outstanding, committing, tail, buf, boot, diskVars>>

(* Mutant of end_op: a call that is not the last wakes nobody. *)
end_op_NoWakeup(p) ==
  /\ boot = "up"
  /\ pc[p] = "op"
  /\ outstanding' = outstanding - 1
  /\ wrote' = [wrote EXCEPT ![p] = <<>>]
  /\ committing' = (outstanding = 1)
  /\ tail' = 1
  /\ pc' = [pc EXCEPT ![p] =
             IF outstanding # 1 THEN "user"
             ELSE IF lh = <<>> THEN "commit_done" ELSE "write_log"]
  /\ UNCHANGED <<lh, arg, buf, boot, diskVars>>

(* The first critical section of end_op; the last call out commits, and    *)
(* commit() does nothing when no block was logged.                         *)
end_op(p) ==
  /\ boot = "up"
  /\ pc[p] = "op"
  /\ outstanding' = outstanding - 1
  /\ wrote' = [wrote EXCEPT ![p] = <<>>]
  /\ IF committing
       THEN /\ boot' = "panic"
            /\ UNCHANGED <<committing, tail, pc>>
       ELSE /\ IF outstanding = 1
                 THEN /\ committing' = TRUE
                      /\ tail' = 1
                      /\ pc' = [pc EXCEPT ![p] =
                                 IF lh = <<>> THEN "commit_done" ELSE "write_log"]
                 ELSE /\ pc' = Woken([pc EXCEPT ![p] = "user"])
                      /\ UNCHANGED <<committing, tail>>
            /\ UNCHANGED boot
  /\ UNCHANGED <<lh, arg, buf, diskVars>>

-----------------------------------------------------------------------------
(* commit(), one disk write at a time. *)

WriteSlot(i, v) ==
  IF InArea(i)
    THEN /\ dlog' = [dlog EXCEPT ![i] = v]
         /\ UNCHANGED <<home, buf>>
    ELSE /\ home' = [home EXCEPT ![InodeBlock] = v]
         /\ buf' = [buf EXCEPT ![InodeBlock] = v]
         /\ UNCHANGED dlog

(* Mutant of write_log: the header is not written before the install. *)
write_log_NoHead(p) ==
  /\ boot = "up"
  /\ pc[p] = "write_log"
  /\ WriteSlot(tail, buf[lh[tail]])
  /\ tail' = IF tail = Len(lh) THEN 1 ELSE tail + 1
  /\ pc' = [pc EXCEPT ![p] = IF tail = Len(lh) THEN "install_trans" ELSE @]
  /\ UNCHANGED <<lh, outstanding, committing, wrote, arg, dhead, boot>>

write_log(p) ==
  /\ boot = "up"
  /\ pc[p] = "write_log"
  /\ WriteSlot(tail, buf[lh[tail]])
  /\ tail' = tail + 1
  /\ pc' = [pc EXCEPT ![p] = IF tail = Len(lh) THEN "write_head" ELSE @]
  /\ UNCHANGED <<lh, outstanding, committing, wrote, arg, dhead, boot>>

(* Mutant of write_head: commit() skips install_trans. *)
write_head_NoInstall(p) ==
  /\ boot = "up"
  /\ pc[p] = "write_head"
  /\ dhead' = lh
  /\ pc' = [pc EXCEPT ![p] = "clear_head"]
  /\ UNCHANGED <<lh, outstanding, committing, tail, wrote, arg, buf, home, dlog, boot>>

(* "the true point at which the current transaction commits" *)
write_head(p) ==
  /\ boot = "up"
  /\ pc[p] = "write_head"
  /\ dhead' = lh
  /\ tail' = 1
  /\ pc' = [pc EXCEPT ![p] = "install_trans"]
  /\ UNCHANGED <<lh, outstanding, committing, wrote, arg, buf, home, dlog, boot>>

(* One round of install_trans: a log block is copied to its home. *)
InstallBlock ==
  /\ home' = [home EXCEPT ![lh[tail]] = Slot(tail)]
  /\ buf' = [buf EXCEPT ![lh[tail]] = Slot(tail)]
  /\ tail' = tail + 1
  /\ UNCHANGED <<lh, outstanding, committing, wrote, arg, dlog, dhead>>

install_trans(p) ==
  /\ boot = "up"
  /\ pc[p] = "install_trans"
  /\ InstallBlock
  /\ pc' = [pc EXCEPT ![p] = IF tail = Len(lh) THEN "clear_head" ELSE @]
  /\ UNCHANGED boot

(* log.lh.n = 0; write_head() *)
ClearHead ==
  /\ lh' = <<>>
  /\ dhead' = <<>>
  /\ UNCHANGED <<outstanding, committing, tail, wrote, arg, buf, home, dlog>>

clear_head(p) ==
  /\ boot = "up"
  /\ pc[p] = "clear_head"
  /\ ClearHead
  /\ pc' = [pc EXCEPT ![p] = "commit_done"]
  /\ UNCHANGED boot

(* Mutants of commit_done: the sleepers are not woken; the call is counted *)
(* out a second time.                                                      *)
commit_done_NoWakeup(p) ==
  /\ boot = "up"
  /\ pc[p] = "commit_done"
  /\ committing' = FALSE
  /\ pc' = [pc EXCEPT ![p] = "user"]
  /\ UNCHANGED <<lh, outstanding, tail, wrote, arg, buf, boot, diskVars>>

commit_done_CountsTwice(p) ==
  /\ boot = "up"
  /\ pc[p] = "commit_done"
  /\ committing' = FALSE
  /\ outstanding' = outstanding - 1
  /\ pc' = Woken([pc EXCEPT ![p] = "user"])
  /\ UNCHANGED <<lh, tail, wrote, arg, buf, boot, diskVars>>

(* The second critical section of end_op. *)
commit_done(p) ==
  /\ boot = "up"
  /\ pc[p] = "commit_done"
  /\ committing' = FALSE
  /\ pc' = Woken([pc EXCEPT ![p] = "user"])
  /\ UNCHANGED <<lh, outstanding, tail, wrote, arg, buf, boot, diskVars>>

-----------------------------------------------------------------------------
(* A crash at any moment, recovery included; a panic ends in a reboot.     *)

Crash ==
  /\ lh' = <<>>
  /\ outstanding' = 0
  /\ committing' = FALSE
  /\ tail' = 1
  /\ pc' = [p \in Proc |-> "user"]
  /\ wrote' = [p \in Proc |-> <<>>]
  /\ arg' = [p \in Proc |-> NoBlock]
  /\ buf' = home
  /\ boot' = "read_head"
  /\ UNCHANGED diskVars

(* initlog and recover_from_log *)
boot_read_head ==
  /\ boot = "read_head"
  /\ lh' = dhead
  /\ tail' = 1
  /\ boot' = IF dhead = <<>> THEN "clear_head" ELSE "install_trans"
  /\ UNCHANGED <<outstanding, committing, pc, wrote, arg, buf, diskVars>>

boot_install_trans ==
  /\ boot = "install_trans"
  /\ InstallBlock
  /\ boot' = IF tail = Len(lh) THEN "clear_head" ELSE boot
  /\ UNCHANGED pc

boot_clear_head ==
  /\ boot = "clear_head"
  /\ ClearHead
  /\ boot' = "up"
  /\ UNCHANGED pc

-----------------------------------------------------------------------------

Commit(p) ==
  \/ write_log(p)
  \/ write_head(p)
  \/ install_trans(p)
  \/ clear_head(p)
  \/ commit_done(p)

initlog ==
  \/ boot_read_head
  \/ boot_install_trans
  \/ boot_clear_head

Next ==
  \/ \E p \in Proc : begin_op(p) \/ log_append(p) \/ end_op(p) \/ Commit(p)
  \/ \E p \in Proc, b \in Block, v \in Val : log_write(p, b, v)
  \/ Crash
  \/ initlog

Spec == Init /\ [][Next]_vars

(* A process that was woken runs, a commit and a recovery go on, and a     *)
(* system call does not log blocks forever.  Nothing makes a process start *)
(* a call.                                                                 *)
Fairness ==
  /\ WF_vars(initlog)
  /\ \A p \in Proc :
       /\ WF_vars(pc[p] = "begin" /\ begin_op(p))
       /\ WF_vars(log_append(p))
       /\ SF_vars(end_op(p))
       /\ WF_vars(Commit(p))

FairSpec == Spec /\ Fairness

-----------------------------------------------------------------------------
(* Properties *)

TypeOK ==
  /\ lh \in Seq(Block)
  /\ outstanding \in Nat
  /\ committing \in BOOLEAN
  /\ tail \in Nat \ {0}
  /\ pc \in [Proc -> PC]
  /\ wrote \in [Proc -> Seq(Block)]
  /\ arg \in [Proc -> Block \cup {NoBlock}]
  /\ buf \in [Block -> Val]
  /\ home \in [Block -> Val]
  /\ dlog \in [1..LOGSIZE -> Val]
  /\ dhead \in Seq(Block)
  /\ boot \in Boot

(* LOGSIZE is the "max data blocks in on-disk log" (param.h:11), and       *)
(* begin_op lets calls in whose reservations add up to it: the transaction *)
(* fits the area mkfs gave the log, whose first block is the header, and   *)
(* write_log never writes the inode block that follows it.  False of the   *)
(* code when the calls use their reservations.                             *)
LogFits == Len(lh) <= NLOG - 1

(* log.lh.n stays inside log.lh.block[LOGSIZE], also with the reservation  *)
(* used to the last block.                                                 *)
HeaderFits == Len(lh) <= LOGSIZE

(* When no system call is in progress and no commit runs, everything done  *)
(* so far would survive a crash: end_op returns from the last call only    *)
(* after its changes are durable.                                          *)
QuiescentDurable ==
  boot = "up" /\ outstanding = 0 /\ ~committing => Recovered = buf

(* A process sleeps in begin_op only while its condition to sleep holds:   *)
(* each change that could let it in wakes it.                              *)
NoMissedWakeup == \A p \in Proc : pc[p] = "sleep" => Blocked

(* Write-ahead rule: a home block changes on disk only while the header on *)
(* disk names it, so that a crash in the middle can be repaired.           *)
WriteAhead ==
  [][\A b \in Block : home'[b] # home[b] => b \in Elems(dhead)]_vars

(* A process that sleeps for log space does not sleep forever. *)
SleeperWakes == \A p \in Proc : pc[p] = "sleep" ~> pc[p] # "sleep"

(* The log implements atomic transactions: whatever the interleaving and   *)
(* wherever a crash falls, a restart finds the memory of a moment at which *)
(* no system call was half done.                                           *)
Tx == INSTANCE AtomicTx WITH
        mem <- IF boot \in {"up", "panic"} THEN buf ELSE Recovered,
        durable <- Recovered,
        active <- OpProc,
        up <- boot \in {"up", "panic"}

TxSpec == Tx!Spec

=============================================================================
