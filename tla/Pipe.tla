-------------------------------- MODULE Pipe --------------------------------
(***************************************************************************)
(* One pipe (pipe.c) and the processes that hold its ends.  A call is a    *)
(* system call read or write on the pipe; it holds p->lock except while it *)
(* sleeps.  proc->killed is not protected by p->lock: kill may come at any *)
(* step, also between the test of killed and the sleep.  The sleep itself  *)
(* is atomic for wakeup and kill (both take ptable.lock; see Sched).       *)
(***************************************************************************)
EXTENDS Naturals, Sequences

CONSTANTS
  Proc,           \* processes
  NoProc,         \* p->lock is free
  Writer, Reader, \* those that hold the write end and the read end at first
  Byte,
  PIPESIZE,
  WORD,           \* the counters nread and nwrite are uint: they wrap at WORD
  ReadLengths, WriteLengths   \* the n of the calls

ASSUME PipeAssumption ==
  /\ NoProc \notin Proc
  /\ Writer \subseteq Proc /\ Reader \subseteq Proc
  /\ Writer # {} /\ Reader # {} /\ Byte # {}
  /\ PIPESIZE \in Nat \ {0} /\ WORD \in Nat
  /\ WORD > PIPESIZE /\ WORD % PIPESIZE = 0
  /\ ReadLengths \subseteq Nat /\ WriteLengths \subseteq Nat

End == {"read", "write"}

VARIABLES
  data, nread, nwrite, readopen, writeopen,   \* struct pipe
  lock,                                       \* the process that holds p->lock
  freed,                                      \* kfree(p) was called
  pc, op, n, i,                               \* of each process: its call
  killed,
  holds,                                      \* of each process: the ends it has open
  got,                                        \* the byte copied to a reader last
  gaveup                                      \* a killed writer left its bytes behind and
                                              \* woke no reader for them (auxiliary)

pipe == <<data, nread, nwrite, readopen, writeopen>>
vars == <<data, nread, nwrite, readopen, writeopen, lock, freed, pc, op, n, i, killed,
          holds, got, gaveup>>

(* "loop" is the loop of pipewrite or the first loop of piperead, "copy"   *)
(* the second; "presleep" is past the test of killed.                      *)
PC == {"user", "acquire", "loop", "copy", "presleep", "asleep", "exit", "dead"}

Index == 0..PIPESIZE - 1

(* What pipealloc leaves behind; the contents of the page are arbitrary. *)
Init ==
  /\ \E b \in Byte : data = [k \in Index |-> b] /\ got = b
  /\ nread = 0 /\ nwrite = 0
  /\ readopen = TRUE /\ writeopen = TRUE
  /\ lock = NoProc
  /\ freed = FALSE
  /\ pc = [p \in Proc |-> "user"]
  /\ op = [p \in Proc |-> "read"]
  /\ n = [p \in Proc |-> 0]
  /\ i = [p \in Proc |-> 0]
  /\ killed = [p \in Proc |-> FALSE]
  /\ holds = [p \in Proc |-> {e \in End : p \in IF e = "read" THEN Reader ELSE Writer}]
  /\ gaveup = FALSE

-----------------------------------------------------------------------------

Empty == nread = nwrite
Full == nwrite = (nread + PIPESIZE) % WORD

(* wakeup: the sleepers of a call o go on to take p->lock again. *)
wakeup(o) == [p \in Proc |-> IF pc[p] = "asleep" /\ op[p] = o THEN "acquire" ELSE pc[p]]

(* The call lets p->lock go and returns; at the end of syscall() a killed  *)
(* process exits.                                                          *)
returns(p, pcs) ==
  /\ lock' = NoProc
  /\ pc' = [pcs EXCEPT ![p] = IF killed[p] THEN "exit" ELSE "user"]
  /\ op' = [op EXCEPT ![p] = "read"]
  /\ n' = [n EXCEPT ![p] = 0]
  /\ i' = [i EXCEPT ![p] = 0]

In(p, o, at) == pc[p] = at /\ op[p] = o

(* fileread or filewrite on the pipe *)
call(p, o, k) ==
  /\ pc[p] = "user" /\ o \in holds[p]
  /\ pc' = [pc EXCEPT ![p] = "acquire"]
  /\ op' = [op EXCEPT ![p] = o]
  /\ n' = [n EXCEPT ![p] = k]
  /\ i' = [i EXCEPT ![p] = 0]
  /\ UNCHANGED <<pipe, lock, freed, killed, holds, got, gaveup>>

(* p->lock, at the start of the call and at the end of sleep *)
acquire(p) ==
  /\ pc[p] = "acquire" /\ lock = NoProc
  /\ lock' = p
  /\ pc' = [pc EXCEPT ![p] = "loop"]
  /\ UNCHANGED <<pipe, freed, op, n, i, killed, holds, got, gaveup>>

sleep(p) ==
  /\ pc[p] = "presleep"
  /\ pc' = [pc EXCEPT ![p] = "asleep"]
  /\ lock' = NoProc
  /\ UNCHANGED <<pipe, freed, op, n, i, killed, holds, got, gaveup>>

-----------------------------------------------------------------------------
(* pipewrite *)

(* Mutant: the counter is incremented before it is used. *)
Place_Next == ((nwrite + 1) % WORD) % PIPESIZE

Place == nwrite % PIPESIZE

write_byte(p, b) ==
  /\ In(p, "write", "loop") /\ i[p] < n[p] /\ ~Full
  /\ data' = [data EXCEPT ![Place] = b]
  /\ nwrite' = (nwrite + 1) % WORD
  /\ i' = [i EXCEPT ![p] = @ + 1]
  /\ UNCHANGED <<nread, readopen, writeopen, lock, freed, pc, op, n, killed, holds, got, gaveup>>

(* A full buffer: give up, or wake the readers and go to sleep. *)
write_full(p) ==
  /\ In(p, "write", "loop") /\ i[p] < n[p] /\ Full
  /\ IF ~readopen \/ killed[p]
       THEN returns(p, pc) /\ gaveup' = (gaveup \/ readopen)
       ELSE /\ pc' = [wakeup("read") EXCEPT ![p] = "presleep"]
            /\ gaveup' = FALSE
            /\ UNCHANGED <<lock, op, n, i>>
  /\ UNCHANGED <<pipe, freed, killed, holds, got>>

write_done(p) ==
  /\ In(p, "write", "loop") /\ i[p] = n[p]
  /\ returns(p, wakeup("read"))
  /\ gaveup' = FALSE
  /\ UNCHANGED <<pipe, freed, killed, holds, got>>

-----------------------------------------------------------------------------
(* piperead *)

(* The first loop: wait for a byte or for the end of file. *)
read_wait(p) ==
  /\ In(p, "read", "loop")
  /\ IF Empty /\ writeopen /\ killed[p]
       THEN returns(p, pc)
       ELSE /\ pc' = [pc EXCEPT ![p] = IF Empty /\ writeopen THEN "presleep" ELSE "copy"]
            /\ UNCHANGED <<lock, op, n, i>>
  /\ UNCHANGED <<pipe, freed, killed, holds, got, gaveup>>

read_byte(p) ==
  /\ In(p, "read", "copy") /\ i[p] < n[p] /\ ~Empty
  /\ got' = data[nread % PIPESIZE]
  /\ nread' = (nread + 1) % WORD
  /\ i' = [i EXCEPT ![p] = @ + 1]
  /\ gaveup' = (gaveup /\ nread' # nwrite)
  /\ UNCHANGED <<data, nwrite, readopen, writeopen, lock, freed, pc, op, n, killed, holds>>

read_done(p) ==
  /\ In(p, "read", "copy") /\ (i[p] = n[p] \/ Empty)
  /\ returns(p, wakeup("write"))
  /\ UNCHANGED <<pipe, freed, killed, holds, got, gaveup>>

-----------------------------------------------------------------------------
(* close, exit and kill *)

(* Mutants: the pipe is freed when one end is closed; a close wakes nobody. *)
Unused_Half(r, w) == ~r \/ ~w
Notified_None(e) == pc

(* kfree when both ends are closed; the sleepers at the other end go on. *)
Unused(r, w) == ~r /\ ~w
Notified(e) == wakeup(IF e = "write" THEN "read" ELSE "write")

(* fileclose: the last reference to an end calls pipeclose, which wakes    *)
(* the other end and frees the pipe when both ends are closed.             *)
close(p, e) ==
  /\ pc[p] \in {"user", "exit"} /\ e \in holds[p]
  /\ holds' = [holds EXCEPT ![p] = @ \ {e}]
  /\ IF \E r \in Proc \ {p} : e \in holds[r]
       THEN UNCHANGED <<readopen, writeopen, freed, pc, gaveup>>
       ELSE /\ lock = NoProc
            /\ writeopen' = (writeopen /\ e # "write")
            /\ readopen' = (readopen /\ e # "read")
            /\ pc' = Notified(e)
            /\ gaveup' = FALSE
            /\ freed' = (freed \/ Unused(readopen', writeopen'))
  /\ UNCHANGED <<data, nread, nwrite, lock, op, n, i, killed, got>>

(* exit, from user code or because of a kill, ends when the ends are       *)
(* closed; the slot, and killed with it, is cleared by the parent's wait.  *)
exit(p) ==
  /\ pc[p] = "exit" /\ holds[p] = {}
  /\ pc' = [pc EXCEPT ![p] = "dead"]
  /\ killed' = [killed EXCEPT ![p] = FALSE]
  /\ UNCHANGED <<pipe, lock, freed, op, n, i, holds, got, gaveup>>

(* sys_exit, or an interrupt that finds the process killed *)
enter_exit(p) ==
  /\ pc[p] = "user"
  /\ pc' = [pc EXCEPT ![p] = "exit"]
  /\ UNCHANGED <<pipe, lock, freed, op, n, i, killed, holds, got, gaveup>>

(* kill marks the process, and wakes it if it sleeps. *)
kill(p) ==
  /\ pc[p] # "dead" /\ ~killed[p]
  /\ killed' = [killed EXCEPT ![p] = TRUE]
  /\ pc' = [pc EXCEPT ![p] = IF @ = "asleep" THEN "acquire" ELSE @]
  /\ UNCHANGED <<pipe, lock, freed, op, n, i, holds, got, gaveup>>

-----------------------------------------------------------------------------

pipewrite(p) == (\E b \in Byte : write_byte(p, b)) \/ write_full(p) \/ write_done(p)
piperead(p) == read_wait(p) \/ read_byte(p) \/ read_done(p)

(* What a process in the kernel, or killed, does next. *)
Kernel(p) ==
  \/ acquire(p) \/ sleep(p)
  \/ pipewrite(p) \/ piperead(p)
  \/ pc[p] = "exit" /\ \E e \in End : close(p, e)
  \/ exit(p)
  \/ killed[p] /\ enter_exit(p)

User(p) ==
  \/ \E k \in ReadLengths : call(p, "read", k)
  \/ \E k \in WriteLengths : call(p, "write", k)
  \/ pc[p] = "user" /\ \E e \in End : close(p, e)
  \/ enter_exit(p)

Next == \E p \in Proc : Kernel(p) \/ User(p) \/ kill(p)

Spec == Init /\ [][Next]_vars

(* Processes get a processor, and do not spin for ever on a p->lock that   *)
(* is free again and again.                                                *)
Fairness == \A p \in Proc : SF_vars(Kernel(p))

FairSpec == Spec /\ Fairness

-----------------------------------------------------------------------------
(* Properties *)

TypeOK ==
  /\ data \in [Index -> Byte]
  /\ nread \in 0..WORD - 1 /\ nwrite \in 0..WORD - 1
  /\ readopen \in BOOLEAN /\ writeopen \in BOOLEAN /\ freed \in BOOLEAN
  /\ lock \in Proc \cup {NoProc}
  /\ pc \in [Proc -> PC] /\ op \in [Proc -> End]
  /\ n \in [Proc -> ReadLengths \cup WriteLengths \cup {0}]
  /\ i \in [Proc -> Nat] /\ \A p \in Proc : i[p] <= n[p]
  /\ killed \in [Proc -> BOOLEAN]
  /\ holds \in [Proc -> SUBSET End]
  /\ got \in Byte /\ gaveup \in BOOLEAN

(* The bytes under way: those between the counters, which wrap. *)
Used == (nwrite + WORD - nread) % WORD
Queue == [k \in 1..Used |-> data[((nread + k - 1) % WORD) % PIPESIZE]]

C == INSTANCE Channel WITH q <- Queue, Size <- PIPESIZE, wopen <- writeopen, ropen <- readopen

(* The pipe is a bounded queue of bytes: no byte is lost, repeated,        *)
(* overwritten or taken out of order, also when the counters wrap.         *)
ChannelSpec == C!Spec

Asleep(p, o) == pc[p] = "asleep" /\ op[p] = o
Holds(o, at) == \E p \in Proc : lock = p /\ op[p] = o /\ pc[p] \in at

(* A reader sleeps only while there is nothing to read and somebody may    *)
(* still write, a writer only while the buffer is full and somebody may    *)
(* read, except while the call that changed that still holds p->lock and   *)
(* will wake them before it lets go, or while bytes are left of a killed   *)
(* writer that gave up on a full buffer and woke nobody (pipe.c:86).       *)
NoMissedWakeup ==
  \A p \in Proc :
    /\ Asleep(p, "read") => (Empty /\ writeopen) \/ Holds("write", {"loop"}) \/ gaveup
    /\ Asleep(p, "write") => (Full /\ readopen) \/ Holds("read", {"loop", "copy"})

(* read returns 0 for a nonempty buffer only at the end of file: the write *)
(* end is closed and everything has been read, by whichever reader.        *)
EofMeansClosed ==
  \A p \in Proc :
    In(p, "read", "copy") /\ i[p] = 0 /\ n[p] > 0 /\ Empty => ~writeopen

(* The pipe is freed after its last use: nobody is in a call on it, waits  *)
(* for its lock or still holds an end.                                     *)
FreedUnused ==
  freed => \A p \in Proc : pc[p] \in {"user", "exit", "dead"} /\ holds[p] = {}

(* The pipe under every interleaving of calls, closes and kills (pipe.c):  *)
(* no sleeper is left behind, end of file is real, and the page is freed   *)
(* after its last use.                                                     *)
PipeSafe == TypeOK /\ NoMissedWakeup /\ FreedUnused /\ EofMeansClosed

Calling(p, o) == op[p] = o /\ pc[p] \in {"acquire", "loop", "copy"}

(* Something for a sleeper: the other end is closed, or a call made there. *)
News(p) ==
  IF op[p] = "read" THEN ~writeopen \/ \E q \in Proc : Calling(q, "write")
                    ELSE ~readopen \/ \E q \in Proc : Calling(q, "read")

(* Who sleeps is woken by the news, unless they are of a killed writer     *)
(* that gives up.                                                          *)
NewsWakes ==
  \A p \in Proc :
    pc[p] = "asleep" /\ News(p) ~> pc[p] # "asleep" \/ (op[p] = "read" /\ gaveup)

(* What a killed writer left behind is not forgotten: it is read, or the   *)
(* next write wakes the readers, unless that writer is killed as well.     *)
NextWriteWakes == \A q \in Writer : gaveup /\ Calling(q, "write") ~> ~gaveup \/ killed[q]

(* Nobody waits for ever once there is something for him: the other end is *)
(* closed, or a call made there (pipe.c:65, 68, 90, 95, 118).  The bytes   *)
(* of a killed writer (pipe.c:86) reach a sleeping reader with the next    *)
(* write or with the close of the last write end.                          *)
WaitersReturn == NewsWakes /\ NextWriteWakes

=============================================================================
