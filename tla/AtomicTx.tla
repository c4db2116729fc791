------------------------------ MODULE AtomicTx ------------------------------
(***************************************************************************)
(* What the logging layer promises its callers: system calls update the    *)
(* blocks in memory, and what a crash leaves behind is always the memory   *)
(* of some moment at which no system call was half done.  There is no log, *)
(* no header and no cache here; Log.tla is shown to implement this.        *)
(***************************************************************************)

CONSTANTS
  Proc,     \* processes that make file system calls
  Block,    \* home blocks of the file system
  Val,      \* contents of a block
  InitVal   \* content of every block of the initial image

VARIABLES
  mem,      \* what the running kernel sees in each block
  durable,  \* what a restart would find in each block
  active,   \* processes between begin_op and end_op
  up        \* the kernel has finished recovery

txVars == <<mem, durable, active, up>>

Init ==
  /\ mem = [b \in Block |-> InitVal]
  /\ durable = [b \in Block |-> InitVal]
  /\ active = {}
  /\ up = FALSE

(* A system call starts, changes blocks, and ends. *)
Begin(p) ==
  /\ up /\ p \notin active
  /\ active' = active \cup {p}
  /\ UNCHANGED <<mem, durable, up>>

Write(p, b, v) ==
  /\ up /\ p \in active
  /\ mem' = [mem EXCEPT ![b] = v]
  /\ UNCHANGED <<durable, active, up>>

End(p) ==
  /\ up /\ p \in active
  /\ active' = active \ {p}
  /\ UNCHANGED <<mem, durable, up>>

(* Everything written so far becomes durable at once, and only when no     *)
(* system call is in progress.                                             *)
Commit ==
  /\ up /\ active = {}
  /\ durable' = mem
  /\ UNCHANGED <<mem, active, up>>

(* A crash forgets everything that is not durable. *)
Crash ==
  /\ mem' = durable
  /\ active' = {}
  /\ up' = FALSE
  /\ UNCHANGED durable

Recovered ==
  /\ ~up
  /\ up' = TRUE
  /\ UNCHANGED <<mem, durable, active>>

Next ==
  \/ \E p \in Proc : Begin(p) \/ End(p)
  \/ \E p \in Proc, b \in Block, v \in Val : Write(p, b, v)
  \/ Commit
  \/ Crash
  \/ Recovered

Spec == Init /\ [][Next]_txVars

=============================================================================
