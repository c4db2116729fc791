---------------------------- MODULE BlockStore ----------------------------
(***************************************************************************)
(* What the buffer cache promises: a memory of disk blocks, each with a    *)
(* lock.  A process asks for a block, is granted it when nobody else has   *)
(* it, changes only blocks it has, and gives them back.  Nothing is said   *)
(* of the contents of blocks that the disk cannot read.                    *)
(***************************************************************************)
CONSTANTS
  Proc, Block, Value, NoProc, NoBlock,
  Good      \* the blocks that the disk can read

VARIABLES
  mem,      \* the contents of the good blocks
  holder,   \* the process that has the block, or NoProc
  want      \* the block a process has asked for, or NoBlock

vars == <<mem, holder, want>>

Init ==
  /\ mem \in [Good -> Value]
  /\ holder = [k \in Block |-> NoProc]
  /\ want = [p \in Proc |-> NoBlock]

Request(p, k) ==
  /\ want[p] = NoBlock
  /\ want' = [want EXCEPT ![p] = k]
  /\ UNCHANGED <<mem, holder>>

Grant(p) ==
  /\ want[p] # NoBlock
  /\ holder[want[p]] = NoProc
  /\ holder' = [holder EXCEPT ![want[p]] = p]
  /\ want' = [want EXCEPT ![p] = NoBlock]
  /\ UNCHANGED mem

Write(p, k, v) ==
  /\ holder[k] = p
  /\ mem' = [mem EXCEPT ![k] = v]
  /\ UNCHANGED <<holder, want>>

Release(p, k) ==
  /\ holder[k] = p
  /\ holder' = [holder EXCEPT ![k] = NoProc]
  /\ UNCHANGED <<mem, want>>

Next ==
  \E p \in Proc :
    \/ Grant(p)
    \/ \E k \in Block : Request(p, k) \/ Release(p, k)
    \/ \E k \in Good, v \in Value : Write(p, k, v)

Spec == Init /\ [][Next]_vars

=============================================================================
