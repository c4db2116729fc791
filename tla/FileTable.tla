----------------------------- MODULE FileTable ------------------------------
(***************************************************************************)
(* The table of open files and the descriptors of processes (file.c,       *)
(* sysfile.c): filealloc, filedup and fileclose, and the calls that use    *)
(* them, with what happens when the table, the descriptors or the pipes    *)
(* run out.  ftable.lock covers the reference count of a file; fileclose   *)
(* drops the file first and its pipe end or inode after the unlock.  A     *)
(* descriptor belongs to its process, which is in one call at a time.      *)
(***************************************************************************)
EXTENDS Integers, Sequences, FiniteSets, FiniteSetsExt, Functions

CONSTANTS
  FProc,             \* process slots
  NFILE, NOFILE,     \* files, and descriptors of a process
  NPIPE              \* bound on the number of pipes (pages) at a time

FileNo == 1..NFILE
Fd == 0..NOFILE - 1
PipeNo == 1..NPIPE
End == {"read", "write"}

VARIABLES
  ofile,             \* of each process: the file of a descriptor, or 0
  fref, fobj,        \* ftable: references; what the file is for
  pipes, irefs,      \* the open ends of each pipe; references of files to inodes
  running,           \* processes in use
  hand, closing,     \* of each process: files it has just allocated, and files it is closing
  gone,              \* of each process: what fileclose has still to close
  exiting

initproc == CHOOSE p \in FProc : TRUE   \* it never exits
None == <<"none">>
AnInode == <<"inode">>
PipeEnd(k, e) == <<"pipe", k, e>>

Init ==
  /\ ofile = [p \in FProc |-> [d \in Fd |-> 0]]
  /\ fref = [f \in FileNo |-> 0]
  /\ fobj = [f \in FileNo |-> None]
  /\ pipes = [k \in PipeNo |-> {}]
  /\ irefs = 0
  /\ running = {initproc}
  /\ hand = [p \in FProc |-> <<>>]
  /\ closing = [p \in FProc |-> <<>>]
  /\ gone = [p \in FProc |-> None]
  /\ exiting = {}

(* Between calls; a process that exits is never again. *)
User(p) == p \in running \ exiting /\ hand[p] = <<>> /\ closing[p] = <<>> /\ gone[p] = None

FreeFiles == {f \in FileNo : fref[f] = 0}
filealloc == Min(FreeFiles)
FreeFds(p) == {d \in Fd : ofile[p][d] = 0}
fdalloc(p) == Min(FreeFds(p))

-----------------------------------------------------------------------------

(* fileclose: give up the reference; the last one clears the file.  What   *)
(* it was for is closed in a second step, without ftable.lock.             *)
fileclose(p) ==
  /\ closing[p] # <<>> /\ gone[p] = None
  /\ LET f == Head(closing[p]) IN
       /\ fref' = [fref EXCEPT ![f] = @ - 1]
       /\ IF fref[f] > 1
            THEN UNCHANGED <<fobj, gone>>
            ELSE gone' = [gone EXCEPT ![p] = fobj[f]] /\ fobj' = [fobj EXCEPT ![f] = None]
  /\ closing' = [closing EXCEPT ![p] = Tail(@)]
  /\ UNCHANGED <<ofile, pipes, irefs, running, hand, exiting>>

release(p) ==
  /\ gone[p] # None
  /\ IF gone[p][1] = "pipe"
       THEN pipes' = [pipes EXCEPT ![gone[p][2]] = @ \ {gone[p][3]}] /\ UNCHANGED irefs
       ELSE irefs' = irefs - 1 /\ UNCHANGED pipes
  /\ gone' = [gone EXCEPT ![p] = None]
  /\ UNCHANGED <<ofile, fref, fobj, running, hand, closing, exiting>>

(* sys_open, with the inode found and referenced.  filealloc or fdalloc    *)
(* may fail: the file is closed while it is not for anything yet, and the  *)
(* inode is put.                                                           *)
sys_open(p) ==
  /\ User(p) /\ FreeFiles # {}
  /\ fref' = [fref EXCEPT ![filealloc] = 1]
  /\ IF FreeFds(p) = {}
       THEN closing' = [closing EXCEPT ![p] = <<filealloc>>] /\ UNCHANGED <<ofile, fobj, irefs>>
       ELSE /\ ofile' = [ofile EXCEPT ![p][fdalloc(p)] = filealloc]
            /\ fobj' = [fobj EXCEPT ![filealloc] = AnInode]
            /\ irefs' = irefs + 1
            /\ UNCHANGED closing
  /\ UNCHANGED <<pipes, running, hand, gone, exiting>>

(* sys_dup: the descriptor first, then filedup *)
sys_dup(p, d) ==
  /\ User(p) /\ ofile[p][d] # 0 /\ FreeFds(p) # {}
  /\ ofile' = [ofile EXCEPT ![p][fdalloc(p)] = ofile[p][d]]
  /\ fref' = [fref EXCEPT ![ofile[p][d]] = @ + 1]
  /\ UNCHANGED <<fobj, pipes, irefs, running, hand, closing, gone, exiting>>

sys_close(p, d) ==
  /\ User(p) /\ ofile[p][d] # 0
  /\ ofile' = [ofile EXCEPT ![p][d] = 0]
  /\ closing' = [closing EXCEPT ![p] = <<ofile[p][d]>>]
  /\ UNCHANGED <<fref, fobj, pipes, irefs, running, hand, gone, exiting>>

(* pipealloc takes the two files one after the other, and then a page. *)
pipealloc_file(p) ==
  /\ User(p) \/ (Len(hand[p]) = 1 /\ closing[p] = <<>>)
  /\ IF FreeFiles = {}
       THEN /\ closing' = [closing EXCEPT ![p] = hand[p]]
            /\ hand' = [hand EXCEPT ![p] = <<>>]
            /\ UNCHANGED fref
       ELSE /\ hand' = [hand EXCEPT ![p] = Append(@, filealloc)]
            /\ fref' = [fref EXCEPT ![filealloc] = 1]
            /\ UNCHANGED closing
  /\ UNCHANGED <<ofile, fobj, pipes, irefs, running, gone, exiting>>

(* kalloc may find no page: both files are closed. *)
pipealloc_bad(p) ==
  /\ Len(hand[p]) = 2
  /\ closing' = [closing EXCEPT ![p] = hand[p]]
  /\ hand' = [hand EXCEPT ![p] = <<>>]
  /\ UNCHANGED <<ofile, fref, fobj, pipes, irefs, running, gone, exiting>>

(* Mutant: the first descriptor stays. *)
Undo_Keeps(p, fds) == [ofile EXCEPT ![p] = [d \in Fd |-> IF d \in fds THEN Head(hand[p]) ELSE @[d]]]

(* The rest of sys_pipe: two descriptors, or both files are closed, with   *)
(* the pipe, and the descriptor that was there is taken back.              *)
Undo(p, fds) == ofile

sys_pipe(p) ==
  /\ Len(hand[p]) = 2
  /\ LET k == Min({n \in PipeNo : pipes[n] = {}})
         rf == hand[p][1]
         wf == hand[p][2]
         d0 == fdalloc(p)
         d1 == Min(FreeFds(p) \ {d0})
     IN
       /\ \E n \in PipeNo : pipes[n] = {}
       /\ pipes' = [pipes EXCEPT ![k] = End]
       /\ fobj' = [fobj EXCEPT ![rf] = PipeEnd(k, "read"), ![wf] = PipeEnd(k, "write")]
       /\ IF Cardinality(FreeFds(p)) >= 2
            THEN ofile' = [ofile EXCEPT ![p][d0] = rf, ![p][d1] = wf] /\ UNCHANGED closing
            ELSE ofile' = Undo(p, FreeFds(p)) /\ closing' = [closing EXCEPT ![p] = hand[p]]
  /\ hand' = [hand EXCEPT ![p] = <<>>]
  /\ UNCHANGED <<fref, irefs, running, gone, exiting>>

(* The loop of fork over the descriptors: filedup, once for each *)
Copied(p, f) == Cardinality({d \in Fd : ofile[p][d] = f})

fork(p, q) ==
  /\ User(p) /\ q \notin running
  /\ ofile' = [ofile EXCEPT ![q] = ofile[p]]
  /\ fref' = [f \in FileNo |-> fref[f] + Copied(p, f)]
  /\ running' = running \cup {q}
  /\ UNCHANGED <<fobj, pipes, irefs, hand, closing, gone, exiting>>

(* exit closes the descriptors one by one. *)
enter_exit(p) ==
  /\ User(p) /\ p # initproc
  /\ exiting' = exiting \cup {p}
  /\ UNCHANGED <<ofile, fref, fobj, pipes, irefs, running, hand, closing, gone>>

exit(p) ==
  /\ p \in exiting /\ closing[p] = <<>> /\ gone[p] = None
  /\ LET open == Fd \ FreeFds(p) IN
       IF open # {}
         THEN /\ closing' = [closing EXCEPT ![p] = <<ofile[p][Min(open)]>>]
              /\ ofile' = [ofile EXCEPT ![p][Min(open)] = 0]
              /\ UNCHANGED <<running, exiting>>
         ELSE /\ running' = running \ {p}
              /\ exiting' = exiting \ {p}
              /\ UNCHANGED <<ofile, closing>>
  /\ UNCHANGED <<fref, fobj, pipes, irefs, hand, gone>>

Next ==
  \E p \in FProc :
    \/ fileclose(p) \/ release(p)
    \/ sys_open(p) \/ pipealloc_file(p) \/ pipealloc_bad(p) \/ sys_pipe(p)
    \/ \E d \in Fd : sys_dup(p, d) \/ sys_close(p, d)
    \/ \E q \in FProc : fork(p, q)
    \/ enter_exit(p) \/ exit(p)

-----------------------------------------------------------------------------
(* Properties *)

Times(s, f) == Cardinality({n \in DOMAIN s : s[n] = f})

(* A file has as many references as descriptors name it, besides those a   *)
(* call is about to hand out or to give back, on every path and failure of *)
(* every call: no file is lost, and none is closed while in use.  A file   *)
(* without references is for nothing.                                      *)
FilesExact ==
  \A f \in FileNo :
    /\ fref[f] = SumFunction([p \in FProc |-> Copied(p, f) + Times(hand[p], f) + Times(closing[p], f)])
    /\ fref[f] = 0 => fobj[f] = None

(* The end of a pipe is open exactly if one file is for it, or one process *)
(* is about to close it, and the inodes have one reference from each file  *)
(* that is for an inode: each end and inode is released once, after its    *)
(* last use, whoever comes last.                                           *)
ObjectsExact ==
  LET Holders(x) == Cardinality({f \in FileNo : fobj[f] = x}) + Cardinality({p \in FProc : gone[p] = x})
  IN /\ irefs = Holders(AnInode)
     /\ \A k \in PipeNo, e \in End : Holders(PipeEnd(k, e)) = (IF e \in pipes[k] THEN 1 ELSE 0)

(* Both: no descriptor, file, end of a pipe or inode is lost or used twice *)
(* on any path of open, dup, pipe, fork, close and exit.                   *)
TableExact == FilesExact /\ ObjectsExact

=============================================================================
