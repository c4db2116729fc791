------------------------------- MODULE MCPipe -------------------------------
(***************************************************************************)
(* Instance of Pipe for TLC.  pipe.c does not look at the bytes: they are  *)
(* numbered as they are written, so that no two under way are alike.  A    *)
(* process leaves user code for exit only when it is killed; one that is   *)
(* not closes its ends instead, which is all that exit does to the pipe.   *)
(***************************************************************************)
EXTENDS Pipe

MCInit == Init /\ got = 0

MCNext ==
  /\ Next
  /\ nwrite' # nwrite => data'[nwrite % PIPESIZE] = nwrite
  /\ \A p \in Proc : pc[p] = "user" /\ pc'[p] = "exit" => killed[p]

MCSpec == MCInit /\ [][MCNext]_vars /\ Fairness

=============================================================================
