------------------------------- MODULE MCProc ------------------------------
(***************************************************************************)
(* Instance of Proc for TLC.                                               *)
(***************************************************************************)
EXTENDS Proc

(* The pid that kill is given: one that some process is given later. *)
KillFew == {3}

=============================================================================
