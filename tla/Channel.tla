------------------------------ MODULE Channel ------------------------------
(***************************************************************************)
(* What a pipe promises: a bounded queue of bytes between its write end    *)
(* and its read end.  Bytes come out once, in the order they went in; none *)
(* goes in after the write end is closed, none comes out after the read    *)
(* end is closed, and an end once closed stays closed.                     *)
(***************************************************************************)
EXTENDS Naturals, Sequences

CONSTANTS Byte, Size

VARIABLES
  q,        \* the bytes under way
  got,      \* the byte that came out last
  wopen,    \* the write end is open
  ropen     \* the read end is open

vars == <<q, got, wopen, ropen>>

Init == q = <<>> /\ got \in Byte /\ wopen = TRUE /\ ropen = TRUE

Put(b) ==
  /\ wopen /\ Len(q) < Size
  /\ q' = Append(q, b)
  /\ UNCHANGED <<got, wopen, ropen>>

Get ==
  /\ ropen /\ q # <<>>
  /\ got' = Head(q)
  /\ q' = Tail(q)
  /\ UNCHANGED <<wopen, ropen>>

CloseWrite == wopen /\ wopen' = FALSE /\ UNCHANGED <<q, got, ropen>>
CloseRead == ropen /\ ropen' = FALSE /\ UNCHANGED <<q, got, wopen>>

Next == (\E b \in Byte : Put(b)) \/ Get \/ CloseWrite \/ CloseRead

Spec == Init /\ [][Next]_vars

=============================================================================
