------------------------------ MODULE ByteFile ------------------------------
(***************************************************************************)
(* What read and write on open files promise: a file is a sequence of      *)
(* bytes, and an open file an offset into it.  A write puts its bytes at   *)
(* the offset, over what is there or past the end; a read returns what is  *)
(* there, up to the end; both move the offset.  Nothing else changes, and  *)
(* the contents of a file that is removed are gone.                        *)
(***************************************************************************)
EXTENDS Naturals, Sequences

CONSTANTS
  File, Open, FileOf,   \* files, open files, and the file an open file is for
  Data, Limit           \* what may be written at once; the longest file

VARIABLES content, off

vars == <<content, off>>

Least(a, b) == IF a < b THEN a ELSE b
Overlay(s, k, t) == SubSeq(s, 1, k) \o t \o SubSeq(s, k + Len(t) + 1, Len(s))

Init ==
  /\ content = [f \in File |-> <<>>]
  /\ off = [o \in Open |-> 0]

Write(o, t) ==
  /\ off[o] + Len(t) <= Limit
  /\ content' = [content EXCEPT ![FileOf[o]] = Overlay(@, off[o], t)]
  /\ off' = [off EXCEPT ![o] = @ + Len(t)]

Read(o, n) ==
  /\ off' = [off EXCEPT ![o] = Least(@ + n, Len(content[FileOf[o]]))]
  /\ UNCHANGED content

Remove(f) ==
  /\ content' = [content EXCEPT ![f] = <<>>]
  /\ off' = [o \in Open |-> IF FileOf[o] = f THEN 0 ELSE off[o]]

Next ==
  \/ \E o \in Open : \E n \in 0..Limit : Read(o, n)
  \/ \E o \in Open : \E t \in Data : Write(o, t)
  \/ \E f \in File : Remove(f)

Spec == Init /\ [][Next]_vars

=============================================================================
