------------------------------- MODULE Lines --------------------------------
(***************************************************************************)
(* What a terminal promises: characters are typed into a line that can     *)
(* still be edited; the line is given to the readers when it is finished,  *)
(* or when there is no more room; readers take characters from the front,  *)
(* in the order they were typed, each one once.                            *)
(***************************************************************************)
EXTENDS Integers, Sequences, SequencesExt

CONSTANTS Char, Final, Room
VARIABLES given, typed

Init == given = <<>> /\ typed = <<>>

Type(c) ==
  LET line == Append(typed, c) IN
  /\ Len(given) + Len(typed) < Room
  /\ IF c \in Final \/ Len(given) + Len(line) = Room
     THEN given' = given \o line /\ typed' = <<>>
     ELSE typed' = line /\ UNCHANGED given

Erase == typed # <<>> /\ typed' = Front(typed) /\ UNCHANGED given
EraseLine == typed' = <<>> /\ UNCHANGED given

Take(n) == n <= Len(given) /\ given' = SubSeq(given, n + 1, Len(given)) /\ UNCHANGED typed

Next ==
  \/ \E c \in Char : Type(c)
  \/ Erase \/ EraseLine
  \/ \E n \in 1..Room : Take(n)

Spec == Init /\ [][Next]_<<given, typed>>
=============================================================================
