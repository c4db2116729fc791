-------------------------------- MODULE Grep --------------------------------
(***************************************************************************)
(* grep (grep.c): the matcher for patterns with ^ . * $, and the loop that *)
(* finds the lines in what read returns, which may be less than a line or  *)
(* more.  The newline is "/", and it is in no line and in no pattern.      *)
(***************************************************************************)
EXTENDS Integers, Sequences, SequencesExt, FiniteSetsExt

CONSTANTS
  PatternChar, MaxPattern,
  TextChar, MaxInput,
  BUFSIZE        \* sizeof(buf)

VARIABLES
  pattern, input,
  off,           \* the bytes of the input that are read
  gbuf,          \* buf[0..m-1]
  output,
  split          \* history: a line was thrown away before its end was read

gvars == <<pattern, input, off, gbuf, output, split>>

-----------------------------------------------------------------------------
(* The matcher; the end of a string is the end of the sequence. *)

Is(s, k, c) == k <= Len(s) /\ s[k] = c

RECURSIVE matchhere(_, _), matchstar(_, _, _)

matchhere(re, text) ==
  IF re = <<>> THEN TRUE
  ELSE IF Is(re, 2, "*") THEN matchstar(re[1], SubSeq(re, 3, Len(re)), text)
  ELSE IF re = <<"$">> THEN text = <<>>
  ELSE text # <<>> /\ re[1] \in {".", text[1]} /\ matchhere(Tail(re), Tail(text))

matchstar(c, re, text) ==
  \/ matchhere(re, text)
  \/ text # <<>> /\ c \in {".", text[1]} /\ matchstar(c, re, Tail(text))

(* Mutant: the empty end of the text is not tried. *)
match_NotEmpty(re, text) ==
  IF Is(re, 1, "^") THEN matchhere(Tail(re), text)
  ELSE \E k \in 1..Len(text) : matchhere(re, SubSeq(text, k, Len(text)))
match(re, text) ==
  IF Is(re, 1, "^") THEN matchhere(Tail(re), text)
  ELSE \E k \in 1..Len(text) + 1 : matchhere(re, SubSeq(text, k, Len(text)))

-----------------------------------------------------------------------------
(* The loop *)

Init ==
  /\ pattern \in SeqOf(PatternChar, MaxPattern)
  /\ input \in SeqOf(TextChar, MaxInput)
  /\ off = 0 /\ gbuf = <<>> /\ output = <<>> /\ split = FALSE

Newlines(s) == {k \in 1..Len(s) : s[k] = "/"}
(* The lines of s that end in it, in order, and what is left of it *)
LinesOf(s) ==
  LET ends == SetToSortSeq(Newlines(s), <)
  IN [k \in 1..Len(ends) |-> SubSeq(s, IF k = 1 THEN 1 ELSE ends[k - 1] + 1, ends[k] - 1)]
Kept(s) == IF Newlines(s) = {} THEN <<>> ELSE SubSeq(s, Max(Newlines(s)) + 1, Len(s))

(* A read of n bytes, and what is done with them *)
grep(n) ==
  LET s == gbuf \o SubSeq(input, off + 1, off + n)
      matching(l) == match(pattern, l)
  IN
  /\ n <= BUFSIZE - Len(gbuf) - 1 /\ off + n <= Len(input)
  /\ off' = off + n
  /\ gbuf' = Kept(s)
  /\ output' = output \o SelectSeq(LinesOf(s), matching)
  /\ split' = (split \/ Newlines(s) = {})
  /\ UNCHANGED <<pattern, input>>

Next ==
  \/ \E n \in 1..BUFSIZE : grep(n)
  \/ off = Len(input) /\ UNCHANGED gvars

-----------------------------------------------------------------------------
(* Properties *)

(* What a pattern means: its items take consecutive parts of the text, a   *)
(* starred one any number of the characters it stands for.                 *)
RECURSIVE Items(_)
Items(re) ==
  IF re = <<>> THEN <<>>
  ELSE IF Is(re, 2, "*") THEN <<[c |-> re[1], star |-> TRUE]>> \o Items(SubSeq(re, 3, Len(re)))
  ELSE <<[c |-> re[1], star |-> FALSE]>> \o Items(Tail(re))

Means(re, text) ==
  LET atstart == Is(re, 1, "^")
      all == Items(IF atstart THEN Tail(re) ELSE re)
      atend == all # <<>> /\ Last(all) = [c |-> "$", star |-> FALSE]
      items == IF atend THEN Front(all) ELSE all
      n == Len(items)
  IN \E cut \in [0..n -> 0..Len(text)] :
       /\ atstart => cut[0] = 0
       /\ atend => cut[n] = Len(text)
       /\ \A k \in 1..n :
            /\ IF items[k].star THEN cut[k - 1] <= cut[k] ELSE cut[k] = cut[k - 1] + 1
            /\ \A j \in cut[k - 1] + 1..cut[k] : items[k].c \in {".", text[j]}

(* grep prints the lines that its pattern means, in order and each once,   *)
(* however the reads divide the input, as long as none of them leaves the  *)
(* buffer without the end of a line: then what it holds is thrown away.    *)
(* (So it is with a line longer than the buffer, but also when a pipe or   *)
(* the console returns the beginning of a line.)                           *)
PrintsMatching ==
  LET meant(l) == Means(pattern, l) IN
  ~split => output = SelectSeq(LinesOf(SubSeq(input, 1, off)), meant)
=============================================================================
