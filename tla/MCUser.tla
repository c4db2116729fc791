------------------------------- MODULE MCUser -------------------------------
(***************************************************************************)
(* User programs: the shell, the allocator and grep, and mkfs, which runs  *)
(* on the host.  They share nothing.                                       *)
(* A behaviour is one of one part, while the others rest in an initial     *)
(* state of theirs.                                                        *)
(***************************************************************************)
EXTENDS Shell, Mkfs

CONSTANTS HEADER, CHUNK, HEAPEND, Bytes, MaxBlocks,
          PatternChar, MaxPattern, TextChar, MaxInput, BUFSIZE,
          Part
VARIABLES heap, brk, blocks, core, pattern, input, off, gbuf, output, split, part

M == INSTANCE Malloc
G == INSTANCE Grep
mvars == <<heap, brk, blocks, core>>
grepvars == <<pattern, input, off, gbuf, output, split>>

\* Pipelines of two, three and four commands, lists and blocks in pipelines,
\* and commands in the background.
LinesToRun ==
  {<<"a", "|", "a", "|", "a">>, <<"a", "|", "a", "|", "a", "|", "a">>,
   <<"(", "a", ";", "a", ")", "|", "a">>, <<"a", "&", ";", "a", "|", "a">>,
   <<"a", "|", "(", "a", ";", "a", ")", ">", "a", "&">>}

MCInit ==
  /\ part \in Part
  /\ IF part = "shell" THEN TRUE ELSE line = <<>>
  /\ IF part = "grep" THEN TRUE ELSE pattern = <<>> /\ input = <<>>
  /\ Init /\ M!Init /\ G!Init /\ MkfsInit
MCNext ==
  /\ UNCHANGED part
  /\ \/ part = "shell" /\ Next /\ UNCHANGED <<mvars, grepvars, mkvars>>
     \/ part = "malloc" /\ M!Next /\ UNCHANGED <<svars, grepvars, mkvars>>
     \/ part = "grep" /\ G!Next /\ UNCHANGED <<svars, mvars, mkvars>>
     \/ part = "mkfs" /\ MkfsNext /\ UNCHANGED <<svars, mvars, grepvars>>
MCSpec ==
  /\ MCInit /\ [][MCNext]_<<svars, mvars, grepvars, mkvars, part>>
  /\ WF_svars(part = "shell" /\ Next)

HeapDivided == M!HeapDivided
PrintsMatching == G!PrintsMatching
=============================================================================
