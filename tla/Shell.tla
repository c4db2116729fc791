------------------------------- MODULE Shell --------------------------------
(***************************************************************************)
(* The shell (sh.c): its parser, and the processes by which runcmd runs a  *)
(* line.  A line is a sequence of tokens, "a" for a word, as gettoken      *)
(* delivers them; ">" also stands for ">>", which differs in nothing.      *)
(* fork, wait, pipe, dup, close, exec and the kernel's pipes are as the    *)
(* shell needs them; what a program does is taken from two questions: does *)
(* it read to the end of its input, and does it write more than a pipe     *)
(* holds?                                                                  *)
(***************************************************************************)
EXTENDS Integers, Sequences, FiniteSets, SequencesExt, FiniteSetsExt

CONSTANTS
  Token,
  MaxTokens,     \* the length of the lines that are parsed
  RunLines,      \* the lines that are run
  MAXARGS,
  NPROC          \* processes the kernel has room for

VARIABLES
  line, tree,    \* what was typed, and what parsecmd makes of it
  sproc, npipes, forkfailed

svars == <<line, tree, sproc, npipes, forkfailed>>

-----------------------------------------------------------------------------
(* Commands *)

execcmd(argc) == [type |-> "EXEC", argc |-> argc]
redircmd(c, fd) == [type |-> "REDIR", cmd |-> c, fd |-> fd]
pipecmd(l, r) == [type |-> "PIPE", left |-> l, right |-> r]
listcmd(l, r) == [type |-> "LIST", left |-> l, right |-> r]
backcmd(c) == [type |-> "BACK", cmd |-> c]
Panic == [type |-> "panic"]

FdOf(tok) == IF tok = "<" THEN 0 ELSE 1
(* Each redirection goes around what came before it. *)
Wrapped(c, fds) == FoldLeft(redircmd, c, fds)

-----------------------------------------------------------------------------
(* The parser.  A function returns what it parsed and the rest of the      *)
(* line; panic ends the process.                                           *)

peek(s, toks) == s # <<>> /\ Head(s) \in toks
Parsed(c, s) == [cmd |-> c, rest |-> s]
Failed == Parsed(Panic, <<>>)
Then(p, op(_, _), q) == IF Panic \in {p.cmd, q.cmd} THEN Failed ELSE Parsed(op(p.cmd, q.cmd), q.rest)

(* The descriptors of the redirections at the front of s *)
RECURSIVE parseredirs(_, _)
parseredirs(fds, s) ==
  IF ~peek(s, {"<", ">"}) THEN [ok |-> TRUE, fds |-> fds, rest |-> s]
  ELSE IF ~peek(Tail(s), {"a"}) THEN [ok |-> FALSE, fds |-> fds, rest |-> s]
  ELSE parseredirs(Append(fds, FdOf(Head(s))), Tail(Tail(s)))

(* The loop of parseexec, with argc words read *)
RECURSIVE parseargs(_, _)
parseargs(argc, p) ==
  IF ~p.ok THEN Failed
  ELSE IF p.rest = <<>> \/ peek(p.rest, {"|", ")", "&", ";"})
    THEN Parsed(Wrapped(execcmd(argc), p.fds), p.rest)
  ELSE IF Head(p.rest) # "a" \/ argc + 1 >= MAXARGS THEN Failed
  ELSE parseargs(argc + 1, parseredirs(p.fds, Tail(p.rest)))

RECURSIVE parseline(_), parsepipe(_), parseblock(_), parsebacks(_)

parseblock(s) ==
  LET p == parseline(Tail(s))
      q == parseredirs(<<>>, Tail(p.rest))
  IN IF p.cmd = Panic \/ ~peek(p.rest, {")"}) THEN Failed
     ELSE IF ~q.ok THEN Failed
     ELSE Parsed(Wrapped(p.cmd, q.fds), q.rest)

parseexec(s) == IF peek(s, {"("}) THEN parseblock(s) ELSE parseargs(0, parseredirs(<<>>, s))

parsepipe(s) ==
  LET p == parseexec(s) IN
  IF peek(p.rest, {"|"}) THEN Then(p, pipecmd, parsepipe(Tail(p.rest))) ELSE p

parsebacks(p) ==
  IF peek(p.rest, {"&"}) THEN parsebacks(Parsed(backcmd(p.cmd), Tail(p.rest))) ELSE p

(* Mutant: what follows a ";" is only a pipeline. *)
Rest_List(p) == Then(p, listcmd, parsepipe(Tail(p.rest)))
Rest(p) == Then(p, listcmd, parseline(Tail(p.rest)))
parseline(s) ==
  LET p == parsebacks(parsepipe(s)) IN IF peek(p.rest, {";"}) THEN Rest(p) ELSE p

parsecmd(s) ==
  LET p == parseline(s) IN IF p.rest # <<>> THEN Panic ELSE p.cmd

-----------------------------------------------------------------------------
(* Processes.  A descriptor is a kind with a number, that of a pipe.       *)

Pid == 1..NPROC
FD == 0..6
Closed == <<"none", 0>>
Console == [f \in FD |-> IF f <= 2 THEN <<"tty", 0>> ELSE Closed]

NoProc ==
  [at |-> "unused", cmd |-> Panic, fd |-> [f \in FD |-> Closed], p |-> <<0, 0>>,
   parent |-> 0, back |-> FALSE, reads |-> FALSE, writes |-> FALSE]

Init ==
  /\ line \in SeqOf(Token, MaxTokens) \cup RunLines
  /\ tree = parsecmd(line)
  /\ sproc = [i \in Pid |-> IF i = 1 THEN [NoProc EXCEPT !.at = "main", !.fd = Console] ELSE NoProc]
  /\ npipes = 0
  /\ forkfailed = FALSE

Goes(i, at) == [sproc EXCEPT ![i].at = at]

(* exit closes the descriptors; orphans that have ended are reaped by init.*)
Exited(i) ==
  [j \in Pid |->
     IF j = i
     THEN IF sproc[j].parent = 0 THEN NoProc
          ELSE [NoProc EXCEPT !.at = "zombie", !.parent = sproc[j].parent, !.back = sproc[j].back]
     ELSE IF sproc[j].parent # i THEN sproc[j]
     ELSE IF sproc[j].at = "zombie" THEN NoProc
     ELSE [sproc[j] EXCEPT !.parent = 0]]

(* fork1: the parent goes on at next; the child is a copy of it at other,  *)
(* with the command c.  panic ends the process when there is no room.      *)
fork1(i, next, other, c, back) ==
  LET free == {j \in Pid : sproc[j].at = "unused"}
      child == [sproc[i] EXCEPT !.at = other, !.cmd = c, !.parent = i, !.back = @ \/ back]
  IN
  /\ UNCHANGED <<line, tree, npipes>>
  /\ IF free = {}
     THEN sproc' = Exited(i) /\ forkfailed' = TRUE
     ELSE sproc' = [Goes(i, next) EXCEPT ![Min(free)] = child] /\ UNCHANGED forkfailed

Kids(i) == {j \in Pid : sproc[j].parent = i}
wait(i, next) ==
  /\ UNCHANGED <<line, tree, npipes, forkfailed>>
  /\ \/ \E j \in Kids(i) : sproc[j].at = "zombie" /\ sproc' = [Goes(i, next) EXCEPT ![j] = NoProc]
     \/ Kids(i) = {} /\ sproc' = Goes(i, next)

exits(i) == sproc' = Exited(i) /\ UNCHANGED <<line, tree, npipes, forkfailed>>

-----------------------------------------------------------------------------
(* main: a child parses and runs the line, and the shell waits for it. *)
main(i) ==
  \/ sproc[i].at = "main" /\ fork1(i, "main_wait", "parse", Panic, FALSE)
  \/ sproc[i].at = "main_wait" /\ wait(i, "prompt")

parse(i) ==
  /\ sproc[i].at = "parse"
  /\ IF tree = Panic THEN exits(i)
     ELSE /\ sproc' = [sproc EXCEPT ![i].at = "run", ![i].cmd = tree]
          /\ UNCHANGED <<line, tree, npipes, forkfailed>>

(* runcmd, by the type of the command *)
Runs(i, type) == sproc[i].at = "run" /\ sproc[i].cmd.type = type

run_exec(i) ==
  /\ Runs(i, "EXEC")
  /\ \/ exits(i)       \* no program, or exec failed
     \/ /\ sproc[i].cmd.argc > 0
        /\ \E reads, writes \in BOOLEAN :
             sproc' = [sproc EXCEPT ![i].at = "program", ![i].reads = reads, ![i].writes = writes]
        /\ UNCHANGED <<line, tree, npipes, forkfailed>>

(* dup, open and pipe take the lowest descriptors that are closed. *)
Lowest(fd) == Min({f \in FD : fd[f] = Closed})

run_redir(i) ==
  LET fd == [sproc[i].fd EXCEPT ![sproc[i].cmd.fd] = Closed] IN
  /\ Runs(i, "REDIR")
  /\ \/ exits(i)       \* open failed
     \/ /\ sproc' = [sproc EXCEPT ![i].fd = [fd EXCEPT ![Lowest(fd)] = <<"file", 0>>],
                                  ![i].cmd = @.cmd]
        /\ UNCHANGED <<line, tree, npipes, forkfailed>>

run_list(i) ==
  \/ Runs(i, "LIST") /\ fork1(i, "list_wait", "run", sproc[i].cmd.left, FALSE)
  \/ sproc[i].at = "list_wait" /\ wait(i, "list_right")
  \/ /\ sproc[i].at = "list_right"
     /\ sproc' = [sproc EXCEPT ![i].at = "run", ![i].cmd = @.right]
     /\ UNCHANGED <<line, tree, npipes, forkfailed>>

run_back(i) ==
  \/ Runs(i, "BACK") /\ fork1(i, "end", "run", sproc[i].cmd.cmd, TRUE)
  \/ sproc[i].at = "end" /\ exits(i)

(* Mutant: the writing end stays open. *)
Closing_One(fd, p) == [fd EXCEPT ![p[1]] = Closed]

(* close(p[0]); close(p[1]) *)
Closing(fd, p) == [fd EXCEPT ![p[1]] = Closed, ![p[2]] = Closed]

(* A child of PIPE: one end becomes its descriptor f, and both are closed. *)
Plumbed(s, f, end) ==
  LET fd == [s.fd EXCEPT ![f] = Closed]
  IN Closing([fd EXCEPT ![Lowest(fd)] = fd[end]], s.p)

(* Mutant: the shell waits for one of the two. *)
Waits_Once == "pipe_wait1"
Waits == "pipe_wait2"

run_pipe(i) ==
  LET fd == sproc[i].fd
      p0 == Lowest(fd)
      p1 == Lowest([fd EXCEPT ![p0] = <<"r", npipes>>])
  IN
  \/ Runs(i, "PIPE") /\ exits(i)       \* pipe failed
  \/ /\ Runs(i, "PIPE")
     /\ sproc' = [sproc EXCEPT ![i].fd = [fd EXCEPT ![p0] = <<"r", npipes>>, ![p1] = <<"w", npipes>>],
                               ![i].p = <<p0, p1>>, ![i].at = "pipe_left"]
     /\ npipes' = npipes + 1
     /\ UNCHANGED <<line, tree, forkfailed>>
  \/ sproc[i].at = "pipe_left" /\ fork1(i, "pipe_right", "left", sproc[i].cmd.left, FALSE)
  \/ sproc[i].at = "pipe_right" /\ fork1(i, "pipe_close", "right", sproc[i].cmd.right, FALSE)
  \/ /\ sproc[i].at = "pipe_close"
     /\ sproc' = [sproc EXCEPT ![i].fd = Closing(@, sproc[i].p),
                               ![i].at = Waits]
     /\ UNCHANGED <<line, tree, npipes, forkfailed>>
  \/ sproc[i].at = "pipe_wait2" /\ wait(i, "pipe_wait1")
  \/ sproc[i].at = "pipe_wait1" /\ wait(i, "end")

plumb(i) ==
  /\ sproc[i].at \in {"left", "right"}
  /\ sproc' = [sproc EXCEPT ![i].at = "run",
                            ![i].fd = IF sproc[i].at = "left" THEN Plumbed(sproc[i], 1, sproc[i].p[2])
                                      ELSE Plumbed(sproc[i], 0, sproc[i].p[1])]
  /\ UNCHANGED <<line, tree, npipes, forkfailed>>

-----------------------------------------------------------------------------
(* Programs and pipes: a read waits as long as anyone has the write end    *)
(* open, a write to a full pipe as long as no one reads but someone could. *)

Holds(i, end) == \E f \in FD : sproc[i].fd[f] = end
InputEnds(i) ==
  LET in == sproc[i].fd[0] IN
  sproc[i].reads /\ in[1] = "r" => \A j \in Pid : ~Holds(j, <<"w", in[2]>>)
OutputGoes(i) ==
  LET out == sproc[i].fd[1]
      end == <<"r", out[2]>>
  IN sproc[i].writes /\ out[1] = "w" =>
       \/ \A j \in Pid : ~Holds(j, end)
       \/ \E j \in Pid : sproc[j].at = "program" /\ sproc[j].reads /\ sproc[j].fd[0] = end

program_ends(i) ==
  sproc[i].at = "program" /\ InputEnds(i) /\ OutputGoes(i) /\ exits(i)

(* The shell's next prompt, or its end *)
Quiet == \A i \in Pid : IF i = 1 THEN sproc[i].at \in {"prompt", "unused"} ELSE sproc[i].at = "unused"

Step(i) ==
  \/ main(i) \/ parse(i) \/ plumb(i) \/ program_ends(i)
  \/ run_exec(i) \/ run_redir(i) \/ run_list(i) \/ run_back(i) \/ run_pipe(i)

Next ==
  \/ line \in RunLines /\ \E i \in Pid : Step(i)
  \/ UNCHANGED svars     \* the line is only parsed, or has ended, or all wait

-----------------------------------------------------------------------------
(* Properties *)

(* The grammar: the trees of a line by all the ways to take it apart *)
Before(s, i) == SubSeq(s, 1, i - 1)
After(s, i) == SubSeq(s, i + 1, Len(s))
Redirections(s) == {i \in 1..Len(s) : s[i] \in {"<", ">"}}
FdsOf(s) == LET R == SetToSortSeq(Redirections(s), <) IN [k \in 1..Len(R) |-> FdOf(s[R[k]])]
WellRedirected(s) ==
  /\ \A i \in 1..Len(s) : s[i] \in {"a", "<", ">"}
  /\ \A i \in Redirections(s) : i < Len(s) /\ s[i + 1] = "a"
Words(s) == Cardinality({i \in 1..Len(s) : s[i] = "a"}) - Cardinality(Redirections(s))

RECURSIVE LineTrees(_), PipeTrees(_), BackTrees(_)
ExecTrees(s) ==
  (IF WellRedirected(s) /\ Words(s) < MAXARGS THEN {Wrapped(execcmd(Words(s)), FdsOf(s))} ELSE {})
  \cup UNION {{Wrapped(t, FdsOf(After(s, i))) : t \in LineTrees(SubSeq(s, 2, i - 1))} :
              i \in {k \in 2..Len(s) : /\ s[1] = "(" /\ s[k] = ")"
                                       /\ WellRedirected(After(s, k)) /\ Words(After(s, k)) = 0}}
PipeTrees(s) ==
  ExecTrees(s) \cup UNION {{pipecmd(l, r) : l \in ExecTrees(Before(s, i)), r \in PipeTrees(After(s, i))} :
                           i \in {k \in 1..Len(s) : s[k] = "|"}}
BackTrees(s) ==
  PipeTrees(s) \cup (IF s # <<>> /\ Last(s) = "&" THEN {backcmd(t) : t \in BackTrees(Front(s))} ELSE {})
LineTrees(s) ==
  BackTrees(s) \cup UNION {{listcmd(l, r) : l \in BackTrees(Before(s, i)), r \in LineTrees(After(s, i))} :
                           i \in {k \in 1..Len(s) : s[k] = ";"}}

(* The parser accepts exactly the lines of the grammar, which is           *)
(* unambiguous, and returns their trees: | binds tighter than &, and &     *)
(* tighter than ;, pipes and lists group to the right, and redirections    *)
(* belong to the nearest command or block.                                 *)
ParsesGrammar == sproc[1].at = "main" => LineTrees(line) = {tree} \ {Panic}

(* The prompt comes back when all that the line runs in the foreground has *)
(* ended, each command of a pipeline too.  (With no room for a process,    *)
(* the command whose fork1 failed ends before the others do.)              *)
ForegroundEnds ==
  sproc[1].at = "prompt" /\ ~forkfailed =>
    \A i \in Pid \ {1} : sproc[i].at = "unused" \/ sproc[i].back

(* Every line ends, provided each program does when its input ends and its *)
(* output goes: no one keeps the write end of a pipe open on which a       *)
(* command waits for the end of its input, or sits on a read end while a   *)
(* writer waits, for ever.                                                 *)
LineEnds == <>(line \in RunLines => Quiet)
=============================================================================
