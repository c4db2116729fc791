------------------------------ MODULE Console -------------------------------
(***************************************************************************)
(* The console's input (consoleintr and consoleread of console.c) and the  *)
(* clock (trap and sys_sleep).  The indices into the input buffer and the  *)
(* ticks are unsigned integers that wrap at UINT.  input.lock and          *)
(* tickslock are held from one sleep to the next, so that this is one      *)
(* step, but for kill, which may come between the test of killed and the   *)
(* sleep ("presleep") and is not noticed then.                             *)
(***************************************************************************)
EXTENDS Integers, Sequences

CONSTANTS
  Reader, Sleeper,
  INPUT_BUF,     \* divides UINT
  UINT,          \* 2^32, or a smaller number
  Start,         \* of the indices and the ticks: 0, and later any number
  Nap,           \* arguments of sleep, also negative ones
  ReadSize,      \* arguments of read, above 0
  MaxKeys, MaxTicks

NEWLINE == "\n"
EOF == "^D"
Char == {"a", "b", NEWLINE, EOF}
(* What getc returns, 0 for a key without a character.  (^P and ^Z leave   *)
(* the input as it is.)                                                    *)
Key == {"a", "b", "\r", EOF, "^H", "^U", "0"}

VARIABLES
  buf, r, w, e,  \* input
  reader,        \* of each reader: where it is, what it has read and wants
  ckilled,       \* the readers and sleepers that were killed
  ticks, sleeper,
  nkeys, nticks  \* histories: keys typed, clock interrupts

kvars == <<buf, r, w, e, reader, ckilled, ticks, sleeper, nkeys, nticks>>

Idle == [at |-> "idle", n |-> 0, got |-> <<>>]
Awake == [at |-> "idle", n |-> 0, ticks0 |-> 0, since |-> 0]

Init ==
  /\ buf = [i \in 0..INPUT_BUF - 1 |-> "0"]
  /\ r = Start /\ w = Start /\ e = Start
  /\ reader = [p \in Reader |-> Idle]
  /\ ckilled = {}
  /\ ticks = Start /\ sleeper = [p \in Sleeper |-> Awake]
  /\ nkeys = 0 /\ nticks = 0

-----------------------------------------------------------------------------
(* Input *)

(* Nobody holds input.lock. *)
InputFree == \A p \in Reader : reader[p].at # "presleep"

Plus(a, b) == (a + b) % UINT      \* of unsigned integers
At(i) == i % INPUT_BUF

(* wakeup(&input.r) *)
Woken == [p \in Reader |-> IF reader[p].at = "asleep" THEN [reader[p] EXCEPT !.at = "test"] ELSE reader[p]]

Room == Plus(e, -r) < INPUT_BUF

(* Mutant: a full buffer is not given to readers. *)
Commits_NotFull(c, e1) == c \in {NEWLINE, EOF}

Commits(c, e1) == c \in {NEWLINE, EOF} \/ e1 = Plus(r, INPUT_BUF)

(* The default case: store the character, and give the line to readers *)
store(key) ==
  LET c == IF key = "\r" THEN NEWLINE ELSE key
      e1 == Plus(e, 1)
  IN
  /\ key \notin {"0", "^H", "^U"} /\ Room
  /\ buf' = [buf EXCEPT ![At(e)] = c]
  /\ e' = e1
  /\ IF Commits(c, e1) THEN w' = e1 /\ reader' = Woken ELSE UNCHANGED <<w, reader>>

Ignored(key) ==
  /\ key = "0" \/ (key \in {"a", "b", "\r", EOF} /\ ~Room) \/ (key = "^H" /\ e = w)
  /\ UNCHANGED <<buf, e, w, reader>>

backspace(key) ==
  /\ key = "^H" /\ e # w
  /\ e' = Plus(e, -1)
  /\ UNCHANGED <<buf, w, reader>>

(* Back to w, or to behind the last newline *)
killed_line ==
  LET len == Plus(e, -w)
      stops == {k \in 0..len : k = len \/ buf[At(Plus(e, -k - 1))] = NEWLINE}
  IN Plus(e, -(CHOOSE k \in stops : \A j \in stops : k <= j))
kill_line(key) ==
  /\ key = "^U"
  /\ e' = killed_line
  /\ UNCHANGED <<buf, w, reader>>

consoleintr ==
  /\ InputFree /\ nkeys < MaxKeys /\ nkeys' = nkeys + 1
  /\ \E key \in Key : store(key) \/ Ignored(key) \/ backspace(key) \/ kill_line(key)
  /\ UNCHANGED <<r, ckilled, ticks, sleeper, nticks>>

(* consoleread, from a test of the buffer until it sleeps or returns: the  *)
(* characters it takes.  A ^D that is not the first is left in the buffer. *)
Take(n, got) ==
  LET len == Plus(w, -r)
      c(k) == buf[At(Plus(r, k - 1))]
      ends == {k \in 1..len : k = n \/ c(k) \in {NEWLINE, EOF}}
      m == IF ends = {} THEN len ELSE CHOOSE k \in ends : \A j \in ends : k <= j
      eof == m > 0 /\ c(m) = EOF
      data == IF eof THEN m - 1 ELSE m
  IN [done |-> ends # {},
      data |-> [k \in 1..data |-> c(k)],
      used |-> IF eof /\ Len(got) + data > 0 THEN data ELSE m]

consoleread_call(p, n) ==
  /\ reader[p].at = "idle"
  /\ reader' = [reader EXCEPT ![p] = [at |-> "test", n |-> n, got |-> <<>>]]
  /\ UNCHANGED <<buf, r, w, e, ckilled, ticks, sleeper, nkeys, nticks>>

consoleread(p) ==
  LET t == Take(reader[p].n - Len(reader[p].got), reader[p].got)
      got == reader[p].got \o t.data
  IN
  /\ InputFree /\ reader[p].at = "test"
  /\ r' = Plus(r, t.used)
  /\ reader' = [reader EXCEPT ![p] =
       IF t.done \/ p \in ckilled THEN Idle ELSE [@ EXCEPT !.at = "presleep", !.got = got]]
  /\ UNCHANGED <<buf, w, e, ckilled, ticks, sleeper, nkeys, nticks>>

consoleread_sleep(p) ==
  /\ reader[p].at = "presleep"
  /\ reader' = [reader EXCEPT ![p].at = "asleep"]
  /\ UNCHANGED <<buf, r, w, e, ckilled, ticks, sleeper, nkeys, nticks>>

-----------------------------------------------------------------------------
(* The clock *)

TicksFree == \A p \in Sleeper : sleeper[p].at # "presleep"     \* tickslock

SleepersWoken ==
  [p \in Sleeper |-> IF sleeper[p].at = "asleep" THEN [sleeper[p] EXCEPT !.at = "test"] ELSE sleeper[p]]

(* The timer interrupt, on processor 0 *)
trap_timer ==
  /\ TicksFree /\ nticks < MaxTicks /\ nticks' = nticks + 1
  /\ ticks' = Plus(ticks, 1)
  /\ sleeper' = SleepersWoken
  /\ UNCHANGED <<buf, r, w, e, reader, ckilled, nkeys>>

sys_sleep_call(p, n) ==
  /\ TicksFree /\ sleeper[p].at = "idle"
  /\ sleeper' = [sleeper EXCEPT ![p] = [at |-> "test", n |-> n, ticks0 |-> ticks, since |-> nticks]]
  /\ UNCHANGED <<buf, r, w, e, reader, ckilled, ticks, nkeys, nticks>>

(* Mutant: the end of the sleep is compared, and not its length. *)
Elapsed_Later(p) == ticks >= Plus(sleeper[p].ticks0, sleeper[p].n)

(* n, an int, is converted to unsigned for the comparison. *)
Elapsed(p) == Plus(ticks, -sleeper[p].ticks0) >= Plus(sleeper[p].n, 0)

sys_sleep(p) ==
  /\ TicksFree /\ sleeper[p].at = "test"
  /\ sleeper' = [sleeper EXCEPT ![p] =
       IF Elapsed(p) THEN [@ EXCEPT !.at = "returned"]
       ELSE IF p \in ckilled THEN Awake
       ELSE [@ EXCEPT !.at = "presleep"]]
  /\ UNCHANGED <<buf, r, w, e, reader, ckilled, ticks, nkeys, nticks>>

sys_sleep_sleep(p) ==
  /\ sleeper[p].at = "presleep"
  /\ sleeper' = [sleeper EXCEPT ![p].at = "asleep"]
  /\ UNCHANGED <<buf, r, w, e, reader, ckilled, ticks, nkeys, nticks>>

sys_sleep_return(p) ==
  /\ sleeper[p].at = "returned"
  /\ sleeper' = [sleeper EXCEPT ![p] = Awake]
  /\ UNCHANGED <<buf, r, w, e, reader, ckilled, ticks, nkeys, nticks>>

(* kill makes a sleeping process runnable. *)
kill(p) ==
  /\ p \notin ckilled
  /\ ckilled' = ckilled \cup {p}
  /\ reader' = [q \in Reader |-> IF q = p THEN Woken[q] ELSE reader[q]]
  /\ sleeper' = [q \in Sleeper |-> IF q = p THEN SleepersWoken[q] ELSE sleeper[q]]
  /\ UNCHANGED <<buf, r, w, e, ticks, nkeys, nticks>>

(* The two parts share nothing. *)
InputNext ==
  \/ consoleintr
  \/ \E p \in Reader : consoleread(p) \/ consoleread_sleep(p) \/ kill(p) \/ \E n \in ReadSize : consoleread_call(p, n)
  \/ nkeys = MaxKeys /\ UNCHANGED kvars

ClockNext ==
  \/ trap_timer
  \/ \E p \in Sleeper :
       \/ sys_sleep(p) \/ sys_sleep_sleep(p) \/ sys_sleep_return(p) \/ kill(p)
       \/ \E n \in Nap : sys_sleep_call(p, n)
  \/ nticks = MaxTicks /\ UNCHANGED kvars

-----------------------------------------------------------------------------
(* Properties *)

(* The buffer with its three indices, which wrap, is a terminal of lines:  *)
(* consoleintr edits only what is not given to readers yet, a full buffer  *)
(* is given to them although the line is not finished (or no key would     *)
(* have an effect ever after), and no character is lost, doubled or read   *)
(* before it is given, with a ^D put back too.                             *)
Stored(from, to) == [k \in 1..Plus(to, -from) |-> buf[At(Plus(from, k - 1))]]
Terminal == INSTANCE Lines WITH
  given <- Stored(r, w), typed <- Stored(w, e), Final <- {NEWLINE, EOF}, Room <- INPUT_BUF
LineSpec == Terminal!Spec

(* No one sleeps through what it waits for: a reader sleeps only while     *)
(* there is nothing to read, and sleep(n) returns after n ticks, not       *)
(* before, although ticks wraps; a negative n counts as UINT + n.          *)
NoOversleep ==
  /\ \A p \in Reader : reader[p].at = "asleep" => r = w
  /\ \A p \in Sleeper :
       LET elapsed == nticks - sleeper[p].since
           n == IF sleeper[p].n < 0 THEN UINT + sleeper[p].n ELSE sleeper[p].n
       IN /\ sleeper[p].at = "asleep" => elapsed < n
          /\ sleeper[p].at = "returned" => elapsed >= n

=============================================================================
