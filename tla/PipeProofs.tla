----------------------------- MODULE PipeProofs -----------------------------
(***************************************************************************)
(* Proofs about Pipe, for every set of processes, every size of the buffer *)
(* and every word at which the counters wrap that the size divides.        *)
(***************************************************************************)
EXTENDS Pipe, Integers, TLAPS

-----------------------------------------------------------------------------
(* Arithmetic of counters that wrap. *)

(* Division with remainder. *)
LEMMA DivMod ==
  ASSUME NEW x \in Nat, NEW m \in Nat \ {0}
  PROVE  /\ x \div m \in Nat
         /\ x % m \in 0..m - 1
         /\ x = (m * (x \div m)) + (x % m)
PROOF
  OBVIOUS

(* A counter below twice the word wraps once at most. *)
LEMMA WrapOnce ==
  ASSUME NEW m \in Nat \ {0}, NEW x \in 0..2 * m - 1
  PROVE  x % m = IF x < m THEN x ELSE x - m
PROOF
  OBVIOUS

(* Two numbers closer than m have different remainders. *)
LEMMA RemainderUnique ==
  ASSUME NEW a \in Nat, NEW b \in Nat, NEW m \in Nat \ {0},
         a <= b, b < a + m, a % m = b % m
  PROVE  a = b
PROOF
<1> DEFINE p == a \div m
           q == b \div m
           r == a % m
<1>1. p \in Nat /\ r \in Nat /\ a = m * p + r
  <2>1. p \in Nat /\ r \in 0..m - 1 /\ a = m * p + r
    BY DivMod
  <2> QED
    BY <2>1
<1>2. q \in Nat /\ b = m * q + r
  BY DivMod
<1> HIDE DEF p, q, r
<1>3. b - a = m * (q - p)
  <2>1. m * (q - p) = m * q - m * p
    BY <1>1, <1>2
  <2> QED
    BY <1>1, <1>2, <2>1
<1>4. CASE q <= p
  BY <1>1, <1>2, <1>4
<1>5. CASE q >= p + 1
  <2>1. m * (q - p) >= m
    BY <1>1, <1>2, <1>5
  <2> QED
    BY <2>1, <1>1, <1>2, <1>3
<1> QED
  BY <1>1, <1>2, <1>4, <1>5

(* A wrap at a multiple of the buffer's size does not change the place in  *)
(* the buffer (pipe.c:93, nwrite++ % PIPESIZE).                            *)
LEMMA WrapKeepsPlace ==
  ASSUME NEW m \in Nat \ {0}, NEW w \in Nat \ {0}, w % m = 0, NEW x \in 0..2 * w - 1
  PROVE  (x % w) % m = x % m
PROOF
<1>1. CASE x < w
  BY <1>1
<1>2. CASE x >= w
  <2>1. x % w = x - w
    BY <1>2
  <2> DEFINE y == x - w
             d == w \div m
             e == y \div m
             r == y % m
  <2>2. y \in Nat /\ d \in Nat /\ w = m * d
    BY DivMod, <1>2
  <2>3. e \in Nat /\ r \in 0..m - 1 /\ y = m * e + r
    BY <2>2, DivMod
  <2> HIDE DEF y, d, e, r
  <2>4. x = m * (d + e) + r
    BY <2>2, <2>3 DEF y
  <2>5. x % m = r
    BY <2>4, <2>2, <2>3
  <2> QED
    BY <2>1, <2>5 DEF y, r
<1> QED
  BY <1>1, <1>2

-----------------------------------------------------------------------------
(* The inductive invariant. *)

InCall == {"acquire", "loop", "copy", "presleep", "asleep"}
Inside == {"loop", "copy", "presleep"}

(* p->lock is held exactly by the process that is inside a call and awake. *)
LockHeld == \A p \in Proc : lock = p <=> pc[p] \in Inside

(* An end is open as long as somebody holds it; a call is made by one who  *)
(* does; the second loop is that of piperead.                              *)
Ends ==
  /\ readopen <=> \E p \in Proc : "read" \in holds[p]
  /\ writeopen <=> \E p \in Proc : "write" \in holds[p]
  /\ freed => ~readopen /\ ~writeopen
  /\ gaveup => writeopen
  /\ \A p \in Proc :
       /\ pc[p] \in InCall => op[p] \in holds[p]
       /\ pc[p] = "copy" => op[p] = "read"

(* The buffer is never overrun, and piperead leaves its first loop without *)
(* a byte only at the end of file.                                         *)
Fits == Used <= PIPESIZE
AtEof == \A p \in Proc : In(p, "read", "copy") /\ i[p] = 0 /\ Empty => ~writeopen

IInv == TypeOK /\ LockHeld /\ Ends /\ Fits /\ AtEof

(* Who is about to sleep still has a reason, as p->lock is held; who       *)
(* sleeps has one, or will be woken.                                       *)
Reasons ==
  \A p \in Proc :
    /\ In(p, "read", "presleep") => Empty /\ writeopen
    /\ In(p, "write", "presleep") => Full /\ readopen
    /\ Asleep(p, "read") => (Empty /\ writeopen) \/ Holds("write", {"loop"}) \/ gaveup
    /\ Asleep(p, "write") => (Full /\ readopen) \/ Holds("read", {"copy"})

-----------------------------------------------------------------------------
(* The bytes under way *)

(* The distance between two counters, which is less than a word. *)
LEMMA Distance ==
  ASSUME NEW r \in 0..WORD - 1, NEW w \in 0..WORD - 1
  PROVE  /\ (w + WORD - r) % WORD = IF r <= w THEN w - r ELSE w + WORD - r
         /\ (w + 1) % WORD = IF w + 1 = WORD THEN 0 ELSE w + 1
         /\ (r + PIPESIZE) % WORD
              = IF r + PIPESIZE < WORD THEN r + PIPESIZE ELSE r + PIPESIZE - WORD
PROOF
<1>1. WORD \in Nat \ {0} /\ PIPESIZE \in Nat \ {0} /\ PIPESIZE < WORD
  BY PipeAssumption
<1>2. /\ w + WORD - r \in 0..2 * WORD - 1
      /\ w + 1 \in 0..2 * WORD - 1
      /\ r + PIPESIZE \in 0..2 * WORD - 1
  BY <1>1
<1>3. \A x \in 0..2 * WORD - 1 : x % WORD = IF x < WORD THEN x ELSE x - WORD
  BY <1>1, WrapOnce
<1> QED
  BY <1>1, <1>2, <1>3

Counters == nread \in 0..WORD - 1 /\ nwrite \in 0..WORD - 1

(* Empty and Full in terms of the number of bytes under way. *)
LEMMA UsedBytes ==
  ASSUME Counters
  PROVE  /\ Used \in 0..WORD - 1
         /\ Used = IF nread <= nwrite THEN nwrite - nread ELSE nwrite + WORD - nread
         /\ Empty <=> Used = 0
         /\ Full <=> Used = PIPESIZE
PROOF
<1>1. WORD \in Nat \ {0} /\ PIPESIZE \in Nat \ {0} /\ PIPESIZE < WORD
  BY PipeAssumption
<1>2. Used = IF nread <= nwrite THEN nwrite - nread ELSE nwrite + WORD - nread
  BY Distance DEF Counters, Used
<1>3. (nread + PIPESIZE) % WORD
        = IF nread + PIPESIZE < WORD THEN nread + PIPESIZE ELSE nread + PIPESIZE - WORD
  BY Distance DEF Counters
<1> QED
  BY <1>1, <1>2, <1>3 DEF Counters, Empty, Full

(* One more byte after a write, one less after a read. *)
LEMMA UsedAfter ==
  ASSUME Counters
  PROVE  /\ ~Full /\ nwrite' = (nwrite + 1) % WORD /\ nread' = nread /\ Used <= PIPESIZE
              => Counters' /\ Used' = Used + 1
         /\ ~Empty /\ nread' = (nread + 1) % WORD /\ nwrite' = nwrite
              => Counters' /\ Used' = Used - 1
PROOF
<1>1. WORD \in Nat \ {0} /\ PIPESIZE \in Nat \ {0} /\ PIPESIZE < WORD
  BY PipeAssumption
<1>2. ASSUME Counters'
      PROVE  Used' = IF nread' <= nwrite' THEN nwrite' - nread' ELSE nwrite' + WORD - nread'
  BY <1>2, Distance DEF Counters, Used
<1>3. /\ (nwrite + 1) % WORD = IF nwrite + 1 = WORD THEN 0 ELSE nwrite + 1
      /\ (nread + 1) % WORD = IF nread + 1 = WORD THEN 0 ELSE nread + 1
  BY Distance DEF Counters
<1>4. ASSUME ~Full, nwrite' = (nwrite + 1) % WORD, nread' = nread, Used <= PIPESIZE
      PROVE  Counters' /\ Used' = Used + 1
  <2>1. Counters'
    BY <1>1, <1>3, <1>4 DEF Counters
  <2> QED
    BY <1>1, <1>2, <1>3, <1>4, <2>1, UsedBytes DEF Counters
<1>5. ASSUME ~Empty, nread' = (nread + 1) % WORD, nwrite' = nwrite
      PROVE  Counters' /\ Used' = Used - 1
  <2>1. Counters'
    BY <1>1, <1>3, <1>5 DEF Counters
  <2> QED
    BY <1>1, <1>2, <1>3, <1>5, <2>1, UsedBytes DEF Counters
<1> QED
  BY <1>4, <1>5
-----------------------------------------------------------------------------
(* The invariant is inductive. *)

(* A step is an operation of some process, or changes nothing. *)
LEMMA NextCases ==
  ASSUME [Next]_vars
  PROVE  \/ \E p \in Proc : \E o \in End, k \in ReadLengths \cup WriteLengths : call(p, o, k)
         \/ \E p \in Proc : acquire(p)
         \/ \E p \in Proc : sleep(p)
         \/ \E p \in Proc : \E b \in Byte : write_byte(p, b)
         \/ \E p \in Proc : write_full(p)
         \/ \E p \in Proc : write_done(p)
         \/ \E p \in Proc : read_wait(p)
         \/ \E p \in Proc : read_byte(p)
         \/ \E p \in Proc : read_done(p)
         \/ \E p \in Proc : \E e \in End : close(p, e)
         \/ \E p \in Proc : exit(p)
         \/ \E p \in Proc : enter_exit(p)
         \/ \E p \in Proc : kill(p)
         \/ UNCHANGED vars
PROOF
  BY DEF Next, Kernel, User, pipewrite, piperead, End

(* Types are kept. *)
LEMMA TypeStep ==
  ASSUME IInv, [Next]_vars
  PROVE  TypeOK'
PROOF
<1>1. ASSUME NEW p \in Proc, NEW o \in End, NEW k \in ReadLengths \cup WriteLengths, call(p, o, k)
      PROVE  TypeOK'
  BY <1>1, PipeAssumption DEF call, IInv, TypeOK, PC, End, pipe, Index
<1>2. ASSUME NEW p \in Proc, acquire(p)
      PROVE  TypeOK'
  BY <1>2, PipeAssumption DEF acquire, IInv, TypeOK, PC, End, pipe, Index
<1>3. ASSUME NEW p \in Proc, sleep(p)
      PROVE  TypeOK'
  BY <1>3, PipeAssumption DEF sleep, IInv, TypeOK, PC, End, pipe, Index
<1>4. ASSUME NEW p \in Proc, NEW b \in Byte, write_byte(p, b)
      PROVE  TypeOK'
  <2>1. Counters' /\ nread' \in 0..WORD - 1 /\ nwrite' \in 0..WORD - 1
    BY <1>4, UsedAfter DEF write_byte, In, IInv, TypeOK, Fits, Counters
  <2>2. i' \in [Proc -> Nat] /\ \A q \in Proc : i'[q] <= n'[q]
    <3>0. ReadLengths \cup WriteLengths \cup {0} \subseteq Nat
      BY PipeAssumption
    <3>1. \A q \in Proc : i[q] \in Nat /\ n[q] \in Nat
      BY <3>0 DEF IInv, TypeOK
    <3> QED
      BY <1>4, <3>1 DEF write_byte, In, IInv, TypeOK
  <2>3. Place \in Index /\ nread % PIPESIZE \in Index
    BY PipeAssumption, DivMod DEF IInv, TypeOK, Index, Place
  <2> QED
    BY <1>4, <2>1, <2>2, <2>3 DEF write_byte, In, IInv, TypeOK
<1>5. ASSUME NEW p \in Proc, write_full(p)
      PROVE  TypeOK'
  <2>1. CASE ~readopen \/ killed[p]
    <3>1. returns(p, pc) /\ UNCHANGED <<pipe, freed, killed, holds, got>>
      BY <1>5, <2>1 DEF write_full
    <3>2. gaveup' \in BOOLEAN
      BY <1>5, <2>1 DEF write_full
    <3> QED
      BY <3>1, <3>2 DEF returns, IInv, TypeOK, PC, End, pipe, Index
  <2>2. CASE ~(~readopen \/ killed[p])
    BY <1>5, <2>2 DEF write_full, wakeup, In, IInv, TypeOK, PC, End, pipe, Index
  <2> QED
    BY <2>1, <2>2
<1>6. ASSUME NEW p \in Proc, write_done(p)
      PROVE  TypeOK'
  <2>1. /\ returns(p, wakeup("read")) /\ UNCHANGED <<pipe, freed, killed, holds, got>>
        /\ gaveup' \in BOOLEAN
    BY <1>6 DEF write_done
  <2>2. wakeup("read") \in [Proc -> PC]
    BY DEF wakeup, IInv, TypeOK, PC
  <2> QED
    BY <2>1, <2>2 DEF returns, IInv, TypeOK, PC, End, pipe, Index
<1>7. ASSUME NEW p \in Proc, read_wait(p)
      PROVE  TypeOK'
  <2>1. CASE Empty /\ writeopen /\ killed[p]
    <3>1. returns(p, pc) /\ UNCHANGED <<pipe, freed, killed, holds, got, gaveup>>
      BY <1>7, <2>1 DEF read_wait
    <3> QED
      BY <3>1 DEF returns, IInv, TypeOK, PC, End, pipe, Index
  <2>2. CASE ~(Empty /\ writeopen /\ killed[p])
    BY <1>7, <2>2 DEF read_wait, wakeup, In, IInv, TypeOK, PC, End, pipe, Index
  <2> QED
    BY <2>1, <2>2
<1>8. ASSUME NEW p \in Proc, read_byte(p)
      PROVE  TypeOK'
  <2>1. Counters' /\ nread' \in 0..WORD - 1 /\ nwrite' \in 0..WORD - 1
    BY <1>8, UsedAfter DEF read_byte, In, IInv, TypeOK, Fits, Counters
  <2>2. i' \in [Proc -> Nat] /\ \A q \in Proc : i'[q] <= n'[q]
    <3>0. ReadLengths \cup WriteLengths \cup {0} \subseteq Nat
      BY PipeAssumption
    <3>1. \A q \in Proc : i[q] \in Nat /\ n[q] \in Nat
      BY <3>0 DEF IInv, TypeOK
    <3> QED
      BY <1>8, <3>1 DEF read_byte, In, IInv, TypeOK
  <2>3. Place \in Index /\ nread % PIPESIZE \in Index
    BY PipeAssumption, DivMod DEF IInv, TypeOK, Index, Place
  <2> QED
    BY <1>8, <2>1, <2>2, <2>3 DEF read_byte, In, IInv, TypeOK
<1>9. ASSUME NEW p \in Proc, read_done(p)
      PROVE  TypeOK'
  BY <1>9, PipeAssumption DEF read_done, returns, wakeup, In, IInv, TypeOK, PC, End, pipe, Index
<1>10. ASSUME NEW p \in Proc, NEW e \in End, close(p, e)
      PROVE  TypeOK'
  BY <1>10, PipeAssumption
     DEF close, Notified, wakeup, Unused, IInv, TypeOK, PC, End, pipe, Index
<1>11. ASSUME NEW p \in Proc, exit(p)
      PROVE  TypeOK'
  BY <1>11, PipeAssumption DEF exit, IInv, TypeOK, PC, End, pipe, Index
<1>12. ASSUME NEW p \in Proc, enter_exit(p)
      PROVE  TypeOK'
  BY <1>12, PipeAssumption DEF enter_exit, IInv, TypeOK, PC, End, pipe, Index
<1>13. ASSUME NEW p \in Proc, kill(p)
      PROVE  TypeOK'
  BY <1>13, PipeAssumption DEF kill, IInv, TypeOK, PC, End, pipe, Index
<1>14. CASE UNCHANGED vars
  BY <1>14 DEF vars, pipe, IInv, TypeOK, PC, End, Index
<1> QED
  BY <1>1, <1>2, <1>3, <1>4, <1>5, <1>6, <1>7, <1>8, <1>9, <1>10, <1>11, <1>12, <1>13, <1>14,
     NextCases

(* p->lock is taken and given back with the calls. *)
LEMMA LockStep ==
  ASSUME IInv, [Next]_vars
  PROVE  LockHeld'
PROOF
<1>1. ASSUME NEW p \in Proc, NEW o \in End, NEW k \in ReadLengths \cup WriteLengths, call(p, o, k)
      PROVE  LockHeld'
  BY <1>1, PipeAssumption DEF call, IInv, TypeOK, PC, End, LockHeld, Inside, pipe
<1>2. ASSUME NEW p \in Proc, acquire(p)
      PROVE  LockHeld'
  BY <1>2, PipeAssumption DEF acquire, IInv, TypeOK, PC, End, LockHeld, Inside, pipe
<1>3. ASSUME NEW p \in Proc, sleep(p)
      PROVE  LockHeld'
  BY <1>3, PipeAssumption DEF sleep, IInv, TypeOK, PC, End, LockHeld, Inside, pipe
<1>4. ASSUME NEW p \in Proc, NEW b \in Byte, write_byte(p, b)
      PROVE  LockHeld'
  BY <1>4, PipeAssumption DEF write_byte, In, IInv, TypeOK, PC, End, LockHeld, Inside, pipe
<1>5. ASSUME NEW p \in Proc, write_full(p)
      PROVE  LockHeld'
  <2>1. CASE ~readopen \/ killed[p]
    BY <1>5, <2>1, PipeAssumption
       DEF write_full, returns, In, IInv, TypeOK, PC, End, LockHeld, Inside, pipe
  <2>2. CASE ~(~readopen \/ killed[p])
    <3>1. \A q \in Proc : pc'[q] = IF q = p THEN "presleep" ELSE wakeup("read")[q]
      BY <1>5, <2>2 DEF write_full, wakeup
    <3> QED
      BY <1>5, <2>2, <3>1
         DEF write_full, wakeup, In, IInv, TypeOK, PC, End, LockHeld, Inside, pipe
  <2> QED
    BY <2>1, <2>2
<1>6. ASSUME NEW p \in Proc, write_done(p)
      PROVE  LockHeld'
  BY <1>6, PipeAssumption
     DEF write_done, returns, wakeup, In, IInv, TypeOK, PC, End, LockHeld, Inside, pipe
<1>7. ASSUME NEW p \in Proc, read_wait(p)
      PROVE  LockHeld'
  BY <1>7, PipeAssumption
     DEF read_wait, returns, In, IInv, TypeOK, PC, End, LockHeld, Inside, pipe
<1>8. ASSUME NEW p \in Proc, read_byte(p)
      PROVE  LockHeld'
  BY <1>8, PipeAssumption DEF read_byte, In, IInv, TypeOK, PC, End, LockHeld, Inside, pipe
<1>9. ASSUME NEW p \in Proc, read_done(p)
      PROVE  LockHeld'
  BY <1>9, PipeAssumption
     DEF read_done, returns, wakeup, In, IInv, TypeOK, PC, End, LockHeld, Inside, pipe
<1>10. ASSUME NEW p \in Proc, NEW e \in End, close(p, e)
      PROVE  LockHeld'
  BY <1>10, PipeAssumption
     DEF close, Notified, wakeup, Unused, IInv, TypeOK, PC, End, LockHeld, Inside, pipe
<1>11. ASSUME NEW p \in Proc, exit(p)
      PROVE  LockHeld'
  BY <1>11, PipeAssumption DEF exit, IInv, TypeOK, PC, End, LockHeld, Inside, pipe
<1>12. ASSUME NEW p \in Proc, enter_exit(p)
      PROVE  LockHeld'
  BY <1>12, PipeAssumption DEF enter_exit, IInv, TypeOK, PC, End, LockHeld, Inside, pipe
<1>13. ASSUME NEW p \in Proc, kill(p)
      PROVE  LockHeld'
  BY <1>13, PipeAssumption DEF kill, IInv, TypeOK, PC, End, LockHeld, Inside, pipe
<1>14. CASE UNCHANGED vars
  BY <1>14 DEF vars, pipe, IInv, TypeOK, PC, End, LockHeld, Inside
<1> QED
  BY <1>1, <1>2, <1>3, <1>4, <1>5, <1>6, <1>7, <1>8, <1>9, <1>10, <1>11, <1>12, <1>13, <1>14,
     NextCases

(* The ends stay open as long as they are held. *)
LEMMA EndsStep ==
  ASSUME IInv, [Next]_vars
  PROVE  Ends'
PROOF
<1>1. ASSUME NEW p \in Proc, NEW o \in End, NEW k \in ReadLengths \cup WriteLengths, call(p, o, k)
      PROVE  Ends'
  BY <1>1, PipeAssumption DEF call, IInv, TypeOK, PC, End, LockHeld, Inside, Ends, InCall, pipe
<1>2. ASSUME NEW p \in Proc, acquire(p)
      PROVE  Ends'
  BY <1>2, PipeAssumption
     DEF acquire, IInv, TypeOK, PC, End, LockHeld, Inside, Ends, InCall, pipe
<1>3. ASSUME NEW p \in Proc, sleep(p)
      PROVE  Ends'
  BY <1>3, PipeAssumption DEF sleep, IInv, TypeOK, PC, End, LockHeld, Inside, Ends, InCall, pipe
<1>4. ASSUME NEW p \in Proc, NEW b \in Byte, write_byte(p, b)
      PROVE  Ends'
  BY <1>4, PipeAssumption
     DEF write_byte, In, IInv, TypeOK, PC, End, LockHeld, Inside, Ends, InCall, pipe
<1>5. ASSUME NEW p \in Proc, write_full(p)
      PROVE  Ends'
  <2>1. CASE ~readopen \/ killed[p]
    BY <1>5, <2>1, PipeAssumption
       DEF write_full, returns, In, IInv, TypeOK, PC, End, LockHeld, Inside, Ends, InCall, pipe
  <2>2. CASE ~(~readopen \/ killed[p])
    <3>1. \A q \in Proc : pc'[q] = IF q = p THEN "presleep" ELSE wakeup("read")[q]
      BY <1>5, <2>2 DEF write_full, wakeup
    <3> QED
      BY <1>5, <2>2, <3>1
         DEF write_full, wakeup, In, IInv, TypeOK, PC, End, LockHeld, Inside, Ends, InCall, pipe
  <2> QED
    BY <2>1, <2>2
<1>6. ASSUME NEW p \in Proc, write_done(p)
      PROVE  Ends'
  BY <1>6, PipeAssumption
     DEF write_done, returns, wakeup, In, IInv, TypeOK, PC, End, LockHeld, Inside, Ends, InCall,
         pipe
<1>7. ASSUME NEW p \in Proc, read_wait(p)
      PROVE  Ends'
  BY <1>7, PipeAssumption
     DEF read_wait, returns, In, IInv, TypeOK, PC, End, LockHeld, Inside, Ends, InCall, pipe
<1>8. ASSUME NEW p \in Proc, read_byte(p)
      PROVE  Ends'
  BY <1>8, PipeAssumption
     DEF read_byte, In, IInv, TypeOK, PC, End, LockHeld, Inside, Ends, InCall, pipe
<1>9. ASSUME NEW p \in Proc, read_done(p)
      PROVE  Ends'
  BY <1>9, PipeAssumption
     DEF read_done, returns, wakeup, In, IInv, TypeOK, PC, End, LockHeld, Inside, Ends, InCall,
         pipe
<1>10. ASSUME NEW p \in Proc, NEW e \in End, close(p, e)
      PROVE  Ends'
  BY <1>10, PipeAssumption
     DEF close, Notified, wakeup, Unused, IInv, TypeOK, PC, End, LockHeld, Inside, Ends, InCall,
         pipe
<1>11. ASSUME NEW p \in Proc, exit(p)
      PROVE  Ends'
  BY <1>11, PipeAssumption DEF exit, IInv, TypeOK, PC, End, LockHeld, Inside, Ends, InCall, pipe
<1>12. ASSUME NEW p \in Proc, enter_exit(p)
      PROVE  Ends'
  BY <1>12, PipeAssumption
     DEF enter_exit, IInv, TypeOK, PC, End, LockHeld, Inside, Ends, InCall, pipe
<1>13. ASSUME NEW p \in Proc, kill(p)
      PROVE  Ends'
  BY <1>13, PipeAssumption DEF kill, IInv, TypeOK, PC, End, LockHeld, Inside, Ends, InCall, pipe
<1>14. CASE UNCHANGED vars
  BY <1>14 DEF vars, pipe, IInv, TypeOK, PC, End, LockHeld, Inside, Ends, InCall
<1> QED
  BY <1>1, <1>2, <1>3, <1>4, <1>5, <1>6, <1>7, <1>8, <1>9, <1>10, <1>11, <1>12, <1>13, <1>14,
     NextCases

(* The buffer is not overrun. *)
LEMMA FitsStep ==
  ASSUME IInv, [Next]_vars
  PROVE  Fits'
PROOF
<1>1. ASSUME NEW p \in Proc, NEW o \in End, NEW k \in ReadLengths \cup WriteLengths, call(p, o, k)
      PROVE  Fits'
  BY <1>1 DEF call, IInv, Fits, Used, pipe
<1>2. ASSUME NEW p \in Proc, acquire(p)
      PROVE  Fits'
  BY <1>2 DEF acquire, IInv, Fits, Used, pipe
<1>3. ASSUME NEW p \in Proc, sleep(p)
      PROVE  Fits'
  BY <1>3 DEF sleep, IInv, Fits, Used, pipe
<1>4. ASSUME NEW p \in Proc, NEW b \in Byte, write_byte(p, b)
      PROVE  Fits'
  <2>1. Used' = Used + 1 /\ Used \in Nat /\ Used # PIPESIZE
    BY <1>4, UsedAfter, UsedBytes DEF write_byte, In, IInv, TypeOK, Fits, Counters
  <2> QED
    BY <2>1, PipeAssumption DEF IInv, Fits
<1>5. ASSUME NEW p \in Proc, write_full(p)
      PROVE  Fits'
  BY <1>5 DEF write_full, returns, wakeup, In, IInv, Fits, Used, pipe
<1>6. ASSUME NEW p \in Proc, write_done(p)
      PROVE  Fits'
  BY <1>6 DEF write_done, returns, wakeup, In, IInv, Fits, Used, pipe
<1>7. ASSUME NEW p \in Proc, read_wait(p)
      PROVE  Fits'
  BY <1>7 DEF read_wait, returns, In, IInv, Fits, Used, pipe
<1>8. ASSUME NEW p \in Proc, read_byte(p)
      PROVE  Fits'
  <2>1. Used' = Used - 1 /\ Used \in Nat
    BY <1>8, UsedAfter, UsedBytes DEF read_byte, In, IInv, TypeOK, Fits, Counters
  <2> QED
    BY <2>1, PipeAssumption DEF IInv, Fits
<1>9. ASSUME NEW p \in Proc, read_done(p)
      PROVE  Fits'
  BY <1>9 DEF read_done, returns, wakeup, In, IInv, Fits, Used, pipe
<1>10. ASSUME NEW p \in Proc, NEW e \in End, close(p, e)
      PROVE  Fits'
  BY <1>10 DEF close, Notified, wakeup, Unused, IInv, Fits, Used, pipe
<1>11. ASSUME NEW p \in Proc, exit(p)
      PROVE  Fits'
  BY <1>11 DEF exit, IInv, Fits, Used, pipe
<1>12. ASSUME NEW p \in Proc, enter_exit(p)
      PROVE  Fits'
  BY <1>12 DEF enter_exit, IInv, Fits, Used, pipe
<1>13. ASSUME NEW p \in Proc, kill(p)
      PROVE  Fits'
  BY <1>13 DEF kill, IInv, Fits, Used, pipe
<1>14. CASE UNCHANGED vars
  BY <1>14 DEF vars, pipe, IInv, Fits, Used
<1> QED
  BY <1>1, <1>2, <1>3, <1>4, <1>5, <1>6, <1>7, <1>8, <1>9, <1>10, <1>11, <1>12, <1>13, <1>14,
     NextCases

(* The end of file is real. *)
LEMMA EofStep ==
  ASSUME IInv, [Next]_vars
  PROVE  AtEof'
PROOF
<1>1. ASSUME NEW p \in Proc, NEW o \in End, NEW k \in ReadLengths \cup WriteLengths, call(p, o, k)
      PROVE  AtEof'
  BY <1>1, PipeAssumption
     DEF call, IInv, TypeOK, PC, End, LockHeld, Inside, AtEof, In, Empty, pipe
<1>2. ASSUME NEW p \in Proc, acquire(p)
      PROVE  AtEof'
  BY <1>2, PipeAssumption
     DEF acquire, IInv, TypeOK, PC, End, LockHeld, Inside, AtEof, In, Empty, pipe
<1>3. ASSUME NEW p \in Proc, sleep(p)
      PROVE  AtEof'
  BY <1>3, PipeAssumption
     DEF sleep, IInv, TypeOK, PC, End, LockHeld, Inside, AtEof, In, Empty, pipe
<1>4. ASSUME NEW p \in Proc, NEW b \in Byte, write_byte(p, b)
      PROVE  AtEof'
  BY <1>4, PipeAssumption
     DEF write_byte, In, IInv, TypeOK, PC, End, LockHeld, Inside, AtEof, Empty, pipe
<1>5. ASSUME NEW p \in Proc, write_full(p)
      PROVE  AtEof'
  BY <1>5, PipeAssumption, ZenonT(60)
     DEF write_full, returns, wakeup, In, IInv, TypeOK, PC, End, LockHeld, Inside, AtEof, Empty,
         pipe
<1>6. ASSUME NEW p \in Proc, write_done(p)
      PROVE  AtEof'
  BY <1>6, PipeAssumption
     DEF write_done, returns, wakeup, In, IInv, TypeOK, PC, End, LockHeld, Inside, AtEof, Empty,
         pipe
<1>7. ASSUME NEW p \in Proc, read_wait(p)
      PROVE  AtEof'
  BY <1>7, PipeAssumption
     DEF read_wait, returns, In, IInv, TypeOK, PC, End, LockHeld, Inside, AtEof, Empty, pipe
<1>8. ASSUME NEW p \in Proc, read_byte(p)
      PROVE  AtEof'
  BY <1>8, PipeAssumption
     DEF read_byte, In, IInv, TypeOK, PC, End, LockHeld, Inside, AtEof, Empty, pipe
<1>9. ASSUME NEW p \in Proc, read_done(p)
      PROVE  AtEof'
  BY <1>9, PipeAssumption
     DEF read_done, returns, wakeup, In, IInv, TypeOK, PC, End, LockHeld, Inside, AtEof, Empty,
         pipe
<1>10. ASSUME NEW p \in Proc, NEW e \in End, close(p, e)
      PROVE  AtEof'
  BY <1>10, PipeAssumption
     DEF close, Notified, wakeup, Unused, IInv, TypeOK, PC, End, LockHeld, Inside, AtEof, In,
         Empty, pipe
<1>11. ASSUME NEW p \in Proc, exit(p)
      PROVE  AtEof'
  BY <1>11, PipeAssumption
     DEF exit, IInv, TypeOK, PC, End, LockHeld, Inside, AtEof, In, Empty, pipe
<1>12. ASSUME NEW p \in Proc, enter_exit(p)
      PROVE  AtEof'
  BY <1>12, PipeAssumption
     DEF enter_exit, IInv, TypeOK, PC, End, LockHeld, Inside, AtEof, In, Empty, pipe
<1>13. ASSUME NEW p \in Proc, kill(p)
      PROVE  AtEof'
  BY <1>13, PipeAssumption
     DEF kill, IInv, TypeOK, PC, End, LockHeld, Inside, AtEof, In, Empty, pipe
<1>14. CASE UNCHANGED vars
  BY <1>14 DEF vars, pipe, IInv, TypeOK, PC, End, LockHeld, Inside, AtEof, In, Empty
<1> QED
  BY <1>1, <1>2, <1>3, <1>4, <1>5, <1>6, <1>7, <1>8, <1>9, <1>10, <1>11, <1>12, <1>13, <1>14,
     NextCases

(* The invariant, for every instance of the constants. *)
THEOREM PipeInvariant == Spec => []IInv
PROOF
<1>1. Init => IInv
  <2> SUFFICES ASSUME Init
               PROVE  IInv
    OBVIOUS
  <2>1. TypeOK
    <3>1. data \in [Index -> Byte] /\ got \in Byte
      BY DEF Init
    <3>2. nread \in 0..WORD - 1 /\ nwrite \in 0..WORD - 1
      BY PipeAssumption DEF Init
    <3>3. holds \in [Proc -> SUBSET End]
      BY DEF Init
    <3>4. i \in [Proc -> Nat] /\ \A p \in Proc : i[p] <= n[p]
      BY DEF Init
    <3>5. /\ pc \in [Proc -> PC] /\ op \in [Proc -> End] /\ killed \in [Proc -> BOOLEAN]
          /\ n \in [Proc -> ReadLengths \cup WriteLengths \cup {0}]
      BY DEF Init, PC, End
    <3> QED
      BY <3>1, <3>2, <3>3, <3>4, <3>5 DEF Init, TypeOK
  <2>2. LockHeld /\ AtEof
    BY PipeAssumption DEF Init, LockHeld, Inside, AtEof, In
  <2>3. Ends
    BY PipeAssumption DEF Init, Ends, InCall, End
  <2>4. Fits
    <3>1. Counters /\ Empty
      BY <2>1 DEF Init, TypeOK, Counters, Empty
    <3>2. Used = 0
      BY <3>1, UsedBytes
    <3> QED
      BY <3>2, PipeAssumption DEF Fits
  <2> QED
    BY <2>1, <2>2, <2>3, <2>4 DEF IInv
<1>2. IInv /\ [Next]_vars => IInv'
  <2> SUFFICES ASSUME IInv, [Next]_vars
               PROVE  IInv'
    OBVIOUS
  <2> QED
    BY TypeStep, LockStep, EndsStep, FitsStep, EofStep DEF IInv
<1> QED
  BY <1>1, <1>2, PTL DEF Spec

(* Nobody sleeps on without a reason. *)
LEMMA ReasonsStep ==
  ASSUME IInv, Reasons, [Next]_vars
  PROVE  Reasons'
PROOF
<1>1. ASSUME NEW p \in Proc, NEW o \in End, NEW k \in ReadLengths \cup WriteLengths, call(p, o, k)
      PROVE  Reasons'
  BY <1>1, PipeAssumption
     DEF call, IInv, TypeOK, PC, End, LockHeld, Inside, Ends, InCall, Reasons, Asleep, Holds,
         In, Empty, Full, pipe
<1>2. ASSUME NEW p \in Proc, acquire(p)
      PROVE  Reasons'
  BY <1>2, PipeAssumption
     DEF acquire, IInv, TypeOK, PC, End, LockHeld, Inside, Ends, InCall, Reasons, Asleep, Holds,
         In, Empty, Full, pipe
<1>3. ASSUME NEW p \in Proc, sleep(p)
      PROVE  Reasons'
  BY <1>3, PipeAssumption
     DEF sleep, IInv, TypeOK, PC, End, LockHeld, Inside, Ends, InCall, Reasons, Asleep, Holds,
         In, Empty, Full, pipe
<1>4. ASSUME NEW p \in Proc, NEW b \in Byte, write_byte(p, b)
      PROVE  Reasons'
  BY <1>4, PipeAssumption
     DEF write_byte, In, IInv, TypeOK, PC, End, LockHeld, Inside, Ends, InCall, Reasons, Asleep,
         Holds, Empty, Full, pipe
<1>5. ASSUME NEW p \in Proc, write_full(p)
      PROVE  Reasons'
  <2>1. CASE ~readopen \/ killed[p]
    BY <1>5, <2>1, PipeAssumption
       DEF write_full, returns, In, IInv, TypeOK, PC, End, LockHeld, Inside, Ends, InCall,
           Reasons, Asleep, Holds, Empty, Full, pipe
  <2>2. CASE ~(~readopen \/ killed[p])
    <3>1. \A q \in Proc : pc'[q] = IF q = p THEN "presleep" ELSE wakeup("read")[q]
      BY <1>5, <2>2 DEF write_full, wakeup
    <3> QED
      BY <1>5, <2>2, <3>1
         DEF write_full, wakeup, In, IInv, TypeOK, PC, End, LockHeld, Inside, Ends, InCall,
             Reasons, Asleep, Holds, Empty, Full, pipe
  <2> QED
    BY <2>1, <2>2
<1>6. ASSUME NEW p \in Proc, write_done(p)
      PROVE  Reasons'
  BY <1>6, PipeAssumption, ZenonT(60)
     DEF write_done, returns, wakeup, In, IInv, TypeOK, PC, End, LockHeld, Inside, Ends, InCall,
         Reasons, Asleep, Holds, Empty, Full, pipe
<1>7. ASSUME NEW p \in Proc, read_wait(p)
      PROVE  Reasons'
  BY <1>7, PipeAssumption
     DEF read_wait, returns, In, IInv, TypeOK, PC, End, LockHeld, Inside, Ends, InCall, Reasons,
         Asleep, Holds, Empty, Full, pipe
<1>8. ASSUME NEW p \in Proc, read_byte(p)
      PROVE  Reasons'
  <2>1. /\ lock = p /\ op[p] = "read" /\ pc[p] = "copy" /\ ~Empty
        /\ UNCHANGED <<pc, op, lock, readopen, writeopen>>
        /\ gaveup => Empty' \/ gaveup'
    BY <1>8 DEF read_byte, In, IInv, LockHeld, Inside, Empty
  <2>2. \A q \in Proc : q # p => pc[q] # "presleep"
    BY <2>1 DEF IInv, LockHeld, Inside
  <2>3. ~Holds("write", {"loop"}) /\ Holds("read", {"copy"})'
    BY <2>1 DEF Holds
  <2>4. \A q \in Proc : Asleep(q, "read") => gaveup /\ writeopen
    BY <2>1, <2>3 DEF Reasons, IInv, Ends
  <2> QED
    BY <2>1, <2>2, <2>3, <2>4 DEF Reasons, Asleep, In
<1>9. ASSUME NEW p \in Proc, read_done(p)
      PROVE  Reasons'
  BY <1>9, PipeAssumption
     DEF read_done, returns, wakeup, In, IInv, TypeOK, PC, End, LockHeld, Inside, Ends, InCall,
         Reasons, Asleep, Holds, Empty, Full, pipe
<1>10. ASSUME NEW p \in Proc, NEW e \in End, close(p, e)
      PROVE  Reasons'
  <2>1. CASE \E r \in Proc \ {p} : e \in holds[r]
    BY <1>10, <2>1 DEF close, Reasons, Asleep, Holds, In, Empty, Full
  <2>2. CASE ~\E r \in Proc \ {p} : e \in holds[r]
    <3>1. /\ lock = NoProc /\ UNCHANGED <<lock, op, nread, nwrite, killed>> /\ gaveup' = FALSE
          /\ pc' = wakeup(IF e = "write" THEN "read" ELSE "write")
          /\ writeopen' = (writeopen /\ e # "write")
          /\ readopen' = (readopen /\ e # "read")
          /\ holds' = [holds EXCEPT ![p] = holds[p] \ {e}]
          /\ pc[p] \in {"user", "exit"}
      BY <1>10, <2>2 DEF close, Notified
    <3>2. CASE e = "write"
      BY <3>1, <3>2, PipeAssumption
         DEF wakeup, IInv, TypeOK, PC, End, LockHeld, Inside, Ends, InCall, Reasons, Asleep,
             Holds, In, Empty, Full, pipe
    <3>3. CASE e = "read"
      <4>1. \A q \in Proc : ~Asleep(q, "read")
        BY <1>10, <2>2, <3>1, <3>3 DEF IInv, Ends, InCall, Asleep
      <4> QED
        BY <3>1, <3>3, <4>1, PipeAssumption
           DEF wakeup, IInv, TypeOK, PC, End, LockHeld, Inside, Ends, InCall, Reasons, Asleep,
               Holds, In, Empty, Full, pipe
    <3> QED
      BY <3>2, <3>3 DEF End
  <2> QED
    BY <2>1, <2>2
<1>11. ASSUME NEW p \in Proc, exit(p)
      PROVE  Reasons'
  BY <1>11, PipeAssumption
     DEF exit, IInv, TypeOK, PC, End, LockHeld, Inside, Ends, InCall, Reasons, Asleep, Holds,
         In, Empty, Full, pipe
<1>12. ASSUME NEW p \in Proc, enter_exit(p)
      PROVE  Reasons'
  BY <1>12, PipeAssumption
     DEF enter_exit, IInv, TypeOK, PC, End, LockHeld, Inside, Ends, InCall, Reasons, Asleep,
         Holds, In, Empty, Full, pipe
<1>13. ASSUME NEW p \in Proc, kill(p)
      PROVE  Reasons'
  BY <1>13, PipeAssumption
     DEF kill, IInv, TypeOK, PC, End, LockHeld, Inside, Ends, InCall, Reasons, Asleep, Holds,
         In, Empty, Full, pipe
<1>14. CASE UNCHANGED vars
  BY <1>14
     DEF vars, pipe, IInv, TypeOK, PC, End, LockHeld, Inside, Ends, InCall, Reasons, Asleep,
         Holds, In, Empty, Full
<1> QED
  BY <1>1, <1>2, <1>3, <1>4, <1>5, <1>6, <1>7, <1>8, <1>9, <1>10, <1>11, <1>12, <1>13, <1>14,
     NextCases

(* pipe.c keeps its promises to any number of readers and writers: no      *)
(* sleeper is left behind but by a killed writer that gives up on a full   *)
(* pipe (pipe.c:86), end of file is real, and the page is freed after its  *)
(* last use.                                                               *)
THEOREM PipeIsSafe == Spec => []PipeSafe
PROOF
<1>1. Init => Reasons
  BY DEF Init, Reasons, In, Asleep
<1>2. IInv /\ Reasons /\ [Next]_vars => Reasons'
  BY ReasonsStep
<1>3. IInv /\ Reasons => PipeSafe
  <2> SUFFICES ASSUME IInv, Reasons
               PROVE  PipeSafe
    OBVIOUS
  <2>1. NoMissedWakeup
    BY DEF Reasons, NoMissedWakeup, Holds
  <2>2. FreedUnused
    BY DEF IInv, TypeOK, End, PC, Ends, InCall, FreedUnused
  <2>3. EofMeansClosed
    BY DEF IInv, AtEof, EofMeansClosed
  <2> QED
    BY <2>1, <2>2, <2>3 DEF IInv, PipeSafe
<1> QED
  BY <1>1, <1>2, <1>3, PipeInvariant, PTL DEF Spec

-----------------------------------------------------------------------------
(* The pipe implements Channel. *)

(* The bytes from counter r on *)
Between(d, r, u) == [k \in 1..u |-> d[((r + k - 1) % WORD) % PIPESIZE]]

(* A function on 1..u is a sequence of length u. *)
LEMMA SequenceOf ==
  ASSUME NEW S, NEW u \in Nat, NEW f \in [1..u -> S]
  PROVE  f \in Seq(S) /\ Len(f) = u
PROOF
  OBVIOUS

(* The kth byte is at the place of counter r + k - 1, which need not be    *)
(* wrapped to find it.                                                     *)
LEMMA BytesBetween ==
  ASSUME NEW r \in 0..WORD - 1, NEW u \in 0..PIPESIZE, NEW d \in [Index -> Byte]
  PROVE  /\ Between(d, r, u) \in Seq(Byte) /\ Len(Between(d, r, u)) = u
         /\ \A k \in 1..u : Between(d, r, u)[k] = d[(r + k - 1) % PIPESIZE]
PROOF
<1>1. WORD \in Nat \ {0} /\ PIPESIZE \in Nat \ {0} /\ PIPESIZE < WORD /\ WORD % PIPESIZE = 0
  BY PipeAssumption
<1>4. ASSUME NEW k \in 1..u
      PROVE  /\ ((r + k - 1) % WORD) % PIPESIZE = (r + k - 1) % PIPESIZE
             /\ (r + k - 1) % PIPESIZE \in Index
  <2> DEFINE x == r + k - 1
  <2>1. x \in 0..2 * WORD - 1 /\ x \in Nat
    BY <1>1
  <2> HIDE DEF x
  <2>2. (x % WORD) % PIPESIZE = x % PIPESIZE
    BY <2>1, <1>1, WrapKeepsPlace
  <2>3. x % PIPESIZE \in Index
    BY <2>1, <1>1, DivMod DEF Index
  <2> QED
    BY <2>2, <2>3 DEF x
<1>5. \A k \in 1..u : d[((r + k - 1) % WORD) % PIPESIZE] \in Byte
  BY <1>4
<1>6. Between(d, r, u) \in [1..u -> Byte]
  BY <1>5, Zenon DEF Between
<1>7. Between(d, r, u) \in Seq(Byte) /\ Len(Between(d, r, u)) = u
  BY <1>1, <1>6, SequenceOf
<1>8. \A k \in 1..u : Between(d, r, u)[k] = d[(r + k - 1) % PIPESIZE]
  BY <1>4 DEF Between
<1> QED
  BY <1>7, <1>8

(* The bytes under way. *)
LEMMA QueueBytes ==
  ASSUME IInv
  PROVE  /\ Used \in 0..PIPESIZE
         /\ Queue \in Seq(Byte) /\ Len(Queue) = Used
         /\ \A k \in 1..Used : Queue[k] = data[(nread + k - 1) % PIPESIZE]
PROOF
<1>1. Used \in 0..PIPESIZE
  BY PipeAssumption, UsedBytes DEF IInv, Fits, TypeOK, Counters
<1>2. nread \in 0..WORD - 1 /\ data \in [Index -> Byte]
  BY DEF IInv, TypeOK
<1>3. Queue = Between(data, nread, Used)
  BY DEF Queue, Between
<1> QED
  BY <1>1, <1>2, <1>3, BytesBetween

(* The same after a step. *)
LEMMA QueueBytesNext ==
  ASSUME IInv', Used' \in 0..PIPESIZE
  PROVE  /\ Queue' \in Seq(Byte) /\ Len(Queue') = Used'
         /\ \A k \in 1..Used' : Queue'[k] = data'[(nread' + k - 1) % PIPESIZE]
PROOF
<1>2. nread' \in 0..WORD - 1 /\ data' \in [Index -> Byte]
  BY DEF IInv, TypeOK
<1>3. Queue' = Between(data', nread', Used')
  BY DEF Queue, Between
<1> QED
  BY <1>2, <1>3, BytesBetween

(* A byte that is written is added at the end: its place is none of those  *)
(* in use.                                                                 *)
LEMMA PutAppends ==
  ASSUME IInv, IInv', NEW p \in Proc, NEW b \in Byte, write_byte(p, b)
  PROVE  Len(Queue) < PIPESIZE /\ Queue' = Append(Queue, b)
PROOF
<1>1. WORD \in Nat \ {0} /\ PIPESIZE \in Nat \ {0} /\ PIPESIZE < WORD /\ WORD % PIPESIZE = 0
  BY PipeAssumption
<1>2. Counters /\ nread \in 0..WORD - 1 /\ nwrite \in 0..WORD - 1 /\ data \in [Index -> Byte]
  BY DEF IInv, TypeOK, Counters
<1>3. /\ Used \in 0..PIPESIZE - 1 /\ Used' = Used + 1 /\ nread' = nread
      /\ data' = [data EXCEPT ![Place] = b]
  <2>1. Used # PIPESIZE
    BY <1>2, UsedBytes DEF write_byte
  <2>2. Used' = Used + 1
    BY <1>2, UsedAfter DEF write_byte, IInv, Fits
  <2> QED
    BY <1>1, <2>1, <2>2, QueueBytes DEF write_byte
<1>4. Place = (nread + Used) % PIPESIZE /\ Place \in Index
  <2> DEFINE x == nread + Used
  <2>1. x \in 0..2 * WORD - 1 /\ nwrite = x % WORD
    BY <1>1, <1>2, <1>3, UsedBytes, WrapOnce
  <2>2. (x % WORD) % PIPESIZE = x % PIPESIZE
    BY <2>1, <1>1, WrapKeepsPlace
  <2>3. nwrite % PIPESIZE \in Index
    BY <1>1, <1>2, DivMod DEF Index
  <2> QED
    BY <2>1, <2>2, <2>3 DEF Place
<1>5. ASSUME NEW k \in 1..Used
      PROVE  Queue'[k] = Queue[k]
  <2> DEFINE x == nread + k - 1
             y == nread + Used
  <2>1. x \in Nat /\ y \in Nat /\ x < y /\ y < x + PIPESIZE
    BY <1>1, <1>2, <1>3
  <2>2. x % PIPESIZE # y % PIPESIZE
    BY <2>1, <1>1, RemainderUnique
  <2>3. x % PIPESIZE \in Index
    BY <2>1, <1>1, DivMod DEF Index
  <2>4. data'[x % PIPESIZE] = data[x % PIPESIZE]
    BY <1>2, <1>3, <1>4, <2>2, <2>3
  <2>5. Queue'[k] = data'[(nread' + k - 1) % PIPESIZE]
    BY <1>1, <1>3, QueueBytesNext
  <2> QED
    BY <1>3, <2>4, <2>5, QueueBytes
<1>6. Queue'[Used + 1] = b
  <2>1. Queue'[Used + 1] = data'[(nread' + (Used + 1) - 1) % PIPESIZE]
    BY <1>1, <1>3, QueueBytesNext
  <2>2. nread' + (Used + 1) - 1 = nread + Used
    BY <1>1, <1>2, <1>3
  <2> QED
    BY <1>2, <1>3, <1>4, <2>1, <2>2
<1>7. /\ Queue' \in Seq(Byte) /\ Len(Queue') = Len(Queue) + 1 /\ Queue \in Seq(Byte)
      /\ Len(Queue) = Used
  BY <1>1, <1>3, QueueBytes, QueueBytesNext
<1> QED
  BY <1>1, <1>3, <1>5, <1>6, <1>7

(* The byte that is read is the oldest one, and the rest stay in order. *)
LEMMA GetTakesHead ==
  ASSUME IInv, IInv', NEW p \in Proc, read_byte(p)
  PROVE  Queue # <<>> /\ got' = Head(Queue) /\ Queue' = Tail(Queue)
PROOF
<1>1. WORD \in Nat \ {0} /\ PIPESIZE \in Nat \ {0} /\ PIPESIZE < WORD /\ WORD % PIPESIZE = 0
  BY PipeAssumption
<1>2. Counters /\ nread \in 0..WORD - 1
  BY DEF IInv, TypeOK, Counters
<1>3. /\ Used \in 1..PIPESIZE /\ Used' = Used - 1 /\ data' = data
      /\ nread' = IF nread + 1 = WORD THEN 0 ELSE nread + 1
  <2>1. Used # 0
    BY <1>2, UsedBytes DEF read_byte
  <2>2. Used' = Used - 1
    BY <1>2, UsedAfter DEF read_byte
  <2>3. nread' = IF nread + 1 = WORD THEN 0 ELSE nread + 1
    BY <1>2, Distance DEF read_byte
  <2> QED
    BY <1>1, <2>1, <2>2, <2>3, QueueBytes DEF read_byte
<1>4. got' = Queue[1]
  <2>1. Queue[1] = data[(nread + 1 - 1) % PIPESIZE]
    BY <1>1, <1>3, QueueBytes
  <2>2. nread + 1 - 1 = nread
    BY <1>2
  <2> QED
    BY <2>1, <2>2 DEF read_byte
<1>5. ASSUME NEW k \in 1..Used'
      PROVE  Queue'[k] = Queue[k + 1]
  <2>1. Queue'[k] = data[(nread' + k - 1) % PIPESIZE]
    BY <1>1, <1>3, QueueBytesNext
  <2>2. k + 1 \in 1..Used
    BY <1>3
  <2>3. Queue[k + 1] = data[(nread + (k + 1) - 1) % PIPESIZE]
    BY <2>2, QueueBytes
  <2>4. nread + (k + 1) - 1 = nread + k /\ nread + k \in 0..2 * WORD - 1
    BY <1>1, <1>2, <1>3
  <2>5. (nread' + k - 1) % PIPESIZE = (nread + k) % PIPESIZE
    <3>1. CASE nread + 1 = WORD
      <4>1. nread' + k - 1 = k - 1 /\ nread + k = WORD + (k - 1) /\ k - 1 \in 0..WORD - 1
        BY <3>1, <1>1, <1>2, <1>3
      <4>2. (nread + k) % WORD = k - 1
        BY <4>1, <2>4, <1>1, WrapOnce
      <4> QED
        BY <4>1, <4>2, <2>4, <1>1, WrapKeepsPlace
    <3>2. CASE nread + 1 # WORD
      BY <3>2, <1>2, <1>3
    <3> QED
      BY <3>1, <3>2
  <2> QED
    BY <2>1, <2>3, <2>4, <2>5
<1>6. /\ Queue' \in Seq(Byte) /\ Len(Queue') = Len(Queue) - 1
      /\ Queue \in Seq(Byte) /\ Len(Queue) = Used /\ Len(Queue') = Used'
  BY <1>1, <1>3, QueueBytes, QueueBytesNext
<1>7. /\ Tail(Queue) \in Seq(Byte) /\ Len(Tail(Queue)) = Used'
      /\ \A k \in 1..Used' : Tail(Queue)[k] = Queue[k + 1]
  BY <1>3, <1>6
<1> QED
  BY <1>1, <1>3, <1>4, <1>5, <1>6, <1>7

(* Nothing else touches the bytes: every other step leaves the channel as  *)
(* it is, or closes one of its ends.                                       *)
LEMMA ChannelStep ==
  ASSUME IInv, IInv', [Next]_vars
  PROVE  [C!Next]_(C!vars)
PROOF
<1> DEFINE Same == UNCHANGED <<data, nread, nwrite, got>>
           SameEnds == UNCHANGED <<readopen, writeopen>>
<1>0. Same => Queue' = Queue /\ got' = got
  BY DEF Queue, Used
<1>1. ASSUME Same, SameEnds
      PROVE  [C!Next]_(C!vars)
  BY <1>0, <1>1 DEF C!vars
<1>2. ASSUME NEW p \in Proc, NEW b \in Byte, write_byte(p, b)
      PROVE  [C!Next]_(C!vars)
  <2>1. writeopen = TRUE
    BY <1>2 DEF write_byte, In, IInv, TypeOK, Ends, InCall
  <2>2. C!Put(b)
    BY <1>2, <2>1, PutAppends DEF write_byte, C!Put
  <2> QED
    BY <2>2 DEF C!Next
<1>3. ASSUME NEW p \in Proc, read_byte(p)
      PROVE  [C!Next]_(C!vars)
  <2>1. readopen = TRUE
    BY <1>3 DEF read_byte, In, IInv, TypeOK, Ends, InCall
  <2>2. C!Get
    BY <1>3, <2>1, GetTakesHead DEF read_byte, C!Get
  <2> QED
    BY <2>2 DEF C!Next
<1>4. ASSUME NEW p \in Proc, NEW e \in End, close(p, e)
      PROVE  [C!Next]_(C!vars)
  <2>1. Same
    BY <1>4 DEF close
  <2>2. CASE \E r \in Proc \ {p} : e \in holds[r]
    BY <1>1, <1>4, <2>1, <2>2 DEF close
  <2>3. CASE ~\E r \in Proc \ {p} : e \in holds[r]
    <3>1. CASE e = "write"
      <4>1. writeopen = TRUE /\ writeopen' = FALSE /\ readopen' = readopen
        BY <1>4, <2>3, <3>1 DEF close, IInv, TypeOK, Ends
      <4> QED
        BY <4>1, <2>1, <1>0 DEF C!Next, C!CloseWrite
    <3>2. CASE e = "read"
      <4>1. readopen = TRUE /\ readopen' = FALSE /\ writeopen' = writeopen
        BY <1>4, <2>3, <3>2 DEF close, IInv, TypeOK, Ends
      <4> QED
        BY <4>1, <2>1, <1>0 DEF C!Next, C!CloseRead
    <3> QED
      BY <3>1, <3>2 DEF End
  <2> QED
    BY <2>2, <2>3
<1>5. ASSUME NEW p \in Proc,
             \/ \E o \in End, k \in ReadLengths \cup WriteLengths : call(p, o, k)
             \/ acquire(p) \/ sleep(p) \/ write_full(p) \/ write_done(p) \/ read_wait(p)
             \/ read_done(p) \/ exit(p) \/ enter_exit(p) \/ kill(p)
      PROVE  Same /\ SameEnds
  BY <1>5 DEF call, acquire, sleep, write_full, write_done, read_wait, read_done, exit,
              enter_exit, kill, pipe
<1>6. CASE UNCHANGED vars
  BY <1>1, <1>6 DEF vars
<1> QED
  BY <1>1, <1>2, <1>3, <1>4, <1>5, <1>6, NextCases

(* The pipe is a bounded queue of bytes, for every PIPESIZE that divides   *)
(* the word and any number of readers and writers: pipewrite and piperead  *)
(* lose, repeat, overwrite and reorder nothing, also when nread and nwrite *)
(* wrap.                                                                   *)
THEOREM PipeImplementsChannel == Spec => ChannelSpec
PROOF
<1>1. Init => C!Init
  <2> SUFFICES ASSUME Init
               PROVE  C!Init
    OBVIOUS
  <2>1. Counters /\ Empty
    BY PipeAssumption DEF Init, Counters, Empty
  <2>2. Used = 0
    BY <2>1, UsedBytes
  <2>3. Queue = <<>>
    BY <2>2 DEF Queue
  <2> QED
    BY <2>3 DEF Init, C!Init
<1>2. IInv /\ IInv' /\ [Next]_vars => [C!Next]_(C!vars)
  BY ChannelStep
<1> QED
  BY <1>1, <1>2, PipeInvariant, PTL DEF Spec, ChannelSpec, C!Spec

=============================================================================
