------------------------------ MODULE BufCache ------------------------------
(***************************************************************************)
(* The buffer cache (bio.c), its sleep locks (sleeplock.c) and the queue   *)
(* of the disk driver (ide.c).  One action is one critical section of      *)
(* bcache.lock, of a sleep lock's spin lock or of idelock, with the code   *)
(* of the lock's holder that follows it and that nobody else can observe.  *)
(* The callers are system calls and the log: a process reads a block, may  *)
(* read a second one while it holds the first (Nests), changes what it     *)
(* holds with bwrite or log_write, and releases it.                        *)
(***************************************************************************)
EXTENDS Naturals, Sequences, FiniteSets

CONSTANTS
  Proc,         \* processes
  Buf,          \* bcache.buf, NBUF of them
  Block,        \* block numbers
  Value,        \* contents of a block
  Image,        \* what is on the disk at first
  Written,      \* the blocks that callers write
  Faulty,       \* the blocks for which a read may fail
  NoProc, NoBuf, NoBlock,
  Nests,        \* <<j, k>>: callers read k # j while they hold j
  MaxPinned     \* blocks that log_write keeps in the cache, at most

Related(j, k) == <<j, k>> \in Nests \/ <<k, j>> \in Nests

(* No caller holds three blocks: bmap holds the indirect block around      *)
(* balloc, install_trans a block of the log and the block it is for.       *)
ASSUME BufCacheAssumption ==
  /\ NoProc \notin Proc /\ NoBuf \notin Buf /\ NoBlock \notin Block
  /\ IsFiniteSet(Buf) /\ IsFiniteSet(Proc)
  /\ Buf # {} /\ Value # {}
  /\ Image \in [Block -> Value] /\ Written \subseteq Block /\ Faulty \subseteq Block
  /\ Nests \subseteq Block \X Block /\ \A k \in Block : <<k, k>> \notin Nests
  /\ \A i, j, k \in Block : ~(Related(i, j) /\ Related(j, k) /\ Related(i, k))
  /\ MaxPinned \in Nat

VARIABLES
  blockno, valid, dirty, refcnt, data,   \* struct buf; valid and dirty are its flags
  locked,                                \* b->lock.locked
  lru,                                   \* the list from bcache.head.next on
  idequeue,                              \* its head is being read or written
  disk,
  panicked,
  pc,
  want,                                  \* the argument of bread
  cur,                                   \* the buffer a process waits for
  held                                   \* the buffers it has locked

bufs == <<blockno, refcnt, lru>>
vars == <<blockno, valid, dirty, refcnt, data, locked, lru, idequeue, disk, panicked,
          pc, want, cur, held>>

PC == {"run", "lock", "asleep", "iderw", "disk", "woken", "unref"}

(* After binit: the buffers are in the list and, as dev is 0, match no block. *)
Init ==
  /\ blockno = [b \in Buf |-> NoBlock]
  /\ valid = [b \in Buf |-> FALSE]
  /\ dirty = [b \in Buf |-> FALSE]
  /\ refcnt = [b \in Buf |-> 0]
  /\ \E v \in Value : data = [b \in Buf |-> v]
  /\ locked = [b \in Buf |-> FALSE]
  /\ lru \in {s \in [1..Cardinality(Buf) -> Buf] : {s[i] : i \in DOMAIN s} = Buf}
  /\ idequeue = <<>>
  /\ disk = Image
  /\ panicked = FALSE
  /\ pc = [p \in Proc |-> "run"]
  /\ want = [p \in Proc |-> NoBlock]
  /\ cur = [p \in Proc |-> NoBuf]
  /\ held = [p \in Proc |-> {}]

-----------------------------------------------------------------------------

At(p, at) == ~panicked /\ pc[p] = at
goto(p, to) == pc' = [pc EXCEPT ![p] = to]

(* Mutant: the lookup passes over a buffer that is still being read. *)
Cached_ValidOnly(k) == {b \in Buf : blockno[b] = k /\ valid[b]}

Cached(k) == {b \in Buf : blockno[b] = k}

(* Mutant: B_DIRTY is not tested. *)
Recyclable_Dirty(b) == refcnt[b] = 0

(* What the second loop of bget accepts, and the buffer it finds: it looks *)
(* from the least recently used end of the list.                           *)
Recyclable(b) == refcnt[b] = 0 /\ ~dirty[b]
Victim ==
  LET free == {i \in DOMAIN lru : Recyclable(lru[i])}
  IN  lru[CHOOSE i \in free : \A j \in free : j <= i]

bget_found(p, k) ==
  \E b \in Cached(k) :
    /\ refcnt' = [refcnt EXCEPT ![b] = @ + 1]
    /\ cur' = [cur EXCEPT ![p] = b]
    /\ goto(p, "lock")
    /\ UNCHANGED <<blockno, valid, panicked>>

bget_recycle(p, k) ==
  /\ Cached(k) = {}
  /\ \E b \in Buf : Recyclable(b)
  /\ blockno' = [blockno EXCEPT ![Victim] = k]
  /\ valid' = [valid EXCEPT ![Victim] = FALSE]
  /\ refcnt' = [refcnt EXCEPT ![Victim] = 1]
  /\ cur' = [cur EXCEPT ![p] = Victim]
  /\ goto(p, "lock")
  /\ UNCHANGED panicked

bget_panic(k) ==
  /\ Cached(k) = {} /\ \A b \in Buf : ~Recyclable(b)
  /\ panicked' = TRUE
  /\ UNCHANGED <<blockno, valid, refcnt, cur, pc>>

(* bread calls bget; callers that already hold a block keep to Nests. *)
bget(p, k) ==
  /\ At(p, "run")
  /\ \A b \in held[p] : <<blockno[b], k>> \in Nests
  /\ want' = [want EXCEPT ![p] = k]
  /\ bget_found(p, k) \/ bget_recycle(p, k) \/ bget_panic(k)
  /\ UNCHANGED <<dirty, data, locked, lru, idequeue, disk, held>>

(* The end of bread: the caller has the buffer. *)
bread_returns(p) ==
  /\ held' = [held EXCEPT ![p] = @ \cup {cur[p]}]
  /\ want' = [want EXCEPT ![p] = NoBlock]
  /\ cur' = [cur EXCEPT ![p] = NoBuf]
  /\ goto(p, "run")

acquiresleep_wait(p) ==
  /\ At(p, "lock") /\ locked[cur[p]]
  /\ goto(p, "asleep")
  /\ UNCHANGED <<bufs, valid, dirty, data, locked, idequeue, disk, panicked, want, cur, held>>

(* acquiresleep and, back in bread, the test of B_VALID. *)
acquiresleep(p) ==
  /\ At(p, "lock") /\ ~locked[cur[p]]
  /\ locked' = [locked EXCEPT ![cur[p]] = TRUE]
  /\ IF valid[cur[p]]
     THEN bread_returns(p)
     ELSE goto(p, "iderw") /\ UNCHANGED <<want, cur, held>>
  /\ UNCHANGED <<bufs, valid, dirty, data, idequeue, disk, panicked>>

(* The disk is given a command; for a write, the data go with it. *)
idestart(b, dirt, dat) ==
  disk' = IF dirt[b] THEN [disk EXCEPT ![blockno[b]] = dat[b]] ELSE disk

(* Mutant: the request goes to the front. *)
Queued_Front(b) == <<b>> \o idequeue

Queued(b) == Append(idequeue, b)

(* iderw up to the sleep, with the flags and data its caller has set. *)
iderw(p, b, dirt, dat) ==
  /\ panicked' = (~locked[b] \/ (valid[b] /\ ~dirt[b]))
  /\ idequeue' = Queued(b)
  /\ IF idequeue = <<>> THEN idestart(b, dirt, dat) ELSE UNCHANGED disk
  /\ goto(p, "disk")

bread_iderw(p) ==
  /\ At(p, "iderw")
  /\ iderw(p, cur[p], dirty, data)
  /\ UNCHANGED <<bufs, valid, dirty, data, locked, want, cur, held>>

(* The caller puts v into a buffer it holds and writes it to the disk. *)
bwrite(p, b, v) ==
  /\ At(p, "run") /\ b \in held[p] /\ blockno[b] \in Written
  /\ data' = [data EXCEPT ![b] = v]
  /\ dirty' = [dirty EXCEPT ![b] = TRUE]
  /\ cur' = [cur EXCEPT ![p] = b]
  /\ iderw(p, b, dirty', data')
  /\ UNCHANGED <<bufs, valid, locked, want, held>>

Pinned == {b \in Buf : dirty[b] /\ \A i \in DOMAIN idequeue : idequeue[i] # b}

(* The caller puts v into a buffer it holds; log_write marks it dirty, so  *)
(* that it stays in the cache until install_trans writes it.               *)
log_write(p, b, v) ==
  /\ At(p, "run") /\ b \in held[p] /\ blockno[b] \in Written
  /\ b \in Pinned \/ Cardinality(Pinned) < MaxPinned
  /\ data' = [data EXCEPT ![b] = v]
  /\ dirty' = [dirty EXCEPT ![b] = TRUE]
  /\ UNCHANGED <<bufs, valid, locked, idequeue, disk, panicked, pc, want, cur, held>>

(* The disk has done the request at the head of the queue; err: idewait    *)
(* reports an error, and nothing is read.                                  *)
ideintr(err) ==
  LET b == Head(idequeue)
      rest == Tail(idequeue)
  IN  /\ ~panicked /\ idequeue # <<>>
      /\ err => blockno[b] \in Faulty
      /\ idequeue' = rest
      /\ data' = IF dirty[b] \/ err THEN data ELSE [data EXCEPT ![b] = disk[blockno[b]]]
      /\ valid' = [valid EXCEPT ![b] = TRUE]
      /\ dirty' = [dirty EXCEPT ![b] = FALSE]
      /\ pc' = [p \in Proc |-> IF pc[p] = "disk" /\ cur[p] = b THEN "woken" ELSE pc[p]]
      /\ IF rest # <<>> THEN idestart(Head(rest), dirty, data) ELSE UNCHANGED disk
      /\ UNCHANGED <<bufs, locked, panicked, want, cur, held>>

(* The loop in iderw tests the flags again. *)
iderw_woken(p) ==
  /\ At(p, "woken")
  /\ IF valid[cur[p]] /\ ~dirty[cur[p]]
     THEN bread_returns(p)
     ELSE goto(p, "disk") /\ UNCHANGED <<want, cur, held>>
  /\ UNCHANGED <<bufs, valid, dirty, data, locked, idequeue, disk, panicked>>

Woken(b) == [q \in Proc |-> IF pc[q] = "asleep" /\ cur[q] = b THEN "lock" ELSE pc[q]]

(* brelse up to releasesleep, which wakes all who wait for the lock. *)
brelse(p, b) ==
  /\ At(p, "run") /\ b \in held[p]
  /\ panicked' = ~locked[b]
  /\ locked' = [locked EXCEPT ![b] = FALSE]
  /\ held' = [held EXCEPT ![p] = @ \ {b}]
  /\ cur' = [cur EXCEPT ![p] = b]
  /\ pc' = [Woken(b) EXCEPT ![p] = "unref"]
  /\ UNCHANGED <<bufs, valid, dirty, data, idequeue, disk, want>>

(* The list with b unlinked and put first. *)
Front(b) ==
  LET i == CHOOSE j \in DOMAIN lru : lru[j] = b
  IN  [j \in DOMAIN lru |-> IF j = 1 THEN b ELSE IF j <= i THEN lru[j - 1] ELSE lru[j]]

(* The rest of brelse, under bcache.lock. *)
brelse_unref(p) ==
  LET b == cur[p]
  IN  /\ At(p, "unref")
      /\ refcnt' = [refcnt EXCEPT ![b] = @ - 1]
      /\ lru' = IF refcnt[b] = 1 THEN Front(b) ELSE lru
      /\ cur' = [cur EXCEPT ![p] = NoBuf]
      /\ goto(p, "run")
      /\ UNCHANGED <<blockno, valid, dirty, data, locked, idequeue, disk, panicked, want, held>>

-----------------------------------------------------------------------------

(* The steps of a process that is inside one of the functions. *)
Step(p) ==
  acquiresleep_wait(p) \/ acquiresleep(p) \/ bread_iderw(p) \/ iderw_woken(p) \/ brelse_unref(p)

Next ==
  \/ \E err \in BOOLEAN : ideintr(err)
  \/ \E p \in Proc :
       \/ Step(p)
       \/ \E k \in Block : bget(p, k)
       \/ \E b \in Buf : brelse(p, b) \/ \E v \in Value : bwrite(p, b, v) \/ log_write(p, b, v)
  \/ panicked /\ UNCHANGED vars

Spec == Init /\ [][Next]_vars

(* A process in the kernel keeps running, and one that wants a lock gets   *)
(* it if it is free again and again; callers give back each buffer; the    *)
(* disk answers every command.                                             *)
FairSpec ==
  /\ Spec
  /\ WF_vars(\E err \in BOOLEAN : ideintr(err))
  /\ \A p \in Proc :
       /\ WF_vars(Step(p)) /\ SF_vars(acquiresleep(p))
       /\ \A b \in Buf : SF_vars(brelse(p, b))

-----------------------------------------------------------------------------

TypeOK ==
  /\ blockno \in [Buf -> Block \cup {NoBlock}]
  /\ valid \in [Buf -> BOOLEAN] /\ dirty \in [Buf -> BOOLEAN]
  /\ refcnt \in [Buf -> Nat]
  /\ data \in [Buf -> Value]
  /\ locked \in [Buf -> BOOLEAN]
  /\ lru \in Seq(Buf)
  /\ idequeue \in Seq(Buf)
  /\ disk \in [Block -> Value]
  /\ panicked \in BOOLEAN
  /\ pc \in [Proc -> PC]
  /\ want \in [Proc -> Block \cup {NoBlock}]
  /\ cur \in [Proc -> Buf \cup {NoBuf}]
  /\ held \in [Proc -> SUBSET Buf]

(* What a reader of the block finds: the valid buffer, or else the disk. *)
Contents(k) ==
  LET cached == {b \in Cached(k) : valid[b]}
  IN  IF cached = {} THEN disk[k] ELSE data[CHOOSE b \in cached : TRUE]

Holder(k) ==
  LET ps == {p \in Proc : \E b \in held[p] : blockno[b] = k}
  IN  IF ps = {} THEN NoProc ELSE CHOOSE p \in ps : TRUE

S == INSTANCE BlockStore WITH
       Good <- Block \ Faulty,
       mem <- [k \in Block \ Faulty |-> Contents(k)],
       holder <- [k \in Block |-> Holder(k)]

(* The cache is a memory of blocks with a lock each: bread gives the block *)
(* that was asked for, to one process at a time, with what was written     *)
(* last, whatever was recycled, pinned or queued meanwhile; what a failed  *)
(* read leaves in a buffer is never taken for another block.               *)
StoreSpec == S!Spec

(* A block is in at most one buffer: two processes that miss the same      *)
(* block at the same time do not both recycle a buffer for it.             *)
OneBufferPerBlock ==
  \A b, c \in Buf : blockno[b] = blockno[c] /\ blockno[b] # NoBlock => b = c

(* refcnt counts the processes that have or wait for the buffer, so that   *)
(* none is recycled in the windows of bget and brelse where its lock is    *)
(* free.                                                                   *)
RefcntExact ==
  \A b \in Buf :
    refcnt[b] = Cardinality({p \in Proc : b \in held[p] \cup {cur[p]}})

(* A process sleeps on a buffer's lock only while somebody has it, and on  *)
(* the disk only while its buffer is in the queue.                         *)
NoMissedWakeup ==
  \A p \in Proc :
    /\ pc[p] = "asleep" => locked[cur[p]]
    /\ pc[p] = "disk" => \E i \in DOMAIN idequeue : idequeue[i] = cur[p]

(* The processes that have or want a buffer *)
Active == {p \in Proc : want[p] # NoBlock \/ cur[p] # NoBuf \/ held[p] # {}}

(* The only panic of these files that can be reached is that of bget, "no  *)
(* buffers", and no earlier than the buffers run out: the blocks pinned by *)
(* the log and two for each process in the file system, the one that asks  *)
(* included, are more than there are.  (NBUF is no larger than LOGSIZE, so *)
(* a full log and a few processes are enough.)  No request is made twice   *)
(* or without the lock, and no buffer leaks.                               *)
PanicMeansExhausted ==
  panicked => Cardinality(Buf) < Cardinality(Pinned) + 2 * Cardinality(Active)

(* Buffers are shared without confusion (bio.c, sleeplock.c, ide.c): one   *)
(* per block, counted exactly, never waited for in vain, and never short   *)
(* but when the callers and the log need more than there are.              *)
CacheSafe ==
  TypeOK /\ OneBufferPerBlock /\ RefcntExact /\ NoMissedWakeup /\ PanicMeansExhausted

(* bread returns, although locks and the disk queue are waited for. *)
BreadReturns == \A p \in Proc : want[p] # NoBlock ~> want[p] = NoBlock

=============================================================================
