--------------------------- MODULE BufCacheProofs ---------------------------
(***************************************************************************)
(* Proofs about BufCache, for all sets of processes, buffers and blocks.   *)
(***************************************************************************)
EXTENDS BufCache, Functions, FiniteSetTheorems, WellFoundedInduction, TLAPS

-----------------------------------------------------------------------------
(* The inductive invariant. *)

(* The buffers a process has a reference to, and the processes that have   *)
(* one to a buffer.                                                        *)
Mine(p) == {b \in Buf : b \in held[p] \cup {cur[p]}}
Users(b) == {p \in Proc : b \in held[p] \cup {cur[p]}}

(* The process has the buffer's lock. *)
Owns(p, b) == b \in held[p] \/ (pc[p] \in {"iderw", "disk", "woken"} /\ cur[p] = b)

(* The sequence q contains b; q has no element twice. *)
Has(q, b) == \E i \in DOMAIN q : q[i] = b
Distinct(q) == \A i, j \in DOMAIN q : q[i] = q[j] => i = j

(* The list holds every buffer, so that the scan of bget sees them all. *)
Listed == \A b \in Buf : \E i \in DOMAIN lru : lru[i] = b

(* Where a process is, what it has asked for and what it is given.  A read *)
(* in progress is of the block asked for; a buffer that waits to be read   *)
(* is not valid, and one that the disk has served is.                      *)
Places ==
  \A p \in Proc :
    /\ pc[p] = "run" => cur[p] = NoBuf /\ (want[p] = NoBlock \/ panicked)
    /\ pc[p] # "run" => cur[p] \in Buf
    /\ pc[p] \in {"lock", "asleep", "iderw"} => cur[p] \notin held[p] /\ want[p] = blockno[cur[p]]
    /\ pc[p] = "iderw" => ~valid[cur[p]]
    /\ pc[p] \in {"disk", "woken"} =>
         IF cur[p] \in held[p] THEN want[p] = NoBlock ELSE want[p] = blockno[cur[p]]
    /\ pc[p] = "disk" /\ cur[p] \notin held[p] => ~valid[cur[p]]
    /\ pc[p] = "woken" => valid[cur[p]] /\ ~dirty[cur[p]]
    /\ pc[p] = "unref" => cur[p] \notin held[p] /\ want[p] = NoBlock

(* Sleep locks: a buffer is locked by one process, and waited for only     *)
(* while it is.                                                            *)
Locks ==
  /\ \A b \in Buf : locked[b] <=> \E p \in Proc : Owns(p, b)
  /\ \A p, q \in Proc : \A b \in Buf : Owns(p, b) /\ Owns(q, b) => p = q
  /\ \A p \in Proc : pc[p] = "asleep" => locked[cur[p]]

(* What a process has in use names a block, and is valid once bread has    *)
(* returned it.                                                            *)
Flags ==
  /\ \A p \in Proc : \A b \in Mine(p) : blockno[b] \in Block
  /\ \A p \in Proc : \A b \in held[p] : valid[b]
  /\ \A b \in Buf : dirty[b] => valid[b]
  /\ \A b \in Buf : valid[b] => blockno[b] \in Block

(* The queue of the disk: the processes that wait for the disk, each once. *)
Queue ==
  /\ Distinct(idequeue)
  /\ \A p \in Proc : pc[p] = "disk" => Has(idequeue, cur[p])
  /\ \A b \in Buf : Has(idequeue, b) => \E p \in Proc : pc[p] = "disk" /\ cur[p] = b
  /\ \A p \in Proc : pc[p] = "disk" /\ cur[p] \in held[p] => dirty[cur[p]]

(* The only panic is that of bget, when no buffer can be recycled. *)
PanicMeansFull == panicked => \A b \in Buf : ~Recyclable(b)

IInv ==
  /\ TypeOK /\ OneBufferPerBlock /\ RefcntExact /\ PanicMeansFull
  /\ Listed /\ Places /\ Locks /\ Flags /\ Queue

(* What the disk holds: a buffer that is valid and not dirty is like its   *)
(* block, and the data of a write are on the disk once it is under way.    *)
Durable ==
  /\ \A b \in Buf : valid[b] /\ ~dirty[b] /\ blockno[b] \notin Faulty =>
       data[b] = disk[blockno[b]]
  /\ idequeue # <<>> /\ dirty[Head(idequeue)] =>
       data[Head(idequeue)] = disk[blockno[Head(idequeue)]]

(* The blocks a process has buffers of may be held together. *)
Nested ==
  \A p \in Proc : \A a, b \in Mine(p) : a # b => Related(blockno[a], blockno[b])

-----------------------------------------------------------------------------
(* The steps, as the invariant lets them happen. *)

Finds(p, k, b) ==
  /\ pc[p] = "run" /\ ~panicked
  /\ \A c \in held[p] : <<blockno[c], k>> \in Nests
  /\ blockno[b] = k
  /\ refcnt' = [refcnt EXCEPT ![b] = refcnt[b] + 1]
  /\ cur' = [cur EXCEPT ![p] = b]
  /\ want' = [want EXCEPT ![p] = k]
  /\ pc' = [pc EXCEPT ![p] = "lock"]
  /\ UNCHANGED <<blockno, valid, dirty, data, locked, lru, idequeue, disk, panicked, held>>

Recycles(p, k, b) ==
  /\ pc[p] = "run" /\ ~panicked
  /\ \A c \in held[p] : <<blockno[c], k>> \in Nests
  /\ \A c \in Buf : blockno[c] # k
  /\ refcnt[b] = 0 /\ ~dirty[b]
  /\ blockno' = [blockno EXCEPT ![b] = k]
  /\ valid' = [valid EXCEPT ![b] = FALSE]
  /\ refcnt' = [refcnt EXCEPT ![b] = 1]
  /\ cur' = [cur EXCEPT ![p] = b]
  /\ want' = [want EXCEPT ![p] = k]
  /\ pc' = [pc EXCEPT ![p] = "lock"]
  /\ UNCHANGED <<dirty, data, locked, lru, idequeue, disk, panicked, held>>

RunsOut(p, k) ==
  /\ pc[p] = "run" /\ ~panicked
  /\ \A c \in held[p] : <<blockno[c], k>> \in Nests
  /\ \A b \in Buf : ~Recyclable(b)
  /\ panicked'
  /\ panicked' \in BOOLEAN
  /\ want' = [want EXCEPT ![p] = k]
  /\ UNCHANGED <<blockno, valid, dirty, refcnt, data, locked, lru, idequeue, disk, pc, cur, held>>

Misses(p) ==
  /\ pc[p] = "lock" /\ ~panicked /\ ~locked[cur[p]] /\ ~valid[cur[p]]
  /\ locked' = [locked EXCEPT ![cur[p]] = TRUE]
  /\ pc' = [pc EXCEPT ![p] = "iderw"]
  /\ UNCHANGED <<blockno, valid, dirty, refcnt, data, lru, idequeue, disk, panicked, want,
                 cur, held>>

(* bread returns, with the lock it has just taken or after the disk. *)
Hits(p) ==
  /\ pc[p] = "lock" /\ ~panicked /\ ~locked[cur[p]] /\ valid[cur[p]]
  /\ locked' = [locked EXCEPT ![cur[p]] = TRUE]
  /\ bread_returns(p)
  /\ UNCHANGED <<blockno, valid, dirty, refcnt, data, lru, idequeue, disk, panicked>>

Returns(p) ==
  /\ pc[p] = "woken" /\ ~panicked
  /\ bread_returns(p)
  /\ UNCHANGED <<blockno, valid, dirty, refcnt, data, locked, lru, idequeue, disk, panicked>>

Reads(p) ==
  /\ pc[p] = "iderw" /\ ~panicked
  /\ idequeue' = Append(idequeue, cur[p])
  /\ pc' = [pc EXCEPT ![p] = "disk"]
  /\ UNCHANGED <<blockno, valid, dirty, refcnt, data, locked, lru, disk, panicked, want, cur, held>>

Writes(p, b, v) ==
  /\ pc[p] = "run" /\ ~panicked /\ b \in held[p]
  /\ data' = [data EXCEPT ![b] = v]
  /\ dirty' = [dirty EXCEPT ![b] = TRUE]
  /\ cur' = [cur EXCEPT ![p] = b]
  /\ idequeue' = Append(idequeue, b)
  /\ disk' = IF idequeue = <<>> THEN [disk EXCEPT ![blockno[b]] = v] ELSE disk
  /\ pc' = [pc EXCEPT ![p] = "disk"]
  /\ UNCHANGED <<blockno, valid, refcnt, locked, lru, panicked, want, held>>

Serves(b, err) ==
  /\ ~panicked /\ idequeue # <<>> /\ b = Head(idequeue)
  /\ err => blockno[b] \in Faulty
  /\ idequeue' = Tail(idequeue)
  /\ data' = IF dirty[b] \/ err THEN data ELSE [data EXCEPT ![b] = disk[blockno[b]]]
  /\ valid' = [valid EXCEPT ![b] = TRUE]
  /\ dirty' = [dirty EXCEPT ![b] = FALSE]
  /\ pc' = [p \in Proc |-> IF pc[p] = "disk" /\ cur[p] = b THEN "woken" ELSE pc[p]]
  /\ disk' = IF Tail(idequeue) # <<>> /\ dirty[Head(Tail(idequeue))]
               THEN [disk EXCEPT ![blockno[Head(Tail(idequeue))]] = data[Head(Tail(idequeue))]]
               ELSE disk
  /\ UNCHANGED <<blockno, refcnt, locked, lru, panicked, want, cur, held>>

(* The scan of bget from the end of the list finds a buffer it may         *)
(* recycle, if there is one (bio.c:81).                                    *)
LEMMA VictimFound ==
  ASSUME TypeOK, Listed, NEW c \in Buf, Recyclable(c)
  PROVE  Victim \in Buf /\ Recyclable(Victim)
PROOF
<1> DEFINE free == {i \in DOMAIN lru : Recyclable(lru[i])}
           n == Len(lru)
           back == {j \in Nat : j <= n /\ n - j \in free}
<1>1. /\ n \in Nat /\ DOMAIN lru = 1..n /\ free \subseteq 1..n
      /\ \A i \in DOMAIN lru : lru[i] \in Buf
  BY DEF TypeOK
<1>2. PICK i \in DOMAIN lru : lru[i] = c
  BY DEF Listed
<1>3. i \in free
  BY <1>2
<1> HIDE DEF n, free
<1>4. n - i \in back
  BY <1>1, <1>3
<1>5. PICK j \in back : \A m \in back : ~ (<<m, j>> \in OpToRel(<, Nat))
  BY <1>4, WFMin, NatLessThanWellFounded
<1>6. \A m \in back : j <= m
  <2> SUFFICES ASSUME NEW m \in back PROVE j <= m
    OBVIOUS
  <2>1. ~ (m < j)
    BY <1>5 DEF OpToRel
  <2> QED
    BY <2>1
<1>7. \A m \in free : m <= n - j
  <2> SUFFICES ASSUME NEW m \in free PROVE m <= n - j
    OBVIOUS
  <2>1. n - m \in back /\ m \in Nat /\ m <= n
    BY <1>1
  <2>2. j <= n - m /\ j \in Nat
    BY <1>5, <1>6, <2>1
  <2> QED
    BY <1>1, <2>1, <2>2
<1>8. n - j \in free
  BY <1>5
<1> DEFINE last == CHOOSE h \in free : \A m \in free : m <= h
<1>9. last \in free
  BY <1>7, <1>8
<1>10. Victim = lru[last]
  BY DEF Victim, free
<1> QED
  BY <1>1, <1>9, <1>10 DEF free

(* Every step is one of these.                                             *)
LEMMA StepCases ==
  ASSUME IInv, [Next]_vars
  PROVE  \/ \E p \in Proc, k \in Block, b \in Buf : Finds(p, k, b) \/ Recycles(p, k, b)
         \/ \E p \in Proc, k \in Block : RunsOut(p, k)
         \/ \E p \in Proc : acquiresleep_wait(p) \/ Misses(p) \/ Hits(p) \/ Returns(p) \/ Reads(p)
         \/ \E p \in Proc : brelse_unref(p)
         \/ \E p \in Proc, b \in Buf : brelse(p, b)
         \/ \E p \in Proc, b \in Buf, v \in Value : Writes(p, b, v) \/ log_write(p, b, v)
         \/ \E b \in Buf, err \in BOOLEAN : Serves(b, err)
         \/ UNCHANGED vars
PROOF
<1>1. ASSUME NEW p \in Proc, NEW k \in Block, bget(p, k)
      PROVE  \/ \E b \in Buf : Finds(p, k, b) \/ Recycles(p, k, b)
             \/ RunsOut(p, k)
  <2>1. CASE bget_found(p, k)
    <3>1. PICK b \in Cached(k) :
            /\ refcnt' = [refcnt EXCEPT ![b] = @ + 1]
            /\ cur' = [cur EXCEPT ![p] = b]
            /\ goto(p, "lock")
            /\ UNCHANGED <<blockno, valid, panicked>>
      BY <2>1 DEF bget_found
    <3>2. b \in Buf /\ Finds(p, k, b)
      BY <1>1, <3>1 DEF bget, At, goto, Finds, Cached
    <3> QED
      BY <3>2
  <2>2. CASE bget_recycle(p, k)
    <3>1. PICK c \in Buf : Recyclable(c)
      BY <2>2 DEF bget_recycle
    <3>2. Victim \in Buf /\ Recyclable(Victim)
      BY <3>1, VictimFound DEF IInv
    <3>3. Recycles(p, k, Victim)
      BY <1>1, <2>2, <3>2 DEF bget, bget_recycle, At, goto, Recycles, Cached, Recyclable
    <3> QED
      BY <3>2, <3>3
  <2>3. CASE bget_panic(k)
    <3>1. RunsOut(p, k)
      BY <1>1, <2>3 DEF bget, bget_panic, At, RunsOut
    <3> QED
      BY <3>1
  <2> QED
    BY <1>1, <2>1, <2>2, <2>3 DEF bget
<1>2. ASSUME NEW p \in Proc, acquiresleep(p)
      PROVE  Misses(p) \/ Hits(p)
  BY <1>2 DEF acquiresleep, At, goto, Misses, Hits, bufs
<1>3. ASSUME NEW p \in Proc, iderw_woken(p)
      PROVE  Returns(p)
  BY <1>3 DEF iderw_woken, At, goto, Returns, bufs, IInv, Places
<1>4. ASSUME NEW p \in Proc, bread_iderw(p)
      PROVE  Reads(p)
  <2>1. ~valid[cur[p]] /\ ~dirty[cur[p]] /\ locked[cur[p]] /\ ~panicked
    BY <1>4 DEF bread_iderw, At, IInv, Places, Locks, Flags, Owns
  <2>2. panicked' = panicked
    BY <1>4, <2>1 DEF bread_iderw, iderw, IInv, TypeOK
  <2> QED
    BY <1>4, <2>1, <2>2 DEF bread_iderw, iderw, idestart, Queued, At, goto, Reads, bufs
<1>5. ASSUME NEW p \in Proc, NEW b \in Buf, NEW v \in Value, bwrite(p, b, v)
      PROVE  Writes(p, b, v)
  <2>1. locked[b] /\ ~panicked
    BY <1>5 DEF bwrite, At, IInv, Locks, Owns
  <2>2. dirty'[b] /\ data'[b] = v
    BY <1>5 DEF bwrite, IInv, TypeOK
  <2>3. panicked' = panicked
    BY <1>5, <2>1, <2>2 DEF bwrite, iderw, IInv, TypeOK
  <2> QED
    BY <1>5, <2>1, <2>2, <2>3 DEF bwrite, iderw, idestart, Queued, At, goto, Writes, bufs
<1>6. ASSUME NEW err \in BOOLEAN, ideintr(err)
      PROVE  \E b \in Buf : Serves(b, err)
  <2>1. Head(idequeue) \in Buf
    BY <1>6 DEF ideintr, IInv, TypeOK
  <2>2. Serves(Head(idequeue), err)
    BY <1>6 DEF ideintr, idestart, Serves, bufs
  <2> QED
    BY <2>1, <2>2
<1> QED
  BY <1>1, <1>2, <1>3, <1>4, <1>5, <1>6 DEF Next, Step

-----------------------------------------------------------------------------
(* The invariant is inductive: one step per case, one lemma per part. *)

(* Unlinking a buffer and putting it first keeps the list (bio.c:132-137). *)
LEMMA FrontLists ==
  ASSUME TypeOK, Listed, NEW b \in Buf
  PROVE  /\ Front(b) \in Seq(Buf)
         /\ \A c \in Buf : \E i \in DOMAIN Front(b) : Front(b)[i] = c
PROOF
<1> DEFINE n == Len(lru)
           i == CHOOSE j \in DOMAIN lru : lru[j] = b
           f == [j \in DOMAIN lru |-> IF j = 1 THEN b ELSE IF j <= i THEN lru[j - 1] ELSE lru[j]]
<1>1. n \in Nat /\ DOMAIN lru = 1..n /\ \A j \in 1..n : lru[j] \in Buf
  BY DEF TypeOK
<1>2. i \in 1..n /\ lru[i] = b
  BY <1>1 DEF Listed
<1>3. Front(b) = f
  BY DEF Front
<1> HIDE DEF n, i
<1>4. \A j \in 1..n : f[j] \in Buf
  BY <1>1, <1>2
<1>5. f \in Seq(Buf)
  BY <1>1, <1>4
<1>6. ASSUME NEW c \in Buf
      PROVE  \E j \in DOMAIN f : f[j] = c
  <2>1. PICK j \in 1..n : lru[j] = c
    BY <1>1 DEF Listed
  <2>2. CASE j = i
    <3>1. 1 \in 1..n /\ f[1] = b
      BY <1>1, <1>2
    <3> QED
      BY <1>1, <1>2, <2>1, <2>2, <3>1
  <2>3. CASE j < i
    <3>1. j + 1 \in 1..n /\ j + 1 # 1 /\ j + 1 <= i /\ (j + 1) - 1 = j
      BY <1>1, <1>2, <2>3
    <3>2. f[j + 1] = lru[j]
      BY <1>1, <3>1
    <3> QED
      BY <1>1, <2>1, <3>1, <3>2
  <2>4. CASE j > i
    <3>1. j # 1 /\ ~(j <= i)
      BY <1>2, <2>4
    <3>2. f[j] = lru[j]
      BY <1>1, <2>1, <3>1
    <3> QED
      BY <1>1, <2>1, <3>2
  <2> QED
    BY <1>1, <1>2, <2>2, <2>3, <2>4
<1> QED
  BY <1>3, <1>5, <1>6

(* Every step keeps the types. *)
LEMMA TypeStep ==
  ASSUME IInv, [Next]_vars
  PROVE  TypeOK'
PROOF
<1>0. NoBuf \notin Buf /\ NoBlock \notin Block /\ \A k \in Block : <<k, k>> \notin Nests
  BY BufCacheAssumption
<1>1. ASSUME NEW p \in Proc, NEW k \in Block, NEW b \in Buf, Finds(p, k, b)
      PROVE  TypeOK'
  BY <1>0, <1>1 DEF Finds, IInv, TypeOK, Places, Flags, Mine, PC
<1>2. ASSUME NEW p \in Proc, NEW k \in Block, NEW b \in Buf, Recycles(p, k, b)
      PROVE  TypeOK'
  BY <1>0, <1>2 DEF Recycles, IInv, TypeOK, Places, Flags, Mine, PC
<1>3. ASSUME NEW p \in Proc, NEW k \in Block, RunsOut(p, k)
      PROVE  TypeOK'
  BY <1>0, <1>3 DEF RunsOut, IInv, TypeOK, Places, Flags, Mine, PC
<1>4. ASSUME NEW p \in Proc, acquiresleep_wait(p)
      PROVE  TypeOK'
  BY <1>0, <1>4 DEF acquiresleep_wait, At, goto, bufs, IInv, TypeOK, Places, Flags, Mine, PC
<1>5. ASSUME NEW p \in Proc, Misses(p)
      PROVE  TypeOK'
  BY <1>0, <1>5 DEF Misses, IInv, TypeOK, Places, Flags, Mine, PC
<1>6. ASSUME NEW p \in Proc, Hits(p)
      PROVE  TypeOK'
  BY <1>0, <1>6 DEF Hits, bread_returns, goto, IInv, TypeOK, Places, Flags, Mine, PC
<1>7. ASSUME NEW p \in Proc, Returns(p)
      PROVE  TypeOK'
  BY <1>0, <1>7 DEF Returns, bread_returns, goto, IInv, TypeOK, Places, Flags, Mine, PC
<1>8. ASSUME NEW p \in Proc, Reads(p)
      PROVE  TypeOK'
  BY <1>0, <1>8 DEF Reads, IInv, TypeOK, Places, Flags, Mine, PC
<1>9. ASSUME NEW p \in Proc, brelse_unref(p)
      PROVE  TypeOK'
  <2>1. cur[p] \in Buf /\ refcnt[cur[p]] \in Nat
    BY <1>9 DEF brelse_unref, At, IInv, TypeOK, Places
  <2>2. refcnt[cur[p]] # 0
    <3>1. p \in Users(cur[p]) /\ IsFiniteSet(Users(cur[p]))
      BY <2>1, BufCacheAssumption, FS_Subset DEF Users
    <3>2. refcnt[cur[p]] = Cardinality(Users(cur[p]))
      BY <2>1 DEF IInv, RefcntExact, Users
    <3> QED
      BY <3>1, <3>2, FS_EmptySet
  <2>3. refcnt' \in [Buf -> Nat]
    BY <1>9, <2>1, <2>2 DEF brelse_unref, IInv, TypeOK
  <2>4. lru' \in Seq(Buf)
    BY <1>9, <2>1, FrontLists DEF brelse_unref, IInv, TypeOK
  <2> QED
    BY <1>9, <2>3, <2>4 DEF brelse_unref, goto, IInv, TypeOK, PC
<1>10. ASSUME NEW p \in Proc, NEW b \in Buf, brelse(p, b)
      PROVE  TypeOK'
  BY <1>0, <1>10 DEF brelse, Woken, At, goto, bufs, IInv, TypeOK, Places, Flags, Mine, PC
<1>11. ASSUME NEW p \in Proc, NEW b \in Buf, NEW v \in Value, Writes(p, b, v)
      PROVE  TypeOK'
  BY <1>0, <1>11 DEF Writes, IInv, TypeOK, Places, Flags, Mine, PC
<1>12. ASSUME NEW p \in Proc, NEW b \in Buf, NEW v \in Value, log_write(p, b, v)
      PROVE  TypeOK'
  BY <1>0, <1>12 DEF log_write, At, bufs, IInv, TypeOK, Places, Flags, Mine, PC
<1>13. ASSUME NEW b \in Buf, NEW err \in BOOLEAN, Serves(b, err)
      PROVE  TypeOK'
  <2>1. idequeue' \in Seq(Buf)
    BY <1>13 DEF Serves, IInv, TypeOK
  <2>2. data' \in [Buf -> Value] /\ valid' \in [Buf -> BOOLEAN] /\ dirty' \in [Buf -> BOOLEAN]
    <3>1. ~dirty[b] /\ ~err => disk[blockno[b]] \in Value
      <4>1. Has(idequeue, b)
        BY <1>13 DEF Serves, Has, IInv, TypeOK
      <4>2. PICK q \in Proc : pc[q] = "disk" /\ cur[q] = b
        BY <4>1 DEF IInv, Queue
      <4> QED
        BY <4>2 DEF IInv, Flags, Mine, TypeOK
    <3> QED
      BY <1>13, <3>1 DEF Serves, IInv, TypeOK
  <2>3. pc' \in [Proc -> PC]
    BY <1>13 DEF Serves, IInv, TypeOK, PC
  <2>4. disk' \in [Block -> Value]
    <3>1. Tail(idequeue) # <<>> => Head(Tail(idequeue)) \in Buf
      BY <1>13, <2>1 DEF Serves
    <3>2. Tail(idequeue) # <<>> => data[Head(Tail(idequeue))] \in Value
      BY <3>1 DEF IInv, TypeOK
    <3> QED
      BY <1>13, <3>2 DEF Serves, IInv, TypeOK
  <2> QED
    BY <1>13, <2>1, <2>2, <2>3, <2>4 DEF Serves, IInv, TypeOK
<1>14. CASE UNCHANGED vars
  BY <1>14 DEF vars, IInv, TypeOK, Places, Flags, Mine, PC
<1> QED
  BY <1>1, <1>2, <1>3, <1>4, <1>5, <1>6, <1>7, <1>8, <1>9, <1>10, <1>11, <1>12, <1>13, <1>14,
     StepCases

(* bget never finds a buffer that its caller holds. *)
LEMMA NotHeld ==
  ASSUME NEW p \in Proc, NEW k \in Block, NEW b \in Buf, Finds(p, k, b)
  PROVE  b \notin held[p]
PROOF
<1>1. <<k, k>> \notin Nests
  BY BufCacheAssumption
<1>2. ASSUME b \in held[p] PROVE <<k, k>> \in Nests
  <2>1. <<blockno[b], k>> \in Nests /\ blockno[b] = k
    BY <1>2 DEF Finds
  <2> QED
    BY <2>1
<1> QED
  BY <1>1, <1>2

(* Every step keeps one buffer per block. *)
LEMMA OneStep ==
  ASSUME IInv, [Next]_vars
  PROVE  OneBufferPerBlock'
PROOF
<1>0. NoBuf \notin Buf /\ NoBlock \notin Block /\ \A k \in Block : <<k, k>> \notin Nests
  BY BufCacheAssumption
<1>1. ASSUME NEW p \in Proc, NEW k \in Block, NEW b \in Buf, Finds(p, k, b)
      PROVE  OneBufferPerBlock'
  BY <1>0, <1>1 DEF Finds, IInv, TypeOK, OneBufferPerBlock
<1>2. ASSUME NEW p \in Proc, NEW k \in Block, NEW b \in Buf, Recycles(p, k, b)
      PROVE  OneBufferPerBlock'
  BY <1>0, <1>2 DEF Recycles, IInv, TypeOK, OneBufferPerBlock
<1>3. ASSUME NEW p \in Proc, NEW k \in Block, RunsOut(p, k)
      PROVE  OneBufferPerBlock'
  BY <1>0, <1>3 DEF RunsOut, IInv, TypeOK, OneBufferPerBlock
<1>4. ASSUME NEW p \in Proc, acquiresleep_wait(p)
      PROVE  OneBufferPerBlock'
  BY <1>0, <1>4 DEF acquiresleep_wait, At, goto, bufs, IInv, TypeOK, OneBufferPerBlock
<1>5. ASSUME NEW p \in Proc, Misses(p)
      PROVE  OneBufferPerBlock'
  BY <1>0, <1>5 DEF Misses, IInv, TypeOK, OneBufferPerBlock
<1>6. ASSUME NEW p \in Proc, Hits(p)
      PROVE  OneBufferPerBlock'
  BY <1>0, <1>6 DEF Hits, bread_returns, goto, IInv, TypeOK, OneBufferPerBlock
<1>7. ASSUME NEW p \in Proc, Returns(p)
      PROVE  OneBufferPerBlock'
  BY <1>0, <1>7 DEF Returns, bread_returns, goto, IInv, TypeOK, OneBufferPerBlock
<1>8. ASSUME NEW p \in Proc, Reads(p)
      PROVE  OneBufferPerBlock'
  BY <1>0, <1>8 DEF Reads, IInv, TypeOK, OneBufferPerBlock
<1>9. ASSUME NEW p \in Proc, brelse_unref(p)
      PROVE  OneBufferPerBlock'
  BY <1>0, <1>9 DEF brelse_unref, At, goto, IInv, TypeOK, OneBufferPerBlock
<1>10. ASSUME NEW p \in Proc, NEW b \in Buf, brelse(p, b)
      PROVE  OneBufferPerBlock'
  BY <1>0, <1>10 DEF brelse, Woken, At, goto, bufs, IInv, TypeOK, OneBufferPerBlock
<1>11. ASSUME NEW p \in Proc, NEW b \in Buf, NEW v \in Value, Writes(p, b, v)
      PROVE  OneBufferPerBlock'
  BY <1>0, <1>11 DEF Writes, IInv, TypeOK, OneBufferPerBlock
<1>12. ASSUME NEW p \in Proc, NEW b \in Buf, NEW v \in Value, log_write(p, b, v)
      PROVE  OneBufferPerBlock'
  BY <1>0, <1>12 DEF log_write, At, bufs, IInv, TypeOK, OneBufferPerBlock
<1>13. ASSUME NEW b \in Buf, NEW err \in BOOLEAN, Serves(b, err)
      PROVE  OneBufferPerBlock'
  BY <1>0, <1>13 DEF Serves, IInv, TypeOK, OneBufferPerBlock
<1>14. CASE UNCHANGED vars
  BY <1>14 DEF vars, IInv, TypeOK, OneBufferPerBlock
<1> QED
  BY <1>1, <1>2, <1>3, <1>4, <1>5, <1>6, <1>7, <1>8, <1>9, <1>10, <1>11, <1>12, <1>13, <1>14,
     StepCases

(* Every step keeps refcnt the number of users of the buffer. *)
LEMMA RefcntStep ==
  ASSUME IInv, [Next]_vars
  PROVE  RefcntExact'
PROOF
<1>0. NoBuf \notin Buf /\ NoBlock \notin Block /\ \A k \in Block : <<k, k>> \notin Nests
  BY BufCacheAssumption
<1>1. ASSUME NEW p \in Proc, NEW k \in Block, NEW b \in Buf, Finds(p, k, b)
      PROVE  RefcntExact'
  <2>1. p \notin Users(b)
    <3>1. cur[p] = NoBuf
      BY <1>1 DEF Finds, IInv, Places
    <3> QED
      BY <1>0, <1>1, <3>1, NotHeld DEF Users
  <2>2. Users(b)' = Users(b) \cup {p}
    BY <1>0, <1>1 DEF Finds, Users, IInv, TypeOK, Places
  <2>3. \A c \in Buf : c # b => Users(c)' = Users(c)
    BY <1>0, <1>1 DEF Finds, Users, IInv, TypeOK, Places
  <2>4. \A c \in Buf : refcnt[c] = Cardinality(Users(c))
    BY DEF IInv, RefcntExact, Users
  <2>5. Cardinality(Users(b) \cup {p}) = Cardinality(Users(b)) + 1
    BY <2>1, BufCacheAssumption, FS_Subset, FS_AddElement DEF Users
  <2>6. \A c \in Buf : refcnt'[c] = Cardinality(Users(c)')
    BY <1>1, <2>2, <2>3, <2>4, <2>5 DEF Finds, IInv, TypeOK
  <2> QED
    BY <2>6 DEF RefcntExact, Users
<1>2. ASSUME NEW p \in Proc, NEW k \in Block, NEW b \in Buf, Recycles(p, k, b)
      PROVE  RefcntExact'
  <2>1. \A c \in Buf : refcnt[c] = Cardinality(Users(c))
    BY DEF IInv, RefcntExact, Users
  <2>2. Users(b) = {}
    <3>1. IsFiniteSet(Users(b))
      BY BufCacheAssumption, FS_Subset DEF Users
    <3> QED
      BY <1>2, <2>1, <3>1, FS_EmptySet DEF Recycles
  <2>3. Users(b)' = {p}
    BY <1>0, <1>2, <2>2 DEF Recycles, Users, IInv, TypeOK, Places
  <2>4. \A c \in Buf : c # b => Users(c)' = Users(c)
    BY <1>0, <1>2 DEF Recycles, Users, IInv, TypeOK, Places
  <2>5. \A c \in Buf : refcnt'[c] = Cardinality(Users(c)')
    BY <1>2, <2>1, <2>3, <2>4, FS_Singleton DEF Recycles, IInv, TypeOK
  <2> QED
    BY <2>5 DEF RefcntExact, Users
<1>3. ASSUME NEW p \in Proc, NEW k \in Block, RunsOut(p, k)
      PROVE  RefcntExact'
  <2>1. \A c \in Buf : Users(c)' = Users(c)
    BY <1>0, <1>3 DEF RunsOut, Users, IInv, TypeOK, Places
  <2>2. refcnt' = refcnt
    BY <1>3 DEF RunsOut
  <2>3. \A c \in Buf : refcnt[c] = Cardinality(Users(c))
    BY DEF IInv, RefcntExact, Users
  <2>4. \A c \in Buf : refcnt'[c] = Cardinality(Users(c)')
    BY <2>1, <2>2, <2>3
  <2> QED
    BY <2>4 DEF RefcntExact, Users
<1>4. ASSUME NEW p \in Proc, acquiresleep_wait(p)
      PROVE  RefcntExact'
  <2>1. \A c \in Buf : Users(c)' = Users(c)
    BY <1>0, <1>4 DEF acquiresleep_wait, At, goto, bufs, Users, IInv, TypeOK, Places
  <2>2. refcnt' = refcnt
    BY <1>4 DEF acquiresleep_wait, At, goto, bufs
  <2>3. \A c \in Buf : refcnt[c] = Cardinality(Users(c))
    BY DEF IInv, RefcntExact, Users
  <2>4. \A c \in Buf : refcnt'[c] = Cardinality(Users(c)')
    BY <2>1, <2>2, <2>3
  <2> QED
    BY <2>4 DEF RefcntExact, Users
<1>5. ASSUME NEW p \in Proc, Misses(p)
      PROVE  RefcntExact'
  <2>1. \A c \in Buf : Users(c)' = Users(c)
    BY <1>0, <1>5 DEF Misses, Users, IInv, TypeOK, Places
  <2>2. refcnt' = refcnt
    BY <1>5 DEF Misses
  <2>3. \A c \in Buf : refcnt[c] = Cardinality(Users(c))
    BY DEF IInv, RefcntExact, Users
  <2>4. \A c \in Buf : refcnt'[c] = Cardinality(Users(c)')
    BY <2>1, <2>2, <2>3
  <2> QED
    BY <2>4 DEF RefcntExact, Users
<1>6. ASSUME NEW p \in Proc, Hits(p)
      PROVE  RefcntExact'
  <2>1. \A c \in Buf : Users(c)' = Users(c)
    BY <1>0, <1>6 DEF Hits, bread_returns, goto, Users, IInv, TypeOK, Places
  <2>2. refcnt' = refcnt
    BY <1>6 DEF Hits, bread_returns, goto
  <2>3. \A c \in Buf : refcnt[c] = Cardinality(Users(c))
    BY DEF IInv, RefcntExact, Users
  <2>4. \A c \in Buf : refcnt'[c] = Cardinality(Users(c)')
    BY <2>1, <2>2, <2>3
  <2> QED
    BY <2>4 DEF RefcntExact, Users
<1>7. ASSUME NEW p \in Proc, Returns(p)
      PROVE  RefcntExact'
  <2>1. \A c \in Buf : Users(c)' = Users(c)
    BY <1>0, <1>7 DEF Returns, bread_returns, goto, Users, IInv, TypeOK, Places
  <2>2. refcnt' = refcnt
    BY <1>7 DEF Returns, bread_returns, goto
  <2>3. \A c \in Buf : refcnt[c] = Cardinality(Users(c))
    BY DEF IInv, RefcntExact, Users
  <2>4. \A c \in Buf : refcnt'[c] = Cardinality(Users(c)')
    BY <2>1, <2>2, <2>3
  <2> QED
    BY <2>4 DEF RefcntExact, Users
<1>8. ASSUME NEW p \in Proc, Reads(p)
      PROVE  RefcntExact'
  <2>1. \A c \in Buf : Users(c)' = Users(c)
    BY <1>0, <1>8 DEF Reads, Users, IInv, TypeOK, Places
  <2>2. refcnt' = refcnt
    BY <1>8 DEF Reads
  <2>3. \A c \in Buf : refcnt[c] = Cardinality(Users(c))
    BY DEF IInv, RefcntExact, Users
  <2>4. \A c \in Buf : refcnt'[c] = Cardinality(Users(c)')
    BY <2>1, <2>2, <2>3
  <2> QED
    BY <2>4 DEF RefcntExact, Users
<1>9. ASSUME NEW p \in Proc, brelse_unref(p)
      PROVE  RefcntExact'
  <2> PICK b \in Buf : b = cur[p]
    BY <1>9 DEF brelse_unref, At, IInv, Places
  <2>1. b \in Buf /\ b \notin held[p]
    BY <1>9 DEF brelse_unref, At, IInv, Places
  <2>2. /\ refcnt' = [refcnt EXCEPT ![b] = refcnt[b] - 1]
        /\ cur' = [cur EXCEPT ![p] = NoBuf] /\ held' = held
    BY <1>9 DEF brelse_unref
  <2>3. p \in Users(b) /\ IsFiniteSet(Users(b))
    BY <2>1, BufCacheAssumption, FS_Subset DEF Users
  <2>4. Users(b)' = Users(b) \ {p}
    BY <1>0, <2>1, <2>2 DEF Users, IInv, TypeOK
  <2>5. \A c \in Buf : c # b => Users(c)' = Users(c)
    BY <1>0, <2>1, <2>2 DEF Users, IInv, TypeOK
  <2>6. \A c \in Buf : refcnt[c] = Cardinality(Users(c))
    BY DEF IInv, RefcntExact, Users
  <2>7. Cardinality(Users(b) \ {p}) = Cardinality(Users(b)) - 1
    BY <2>3, FS_RemoveElement
  <2>8. \A c \in Buf : refcnt'[c] = Cardinality(Users(c)')
    BY <2>1, <2>2, <2>4, <2>5, <2>6, <2>7 DEF IInv, TypeOK
  <2> QED
    BY <2>8 DEF RefcntExact, Users
<1>10. ASSUME NEW p \in Proc, NEW b \in Buf, brelse(p, b)
      PROVE  RefcntExact'
  <2>1. \A c \in Buf : Users(c)' = Users(c)
    BY <1>0, <1>10 DEF brelse, Woken, At, goto, bufs, Users, IInv, TypeOK, Places
  <2>2. refcnt' = refcnt
    BY <1>10 DEF brelse, Woken, At, goto, bufs
  <2>3. \A c \in Buf : refcnt[c] = Cardinality(Users(c))
    BY DEF IInv, RefcntExact, Users
  <2>4. \A c \in Buf : refcnt'[c] = Cardinality(Users(c)')
    BY <2>1, <2>2, <2>3
  <2> QED
    BY <2>4 DEF RefcntExact, Users
<1>11. ASSUME NEW p \in Proc, NEW b \in Buf, NEW v \in Value, Writes(p, b, v)
      PROVE  RefcntExact'
  <2>1. \A c \in Buf : Users(c)' = Users(c)
    BY <1>0, <1>11 DEF Writes, Users, IInv, TypeOK, Places
  <2>2. refcnt' = refcnt
    BY <1>11 DEF Writes
  <2>3. \A c \in Buf : refcnt[c] = Cardinality(Users(c))
    BY DEF IInv, RefcntExact, Users
  <2>4. \A c \in Buf : refcnt'[c] = Cardinality(Users(c)')
    BY <2>1, <2>2, <2>3
  <2> QED
    BY <2>4 DEF RefcntExact, Users
<1>12. ASSUME NEW p \in Proc, NEW b \in Buf, NEW v \in Value, log_write(p, b, v)
      PROVE  RefcntExact'
  <2>1. \A c \in Buf : Users(c)' = Users(c)
    BY <1>0, <1>12 DEF log_write, At, bufs, Users, IInv, TypeOK, Places
  <2>2. refcnt' = refcnt
    BY <1>12 DEF log_write, At, bufs
  <2>3. \A c \in Buf : refcnt[c] = Cardinality(Users(c))
    BY DEF IInv, RefcntExact, Users
  <2>4. \A c \in Buf : refcnt'[c] = Cardinality(Users(c)')
    BY <2>1, <2>2, <2>3
  <2> QED
    BY <2>4 DEF RefcntExact, Users
<1>13. ASSUME NEW b \in Buf, NEW err \in BOOLEAN, Serves(b, err)
      PROVE  RefcntExact'
  <2>1. \A c \in Buf : Users(c)' = Users(c)
    BY <1>0, <1>13 DEF Serves, Users, IInv, TypeOK, Places
  <2>2. refcnt' = refcnt
    BY <1>13 DEF Serves
  <2>3. \A c \in Buf : refcnt[c] = Cardinality(Users(c))
    BY DEF IInv, RefcntExact, Users
  <2>4. \A c \in Buf : refcnt'[c] = Cardinality(Users(c)')
    BY <2>1, <2>2, <2>3
  <2> QED
    BY <2>4 DEF RefcntExact, Users
<1>14. CASE UNCHANGED vars
  BY <1>14 DEF vars, IInv, RefcntExact
<1> QED
  BY <1>1, <1>2, <1>3, <1>4, <1>5, <1>6, <1>7, <1>8, <1>9, <1>10, <1>11, <1>12, <1>13, <1>14,
     StepCases

(* Only bget panics. *)
LEMMA PanicStep ==
  ASSUME IInv, [Next]_vars
  PROVE  PanicMeansFull'
PROOF
<1>0. NoBuf \notin Buf /\ NoBlock \notin Block /\ \A k \in Block : <<k, k>> \notin Nests
  BY BufCacheAssumption
<1>1. ASSUME NEW p \in Proc, NEW k \in Block, NEW b \in Buf, Finds(p, k, b)
      PROVE  PanicMeansFull'
  BY <1>0, <1>1 DEF Finds, IInv, TypeOK, PanicMeansFull, Recyclable, Locks, Owns
<1>2. ASSUME NEW p \in Proc, NEW k \in Block, NEW b \in Buf, Recycles(p, k, b)
      PROVE  PanicMeansFull'
  BY <1>0, <1>2 DEF Recycles, IInv, TypeOK, PanicMeansFull, Recyclable, Locks, Owns
<1>3. ASSUME NEW p \in Proc, NEW k \in Block, RunsOut(p, k)
      PROVE  PanicMeansFull'
  BY <1>0, <1>3 DEF RunsOut, IInv, TypeOK, PanicMeansFull, Recyclable, Locks, Owns
<1>4. ASSUME NEW p \in Proc, acquiresleep_wait(p)
      PROVE  PanicMeansFull'
  BY <1>0, <1>4
     DEF acquiresleep_wait, At, goto, bufs, IInv, TypeOK, PanicMeansFull, Recyclable, Locks,
         Owns
<1>5. ASSUME NEW p \in Proc, Misses(p)
      PROVE  PanicMeansFull'
  BY <1>0, <1>5 DEF Misses, IInv, TypeOK, PanicMeansFull, Recyclable, Locks, Owns
<1>6. ASSUME NEW p \in Proc, Hits(p)
      PROVE  PanicMeansFull'
  BY <1>0, <1>6
     DEF Hits, bread_returns, goto, IInv, TypeOK, PanicMeansFull, Recyclable, Locks, Owns
<1>7. ASSUME NEW p \in Proc, Returns(p)
      PROVE  PanicMeansFull'
  BY <1>0, <1>7
     DEF Returns, bread_returns, goto, IInv, TypeOK, PanicMeansFull, Recyclable, Locks, Owns
<1>8. ASSUME NEW p \in Proc, Reads(p)
      PROVE  PanicMeansFull'
  BY <1>0, <1>8 DEF Reads, IInv, TypeOK, PanicMeansFull, Recyclable, Locks, Owns
<1>9. ASSUME NEW p \in Proc, brelse_unref(p)
      PROVE  PanicMeansFull'
  BY <1>0, <1>9
     DEF brelse_unref, At, goto, IInv, TypeOK, PanicMeansFull, Recyclable, Locks, Owns
<1>10. ASSUME NEW p \in Proc, NEW b \in Buf, brelse(p, b)
      PROVE  PanicMeansFull'
  BY <1>0, <1>10
     DEF brelse, Woken, At, goto, bufs, IInv, TypeOK, PanicMeansFull, Recyclable, Locks, Owns
<1>11. ASSUME NEW p \in Proc, NEW b \in Buf, NEW v \in Value, Writes(p, b, v)
      PROVE  PanicMeansFull'
  BY <1>0, <1>11 DEF Writes, IInv, TypeOK, PanicMeansFull, Recyclable, Locks, Owns
<1>12. ASSUME NEW p \in Proc, NEW b \in Buf, NEW v \in Value, log_write(p, b, v)
      PROVE  PanicMeansFull'
  BY <1>0, <1>12 DEF log_write, At, bufs, IInv, TypeOK, PanicMeansFull, Recyclable, Locks, Owns
<1>13. ASSUME NEW b \in Buf, NEW err \in BOOLEAN, Serves(b, err)
      PROVE  PanicMeansFull'
  BY <1>0, <1>13 DEF Serves, IInv, TypeOK, PanicMeansFull, Recyclable, Locks, Owns
<1>14. CASE UNCHANGED vars
  BY <1>14 DEF vars, IInv, TypeOK, PanicMeansFull, Recyclable, Locks, Owns
<1> QED
  BY <1>1, <1>2, <1>3, <1>4, <1>5, <1>6, <1>7, <1>8, <1>9, <1>10, <1>11, <1>12, <1>13, <1>14,
     StepCases

(* Every step keeps all buffers in the list. *)
LEMMA ListedStep ==
  ASSUME IInv, [Next]_vars
  PROVE  Listed'
PROOF
<1>0. NoBuf \notin Buf /\ NoBlock \notin Block /\ \A k \in Block : <<k, k>> \notin Nests
  BY BufCacheAssumption
<1>1. ASSUME NEW p \in Proc, NEW k \in Block, NEW b \in Buf, Finds(p, k, b)
      PROVE  Listed'
  BY <1>0, <1>1 DEF Finds, IInv, Listed
<1>2. ASSUME NEW p \in Proc, NEW k \in Block, NEW b \in Buf, Recycles(p, k, b)
      PROVE  Listed'
  BY <1>0, <1>2 DEF Recycles, IInv, Listed
<1>3. ASSUME NEW p \in Proc, NEW k \in Block, RunsOut(p, k)
      PROVE  Listed'
  BY <1>0, <1>3 DEF RunsOut, IInv, Listed
<1>4. ASSUME NEW p \in Proc, acquiresleep_wait(p)
      PROVE  Listed'
  BY <1>0, <1>4 DEF acquiresleep_wait, At, goto, bufs, IInv, Listed
<1>5. ASSUME NEW p \in Proc, Misses(p)
      PROVE  Listed'
  BY <1>0, <1>5 DEF Misses, IInv, Listed
<1>6. ASSUME NEW p \in Proc, Hits(p)
      PROVE  Listed'
  BY <1>0, <1>6 DEF Hits, bread_returns, goto, IInv, Listed
<1>7. ASSUME NEW p \in Proc, Returns(p)
      PROVE  Listed'
  BY <1>0, <1>7 DEF Returns, bread_returns, goto, IInv, Listed
<1>8. ASSUME NEW p \in Proc, Reads(p)
      PROVE  Listed'
  BY <1>0, <1>8 DEF Reads, IInv, Listed
<1>9. ASSUME NEW p \in Proc, brelse_unref(p)
      PROVE  Listed'
  <2>1. cur[p] \in Buf
    BY <1>9 DEF brelse_unref, At, IInv, Places
  <2>2. CASE lru' = lru
    BY <2>2 DEF IInv, Listed
  <2>3. CASE lru' = Front(cur[p])
    BY <2>1, <2>3, FrontLists DEF IInv, Listed
  <2> QED
    BY <1>9, <2>2, <2>3 DEF brelse_unref
<1>10. ASSUME NEW p \in Proc, NEW b \in Buf, brelse(p, b)
      PROVE  Listed'
  BY <1>0, <1>10 DEF brelse, Woken, At, goto, bufs, IInv, Listed
<1>11. ASSUME NEW p \in Proc, NEW b \in Buf, NEW v \in Value, Writes(p, b, v)
      PROVE  Listed'
  BY <1>0, <1>11 DEF Writes, IInv, Listed
<1>12. ASSUME NEW p \in Proc, NEW b \in Buf, NEW v \in Value, log_write(p, b, v)
      PROVE  Listed'
  BY <1>0, <1>12 DEF log_write, At, bufs, IInv, Listed
<1>13. ASSUME NEW b \in Buf, NEW err \in BOOLEAN, Serves(b, err)
      PROVE  Listed'
  BY <1>0, <1>13 DEF Serves, IInv, Listed
<1>14. CASE UNCHANGED vars
  BY <1>14 DEF vars, IInv, Listed
<1> QED
  BY <1>1, <1>2, <1>3, <1>4, <1>5, <1>6, <1>7, <1>8, <1>9, <1>10, <1>11, <1>12, <1>13, <1>14,
     StepCases

(* A buffer that bget recycles has no user. *)
LEMMA RecycledUnused ==
  ASSUME IInv, NEW b \in Buf, refcnt[b] = 0
  PROVE  \A q \in Proc : b \notin held[q] /\ cur[q] # b
PROOF
<1>1. IsFiniteSet(Users(b))
  BY BufCacheAssumption, FS_Subset DEF Users
<1>2. Cardinality(Users(b)) = 0
  BY DEF IInv, RefcntExact, Users
<1>3. Users(b) = {}
  BY <1>1, <1>2, FS_EmptySet
<1> QED
  BY <1>3 DEF Users

(* Every step keeps the places. *)
LEMMA PlacesStep ==
  ASSUME IInv, [Next]_vars
  PROVE  Places'
PROOF
<1>0. NoBuf \notin Buf /\ NoBlock \notin Block /\ \A k \in Block : <<k, k>> \notin Nests
  BY BufCacheAssumption
<1>1. ASSUME NEW p \in Proc, NEW k \in Block, NEW b \in Buf, Finds(p, k, b)
      PROVE  Places'
  <2>1. b \notin held[p]
    BY <1>1, NotHeld
  <2> QED
    BY <1>0, <1>1, <2>1 DEF Finds, IInv, TypeOK, Places
<1>2. ASSUME NEW p \in Proc, NEW k \in Block, NEW b \in Buf, Recycles(p, k, b)
      PROVE  Places'
  <2>0. \A q \in Proc : b \notin held[q] /\ cur[q] # b
    BY <1>2, RecycledUnused DEF Recycles
  <2> QED
    BY <1>0, <1>2, <2>0 DEF Recycles, IInv, TypeOK, Places
<1>3. ASSUME NEW p \in Proc, NEW k \in Block, RunsOut(p, k)
      PROVE  Places'
  BY <1>0, <1>3 DEF RunsOut, IInv, TypeOK, Places, Locks, Owns
<1>4. ASSUME NEW p \in Proc, acquiresleep_wait(p)
      PROVE  Places'
  BY <1>0, <1>4 DEF acquiresleep_wait, At, goto, bufs, IInv, TypeOK, Places, Locks, Owns
<1>5. ASSUME NEW p \in Proc, Misses(p)
      PROVE  Places'
  BY <1>0, <1>5 DEF Misses, IInv, TypeOK, Places, Locks, Owns
<1>6. ASSUME NEW p \in Proc, Hits(p)
      PROVE  Places'
  BY <1>0, <1>6 DEF Hits, bread_returns, goto, IInv, TypeOK, Places, Locks, Owns
<1>7. ASSUME NEW p \in Proc, Returns(p)
      PROVE  Places'
  BY <1>0, <1>7 DEF Returns, bread_returns, goto, IInv, TypeOK, Places, Locks, Owns
<1>8. ASSUME NEW p \in Proc, Reads(p)
      PROVE  Places'
  BY <1>0, <1>8 DEF Reads, IInv, TypeOK, Places, Locks, Owns
<1>9. ASSUME NEW p \in Proc, brelse_unref(p)
      PROVE  Places'
  BY <1>0, <1>9 DEF brelse_unref, At, goto, IInv, TypeOK, Places, Locks, Owns
<1>10. ASSUME NEW p \in Proc, NEW b \in Buf, brelse(p, b)
      PROVE  Places'
  BY <1>0, <1>10 DEF brelse, Woken, At, goto, bufs, IInv, TypeOK, Places, Locks, Owns
<1>11. ASSUME NEW p \in Proc, NEW b \in Buf, NEW v \in Value, Writes(p, b, v)
      PROVE  Places'
  BY <1>0, <1>11 DEF Writes, IInv, TypeOK, Places, Locks, Owns
<1>12. ASSUME NEW p \in Proc, NEW b \in Buf, NEW v \in Value, log_write(p, b, v)
      PROVE  Places'
  BY <1>0, <1>12 DEF log_write, At, bufs, IInv, TypeOK, Places, Locks, Owns
<1>13. ASSUME NEW b \in Buf, NEW err \in BOOLEAN, Serves(b, err)
      PROVE  Places'
  <2>1. Has(idequeue, b)
    BY <1>13 DEF Serves, Has, IInv, TypeOK
  <2>2. PICK q \in Proc : pc[q] = "disk" /\ cur[q] = b
    BY <2>1 DEF IInv, Queue
  <2>3. \A r \in Proc : r # q => ~Owns(r, b)
    BY <2>2 DEF IInv, Locks, Owns
  <2> QED
    BY <1>0, <1>13, <2>2, <2>3 DEF Serves, IInv, TypeOK, Places, Owns
<1>14. CASE UNCHANGED vars
  BY <1>14 DEF vars, IInv, TypeOK, Places, Locks, Owns
<1> QED
  BY <1>1, <1>2, <1>3, <1>4, <1>5, <1>6, <1>7, <1>8, <1>9, <1>10, <1>11, <1>12, <1>13, <1>14,
     StepCases

(* Every step keeps the locks. *)
LEMMA LocksStep ==
  ASSUME IInv, [Next]_vars
  PROVE  Locks'
PROOF
<1>0. NoBuf \notin Buf /\ NoBlock \notin Block /\ \A k \in Block : <<k, k>> \notin Nests
  BY BufCacheAssumption
<1>1. ASSUME NEW p \in Proc, NEW k \in Block, NEW b \in Buf, Finds(p, k, b)
      PROVE  Locks'
  BY <1>0, <1>1 DEF Finds, IInv, TypeOK, Places, Locks, Owns
<1>2. ASSUME NEW p \in Proc, NEW k \in Block, NEW b \in Buf, Recycles(p, k, b)
      PROVE  Locks'
  BY <1>0, <1>2 DEF Recycles, IInv, TypeOK, Places, Locks, Owns
<1>3. ASSUME NEW p \in Proc, NEW k \in Block, RunsOut(p, k)
      PROVE  Locks'
  BY <1>0, <1>3 DEF RunsOut, IInv, TypeOK, Places, Locks, Owns
<1>4. ASSUME NEW p \in Proc, acquiresleep_wait(p)
      PROVE  Locks'
  <2>1. \A q \in Proc : \A c \in Buf : Owns(q, c)' <=> Owns(q, c)
    BY <1>0, <1>4 DEF acquiresleep_wait, At, goto, bufs, Owns, IInv, TypeOK, Places
  <2>2. /\ locked' = locked
        /\ \A q \in Proc : pc'[q] = "asleep" => locked[cur'[q]]
    BY <1>0, <1>4 DEF acquiresleep_wait, At, goto, bufs, IInv, TypeOK, Places, Locks
  <2> QED
    BY <2>1, <2>2 DEF IInv, Locks
<1>5. ASSUME NEW p \in Proc, Misses(p)
      PROVE  Locks'
  BY <1>0, <1>5 DEF Misses, IInv, TypeOK, Places, Locks, Owns
<1>6. ASSUME NEW p \in Proc, Hits(p)
      PROVE  Locks'
  BY <1>0, <1>6 DEF Hits, bread_returns, goto, IInv, TypeOK, Places, Locks, Owns
<1>7. ASSUME NEW p \in Proc, Returns(p)
      PROVE  Locks'
  BY <1>0, <1>7 DEF Returns, bread_returns, goto, IInv, TypeOK, Places, Locks, Owns
<1>8. ASSUME NEW p \in Proc, Reads(p)
      PROVE  Locks'
  BY <1>0, <1>8 DEF Reads, IInv, TypeOK, Places, Locks, Owns
<1>9. ASSUME NEW p \in Proc, brelse_unref(p)
      PROVE  Locks'
  <2>1. \A q \in Proc : \A c \in Buf : Owns(q, c)' <=> Owns(q, c)
    BY <1>0, <1>9 DEF brelse_unref, At, goto, Owns, IInv, TypeOK, Places
  <2>2. /\ locked' = locked
        /\ \A q \in Proc : pc'[q] = "asleep" => locked[cur'[q]]
    BY <1>0, <1>9 DEF brelse_unref, At, goto, IInv, TypeOK, Places, Locks
  <2> QED
    BY <2>1, <2>2 DEF IInv, Locks
<1>10. ASSUME NEW p \in Proc, NEW b \in Buf, brelse(p, b)
      PROVE  Locks'
  <2>1. \A q \in Proc : \A c \in Buf : Owns(q, c)' <=> Owns(q, c) /\ ~(q = p /\ c = b)
    BY <1>0, <1>10 DEF brelse, Woken, At, Owns, IInv, TypeOK, Places
  <2>2. \A q \in Proc : Owns(q, b) <=> q = p
    BY <1>10 DEF brelse, Owns, IInv, Locks
  <2>3. /\ locked' = [locked EXCEPT ![b] = FALSE]
        /\ \A q \in Proc : pc'[q] = "asleep" => pc[q] = "asleep" /\ cur'[q] = cur[q] /\ cur[q] # b
    BY <1>10 DEF brelse, Woken, IInv, TypeOK
  <2>4. \A c \in Buf : locked'[c] <=> \E q \in Proc : Owns(q, c)'
    BY <2>1, <2>2, <2>3 DEF IInv, Locks, TypeOK
  <2>5. \A q, r \in Proc : \A c \in Buf : Owns(q, c)' /\ Owns(r, c)' => q = r
    BY <2>1 DEF IInv, Locks
  <2>6. \A q \in Proc : pc'[q] = "asleep" => locked'[cur'[q]]
    BY <2>3 DEF IInv, Locks, Places, TypeOK
  <2> QED
    BY <2>4, <2>5, <2>6 DEF Locks
<1>11. ASSUME NEW p \in Proc, NEW b \in Buf, NEW v \in Value, Writes(p, b, v)
      PROVE  Locks'
  BY <1>0, <1>11 DEF Writes, IInv, TypeOK, Places, Locks, Owns
<1>12. ASSUME NEW p \in Proc, NEW b \in Buf, NEW v \in Value, log_write(p, b, v)
      PROVE  Locks'
  BY <1>0, <1>12 DEF log_write, At, bufs, IInv, TypeOK, Places, Locks, Owns
<1>13. ASSUME NEW b \in Buf, NEW err \in BOOLEAN, Serves(b, err)
      PROVE  Locks'
  BY <1>0, <1>13 DEF Serves, IInv, TypeOK, Places, Locks, Owns
<1>14. CASE UNCHANGED vars
  BY <1>14 DEF vars, IInv, TypeOK, Places, Locks, Owns
<1> QED
  BY <1>1, <1>2, <1>3, <1>4, <1>5, <1>6, <1>7, <1>8, <1>9, <1>10, <1>11, <1>12, <1>13, <1>14,
     StepCases

(* Every step keeps the flags. *)
LEMMA FlagsStep ==
  ASSUME IInv, [Next]_vars
  PROVE  Flags'
PROOF
<1>0. NoBuf \notin Buf /\ NoBlock \notin Block /\ \A k \in Block : <<k, k>> \notin Nests
  BY BufCacheAssumption
<1>1. ASSUME NEW p \in Proc, NEW k \in Block, NEW b \in Buf, Finds(p, k, b)
      PROVE  Flags'
  BY <1>0, <1>1 DEF Finds, IInv, TypeOK, Places, Flags, Mine
<1>2. ASSUME NEW p \in Proc, NEW k \in Block, NEW b \in Buf, Recycles(p, k, b)
      PROVE  Flags'
  <2>0. \A q \in Proc : b \notin held[q] /\ cur[q] # b
    BY <1>2, RecycledUnused DEF Recycles
  <2> QED
    BY <1>0, <1>2, <2>0 DEF Recycles, IInv, TypeOK, Places, Flags, Mine
<1>3. ASSUME NEW p \in Proc, NEW k \in Block, RunsOut(p, k)
      PROVE  Flags'
  BY <1>0, <1>3 DEF RunsOut, IInv, TypeOK, Places, Flags, Mine
<1>4. ASSUME NEW p \in Proc, acquiresleep_wait(p)
      PROVE  Flags'
  BY <1>0, <1>4 DEF acquiresleep_wait, At, goto, bufs, IInv, TypeOK, Places, Flags, Mine
<1>5. ASSUME NEW p \in Proc, Misses(p)
      PROVE  Flags'
  BY <1>0, <1>5 DEF Misses, IInv, TypeOK, Places, Flags, Mine
<1>6. ASSUME NEW p \in Proc, Hits(p)
      PROVE  Flags'
  BY <1>0, <1>6 DEF Hits, bread_returns, goto, IInv, TypeOK, Places, Flags, Mine
<1>7. ASSUME NEW p \in Proc, Returns(p)
      PROVE  Flags'
  BY <1>0, <1>7 DEF Returns, bread_returns, goto, IInv, TypeOK, Places, Flags, Mine
<1>8. ASSUME NEW p \in Proc, Reads(p)
      PROVE  Flags'
  BY <1>0, <1>8 DEF Reads, IInv, TypeOK, Places, Flags, Mine
<1>9. ASSUME NEW p \in Proc, brelse_unref(p)
      PROVE  Flags'
  BY <1>0, <1>9 DEF brelse_unref, At, goto, IInv, TypeOK, Places, Flags, Mine
<1>10. ASSUME NEW p \in Proc, NEW b \in Buf, brelse(p, b)
      PROVE  Flags'
  BY <1>0, <1>10 DEF brelse, Woken, At, goto, bufs, IInv, TypeOK, Places, Flags, Mine
<1>11. ASSUME NEW p \in Proc, NEW b \in Buf, NEW v \in Value, Writes(p, b, v)
      PROVE  Flags'
  BY <1>0, <1>11 DEF Writes, IInv, TypeOK, Places, Flags, Mine
<1>12. ASSUME NEW p \in Proc, NEW b \in Buf, NEW v \in Value, log_write(p, b, v)
      PROVE  Flags'
  BY <1>0, <1>12 DEF log_write, At, bufs, IInv, TypeOK, Places, Flags, Mine
<1>13. ASSUME NEW b \in Buf, NEW err \in BOOLEAN, Serves(b, err)
      PROVE  Flags'
  <2>1. Has(idequeue, b)
    BY <1>13 DEF Serves, Has, IInv, TypeOK
  <2>2. blockno[b] \in Block
    BY <2>1 DEF IInv, Queue, Flags, Mine
  <2> QED
    BY <1>13, <2>2 DEF Serves, IInv, TypeOK, Flags, Mine
<1>14. CASE UNCHANGED vars
  BY <1>14 DEF vars, IInv, TypeOK, Places, Flags, Mine
<1> QED
  BY <1>1, <1>2, <1>3, <1>4, <1>5, <1>6, <1>7, <1>8, <1>9, <1>10, <1>11, <1>12, <1>13, <1>14,
     StepCases

(* What a queue contains after a request has come or has been served       *)
(* (ide.c:153, 113).                                                       *)
LEMMA QueueAppended ==
  ASSUME NEW q \in Seq(Buf), NEW b \in Buf, Distinct(q), ~Has(q, b)
  PROVE  /\ Distinct(Append(q, b))
         /\ \A c \in Buf : Has(Append(q, b), c) <=> Has(q, c) \/ c = b
PROOF
<1>1. Distinct(Append(q, b))
  BY DEF Distinct, Has
<1>2. ASSUME NEW c \in Buf, Has(Append(q, b), c) PROVE Has(q, c) \/ c = b
  BY <1>2 DEF Has
<1>3. ASSUME NEW c \in Buf, Has(q, c) PROVE Has(Append(q, b), c)
  <2>1. PICK i \in DOMAIN q : q[i] = c
    BY <1>3 DEF Has
  <2>2. i \in DOMAIN Append(q, b) /\ Append(q, b)[i] = c
    BY <2>1
  <2> QED
    BY <2>2 DEF Has
<1>4. Has(Append(q, b), b)
  <2>1. Len(q) + 1 \in DOMAIN Append(q, b) /\ Append(q, b)[Len(q) + 1] = b
    OBVIOUS
  <2> QED
    BY <2>1 DEF Has
<1> QED
  BY <1>1, <1>2, <1>3, <1>4

(* Serving a queue takes its first request away and no other. *)
LEMMA QueueServed ==
  ASSUME NEW q \in Seq(Buf), q # <<>>, Distinct(q)
  PROVE  /\ Head(q) \in Buf /\ Has(q, Head(q)) /\ Tail(q) \in Seq(Buf)
         /\ Distinct(Tail(q))
         /\ \A c \in Buf : Has(Tail(q), c) <=> Has(q, c) /\ c # Head(q)
PROOF
<1>1. /\ Head(q) \in Buf /\ Tail(q) \in Seq(Buf)
      /\ 1 \in DOMAIN q /\ q[1] = Head(q)
      /\ \A i \in DOMAIN Tail(q) : i + 1 \in DOMAIN q /\ Tail(q)[i] = q[i + 1] /\ i + 1 # 1
      /\ \A i \in DOMAIN q : i # 1 => i - 1 \in DOMAIN Tail(q) /\ Tail(q)[i - 1] = q[i]
  OBVIOUS
<1>2. Has(q, Head(q))
  BY <1>1 DEF Has
<1>3. Distinct(Tail(q))
  <2> SUFFICES ASSUME NEW i \in DOMAIN Tail(q), NEW j \in DOMAIN Tail(q), Tail(q)[i] = Tail(q)[j]
               PROVE  i = j
    BY DEF Distinct
  <2>1. i + 1 = j + 1
    BY <1>1 DEF Distinct
  <2>2. i \in Nat /\ j \in Nat
    BY <1>1
  <2> QED
    BY <2>1, <2>2
<1>4. ASSUME NEW c \in Buf, Has(Tail(q), c) PROVE Has(q, c) /\ c # Head(q)
  BY <1>1, <1>4 DEF Has, Distinct
<1>5. ASSUME NEW c \in Buf, Has(q, c), c # Head(q) PROVE Has(Tail(q), c)
  <2>1. PICK i \in DOMAIN q : q[i] = c
    BY <1>5 DEF Has
  <2>2. i - 1 \in DOMAIN Tail(q) /\ Tail(q)[i - 1] = c
    BY <1>1, <1>5, <2>1
  <2> QED
    BY <2>2 DEF Has
<1> QED
  BY <1>1, <1>2, <1>3, <1>4, <1>5

(* Every step keeps the queue of the disk. *)
LEMMA QueueStep ==
  ASSUME IInv, [Next]_vars
  PROVE  Queue'
PROOF
<1>0. NoBuf \notin Buf /\ NoBlock \notin Block /\ \A k \in Block : <<k, k>> \notin Nests
  BY BufCacheAssumption
<1>1. ASSUME NEW p \in Proc, NEW k \in Block, NEW b \in Buf, Finds(p, k, b)
      PROVE  Queue'
  BY <1>0, <1>1 DEF Finds, IInv, TypeOK, Places, Queue
<1>2. ASSUME NEW p \in Proc, NEW k \in Block, NEW b \in Buf, Recycles(p, k, b)
      PROVE  Queue'
  BY <1>0, <1>2 DEF Recycles, IInv, TypeOK, Places, Queue
<1>3. ASSUME NEW p \in Proc, NEW k \in Block, RunsOut(p, k)
      PROVE  Queue'
  BY <1>0, <1>3 DEF RunsOut, IInv, TypeOK, Places, Queue
<1>4. ASSUME NEW p \in Proc, acquiresleep_wait(p)
      PROVE  Queue'
  BY <1>0, <1>4 DEF acquiresleep_wait, At, goto, bufs, IInv, TypeOK, Places, Queue
<1>5. ASSUME NEW p \in Proc, Misses(p)
      PROVE  Queue'
  BY <1>0, <1>5 DEF Misses, IInv, TypeOK, Places, Queue
<1>6. ASSUME NEW p \in Proc, Hits(p)
      PROVE  Queue'
  BY <1>0, <1>6 DEF Hits, bread_returns, goto, IInv, TypeOK, Places, Queue
<1>7. ASSUME NEW p \in Proc, Returns(p)
      PROVE  Queue'
  BY <1>0, <1>7 DEF Returns, bread_returns, goto, IInv, TypeOK, Places, Queue
<1>8. ASSUME NEW p \in Proc, Reads(p)
      PROVE  Queue'
  <2>1. cur[p] \in Buf /\ ~Has(idequeue, cur[p])
    BY <1>8 DEF Reads, IInv, Places, Queue, Locks, Owns
  <2>2. /\ Distinct(idequeue')
        /\ \A c \in Buf : Has(idequeue', c) <=> Has(idequeue, c) \/ c = cur[p]
    BY <1>8, <2>1, QueueAppended DEF Reads, IInv, TypeOK, Queue
  <2> QED
    BY <1>8, <2>1, <2>2 DEF Reads, IInv, TypeOK, Places, Queue
<1>9. ASSUME NEW p \in Proc, brelse_unref(p)
      PROVE  Queue'
  BY <1>0, <1>9 DEF brelse_unref, At, goto, IInv, TypeOK, Places, Queue
<1>10. ASSUME NEW p \in Proc, NEW b \in Buf, brelse(p, b)
      PROVE  Queue'
  BY <1>0, <1>10 DEF brelse, Woken, At, goto, bufs, IInv, TypeOK, Places, Queue
<1>11. ASSUME NEW p \in Proc, NEW b \in Buf, NEW v \in Value, Writes(p, b, v)
      PROVE  Queue'
  <2>1. ~Has(idequeue, b)
    BY <1>11 DEF Writes, IInv, Places, Queue, Locks, Owns
  <2>2. /\ Distinct(idequeue')
        /\ \A c \in Buf : Has(idequeue', c) <=> Has(idequeue, c) \/ c = b
    BY <1>11, <2>1, QueueAppended DEF Writes, IInv, TypeOK, Queue
  <2> QED
    BY <1>11, <2>1, <2>2 DEF Writes, IInv, TypeOK, Places, Queue
<1>12. ASSUME NEW p \in Proc, NEW b \in Buf, NEW v \in Value, log_write(p, b, v)
      PROVE  Queue'
  BY <1>0, <1>12 DEF log_write, At, bufs, IInv, TypeOK, Places, Queue
<1>13. ASSUME NEW b \in Buf, NEW err \in BOOLEAN, Serves(b, err)
      PROVE  Queue'
  <2>1. /\ Distinct(idequeue')
        /\ \A c \in Buf : Has(idequeue', c) <=> Has(idequeue, c) /\ c # b
    BY <1>13, QueueServed DEF Serves, IInv, TypeOK, Queue
  <2> QED
    BY <1>13, <2>1 DEF Serves, IInv, TypeOK, Places, Queue
<1>14. CASE UNCHANGED vars
  BY <1>14 DEF vars, IInv, TypeOK, Places, Queue
<1> QED
  BY <1>1, <1>2, <1>3, <1>4, <1>5, <1>6, <1>7, <1>8, <1>9, <1>10, <1>11, <1>12, <1>13, <1>14,
     StepCases

-----------------------------------------------------------------------------
(* Theorems about the invariant. *)

(* binit leaves a cache that satisfies the invariant. *)
LEMMA InitIInv == Init => IInv /\ Durable /\ Nested
PROOF
<1> SUFFICES ASSUME Init PROVE IInv /\ Durable /\ Nested
  OBVIOUS
<1>0. NoBuf \notin Buf /\ NoBlock \notin Block /\ Image \in [Block -> Value] /\ MaxPinned \in Nat
  BY BufCacheAssumption
<1>1. lru \in Seq(Buf) /\ Listed
  <2>1. PICK n \in Nat : n = Cardinality(Buf)
    BY BufCacheAssumption, FS_CardinalityType
  <2>2. lru \in [1..n -> Buf] /\ {lru[i] : i \in DOMAIN lru} = Buf
    BY <2>1 DEF Init
  <2> QED
    BY <2>1, <2>2 DEF Listed
<1>2. TypeOK
  <2>1. data \in [Buf -> Value] /\ disk \in [Block -> Value]
    BY <1>0 DEF Init
  <2>2. /\ blockno \in [Buf -> Block \cup {NoBlock}] /\ refcnt \in [Buf -> Nat]
        /\ valid \in [Buf -> BOOLEAN] /\ dirty \in [Buf -> BOOLEAN]
        /\ locked \in [Buf -> BOOLEAN] /\ panicked \in BOOLEAN
    BY DEF Init
  <2>3. idequeue \in Seq(Buf)
    BY DEF Init
  <2>4. /\ pc \in [Proc -> PC] /\ want \in [Proc -> Block \cup {NoBlock}]
        /\ cur \in [Proc -> Buf \cup {NoBuf}] /\ held \in [Proc -> SUBSET Buf]
    BY DEF Init, PC
  <2> QED
    BY <1>1, <2>1, <2>2, <2>3, <2>4 DEF TypeOK
<1>3. OneBufferPerBlock /\ PanicMeansFull
  BY DEF Init, OneBufferPerBlock, PanicMeansFull
<1>4. RefcntExact
  <2> SUFFICES ASSUME NEW b \in Buf PROVE refcnt[b] = Cardinality(Users(b))
    BY DEF RefcntExact, Users
  <2>1. Users(b) = {}
    BY <1>0 DEF Init, Users
  <2> QED
    BY <2>1, FS_EmptySet DEF Init
<1>5. Places
  BY DEF Init, Places
<1>6. Locks
  BY <1>0 DEF Init, Locks, Owns
<1>7. Flags
  BY <1>0 DEF Init, Flags, Mine
<1>8. Queue
  <2>1. idequeue = <<>>
    BY DEF Init
  <2>2. Distinct(idequeue) /\ \A b \in Buf : ~Has(idequeue, b)
    BY <2>1 DEF Distinct, Has
  <2> QED
    BY <2>2 DEF Init, Queue
<1>9. Durable
  BY DEF Init, Durable
<1>10. Nested
  <2>2. \A p \in Proc : Mine(p) = {}
    BY <1>0 DEF Init, Mine
  <2> QED
    BY <2>2 DEF Nested
<1> QED
  BY <1>1, <1>2, <1>3, <1>4, <1>5, <1>6, <1>7, <1>8, <1>9, <1>10 DEF IInv

(* Every step keeps the invariant. *)
LEMMA IInvStep == IInv /\ [Next]_vars => IInv'
PROOF
  BY TypeStep, OneStep, RefcntStep, PanicStep, ListedStep, PlacesStep, LocksStep, FlagsStep,
     QueueStep DEF IInv

(* For all sets of processes, buffers and blocks: every buffer is locked   *)
(* by one process, and the disk's queue is the processes that wait for it. *)
THEOREM CacheInvariant == Spec => []IInv
PROOF
  BY InitIInv, IInvStep, PTL DEF Spec

-----------------------------------------------------------------------------
(* When bget runs out of buffers. *)

(* A pinned buffer is dirty and not in the queue. *)
LEMMA PinnedIs ==
  ASSUME NEW b \in Buf
  PROVE  b \in Pinned <=> dirty[b] /\ ~Has(idequeue, b)
PROOF
  BY DEF Pinned, Has

(* Every step keeps what a process holds within the callers' order. *)
LEMMA NestedStep ==
  ASSUME IInv, Nested, [Next]_vars
  PROVE  Nested'
PROOF
<1>0. NoBuf \notin Buf /\ NoBlock \notin Block /\ \A k \in Block : <<k, k>> \notin Nests
  BY BufCacheAssumption
<1>1. ASSUME NEW p \in Proc, NEW k \in Block, NEW b \in Buf, Finds(p, k, b)
      PROVE  Nested'
  <2>1. /\ Mine(p)' \subseteq Mine(p) \cup {b}
        /\ \A q \in Proc : q # p => Mine(q)' \subseteq Mine(q)
        /\ \A a \in Mine(p) : a \in held[p]
    BY <1>0, <1>1 DEF Finds, Mine, IInv, TypeOK, Places
  <2>2. \A a \in Mine(p) : Related(blockno[a], blockno[b])
    BY <1>1, <2>1 DEF Finds, Related
  <2>3. blockno' = blockno
    BY <1>1 DEF Finds
  <2> QED
    BY <2>1, <2>2, <2>3 DEF Nested, Related
<1>2. ASSUME NEW p \in Proc, NEW k \in Block, NEW b \in Buf, Recycles(p, k, b)
      PROVE  Nested'
  <2>0. \A q \in Proc : b \notin held[q] /\ cur[q] # b
    BY <1>2, RecycledUnused DEF Recycles
  <2>1. /\ Mine(p)' \subseteq Mine(p) \cup {b}
        /\ \A q \in Proc : q # p => Mine(q)' \subseteq Mine(q)
        /\ \A a \in Mine(p) : a \in held[p]
    BY <1>0, <1>2 DEF Recycles, Mine, IInv, TypeOK, Places
  <2>2. \A a \in Mine(p) : Related(blockno[a], k)
    BY <1>2, <2>1 DEF Recycles, Related
  <2>3. /\ blockno'[b] = k
        /\ \A a \in Buf : a # b => blockno'[a] = blockno[a]
    BY <1>2 DEF Recycles, IInv, TypeOK
  <2>4. \A q \in Proc : \A a \in Mine(q) : a \in Buf /\ a # b
    BY <2>0 DEF Mine
  <2>5. \A q \in Proc : \A a, c \in Mine(q) : a # c => Related(blockno'[a], blockno'[c])
    BY <2>3, <2>4 DEF Nested
  <2>6. \A a \in Mine(p) : Related(blockno'[a], blockno'[b]) /\ Related(blockno'[b], blockno'[a])
    BY <2>2, <2>3, <2>4 DEF Related
  <2>7. \A q \in Proc : \A a, c \in Mine(q)' : a # c => Related(blockno'[a], blockno'[c])
    BY <2>1, <2>5, <2>6
  <2> QED
    BY <2>7 DEF Nested
<1>3. ASSUME NEW p \in Proc, NEW k \in Block, RunsOut(p, k)
      PROVE  Nested'
  <2>1. \A q \in Proc : Mine(q)' \subseteq Mine(q)
    BY <1>0, <1>3 DEF RunsOut, Mine, IInv, TypeOK, Places
  <2>2. blockno' = blockno
    BY <1>3 DEF RunsOut
  <2> QED
    BY <2>1, <2>2 DEF Nested, Related
<1>4. ASSUME NEW p \in Proc, acquiresleep_wait(p)
      PROVE  Nested'
  <2>1. \A q \in Proc : Mine(q)' \subseteq Mine(q)
    BY <1>0, <1>4 DEF acquiresleep_wait, At, goto, bufs, Mine, IInv, TypeOK, Places
  <2>2. blockno' = blockno
    BY <1>4 DEF acquiresleep_wait, At, goto, bufs
  <2> QED
    BY <2>1, <2>2 DEF Nested, Related
<1>5. ASSUME NEW p \in Proc, Misses(p)
      PROVE  Nested'
  <2>1. \A q \in Proc : Mine(q)' \subseteq Mine(q)
    BY <1>0, <1>5 DEF Misses, Mine, IInv, TypeOK, Places
  <2>2. blockno' = blockno
    BY <1>5 DEF Misses
  <2> QED
    BY <2>1, <2>2 DEF Nested, Related
<1>6. ASSUME NEW p \in Proc, Hits(p)
      PROVE  Nested'
  <2>1. \A q \in Proc : Mine(q)' \subseteq Mine(q)
    BY <1>0, <1>6 DEF Hits, bread_returns, goto, Mine, IInv, TypeOK, Places
  <2>2. blockno' = blockno
    BY <1>6 DEF Hits, bread_returns, goto
  <2> QED
    BY <2>1, <2>2 DEF Nested, Related
<1>7. ASSUME NEW p \in Proc, Returns(p)
      PROVE  Nested'
  <2>1. \A q \in Proc : Mine(q)' \subseteq Mine(q)
    BY <1>0, <1>7 DEF Returns, bread_returns, goto, Mine, IInv, TypeOK, Places
  <2>2. blockno' = blockno
    BY <1>7 DEF Returns, bread_returns, goto
  <2> QED
    BY <2>1, <2>2 DEF Nested, Related
<1>8. ASSUME NEW p \in Proc, Reads(p)
      PROVE  Nested'
  <2>1. \A q \in Proc : Mine(q)' \subseteq Mine(q)
    BY <1>0, <1>8 DEF Reads, Mine, IInv, TypeOK, Places
  <2>2. blockno' = blockno
    BY <1>8 DEF Reads
  <2> QED
    BY <2>1, <2>2 DEF Nested, Related
<1>9. ASSUME NEW p \in Proc, brelse_unref(p)
      PROVE  Nested'
  <2>1. \A q \in Proc : Mine(q)' \subseteq Mine(q)
    BY <1>0, <1>9 DEF brelse_unref, At, goto, Mine, IInv, TypeOK, Places
  <2>2. blockno' = blockno
    BY <1>9 DEF brelse_unref, At, goto
  <2> QED
    BY <2>1, <2>2 DEF Nested, Related
<1>10. ASSUME NEW p \in Proc, NEW b \in Buf, brelse(p, b)
      PROVE  Nested'
  <2>1. \A q \in Proc : Mine(q)' \subseteq Mine(q)
    BY <1>0, <1>10 DEF brelse, Woken, At, goto, bufs, Mine, IInv, TypeOK, Places
  <2>2. blockno' = blockno
    BY <1>10 DEF brelse, Woken, At, goto, bufs
  <2> QED
    BY <2>1, <2>2 DEF Nested, Related
<1>11. ASSUME NEW p \in Proc, NEW b \in Buf, NEW v \in Value, Writes(p, b, v)
      PROVE  Nested'
  <2>1. \A q \in Proc : Mine(q)' \subseteq Mine(q)
    BY <1>0, <1>11 DEF Writes, Mine, IInv, TypeOK, Places
  <2>2. blockno' = blockno
    BY <1>11 DEF Writes
  <2> QED
    BY <2>1, <2>2 DEF Nested, Related
<1>12. ASSUME NEW p \in Proc, NEW b \in Buf, NEW v \in Value, log_write(p, b, v)
      PROVE  Nested'
  <2>1. \A q \in Proc : Mine(q)' \subseteq Mine(q)
    BY <1>0, <1>12 DEF log_write, At, bufs, Mine, IInv, TypeOK, Places
  <2>2. blockno' = blockno
    BY <1>12 DEF log_write, At, bufs
  <2> QED
    BY <2>1, <2>2 DEF Nested, Related
<1>13. ASSUME NEW b \in Buf, NEW err \in BOOLEAN, Serves(b, err)
      PROVE  Nested'
  <2>1. \A q \in Proc : Mine(q)' \subseteq Mine(q)
    BY <1>0, <1>13 DEF Serves, Mine, IInv, TypeOK, Places
  <2>2. blockno' = blockno
    BY <1>13 DEF Serves
  <2> QED
    BY <2>1, <2>2 DEF Nested, Related
<1>14. CASE UNCHANGED vars
  BY <1>14 DEF vars, Nested, Mine
<1> QED
  BY <1>1, <1>2, <1>3, <1>4, <1>5, <1>6, <1>7, <1>8, <1>9, <1>10, <1>11, <1>12, <1>13, <1>14,
     StepCases

(* When a process calls bget, fewer than two buffers per active process    *)
(* are in use: each is the first or the second one of some process, and    *)
(* the caller has no second one.                                           *)
LEMMA UsedFew ==
  ASSUME IInv, Nested, NEW p \in Proc, NEW k \in Block,
         cur[p] = NoBuf, \A c \in held[p] : <<blockno[c], k>> \in Nests
  PROVE  LET used == {b \in Buf : refcnt[b] # 0}
             act == Active \cup {p}
         IN  /\ IsFiniteSet(used) /\ Cardinality(act) \in Nat
             /\ Cardinality(used) <= 2 * Cardinality(act) - 1
PROOF
<1> DEFINE used == {b \in Buf : refcnt[b] # 0}
           first(q) == CHOOSE b \in Buf : b \in Mine(q)
           owner(b) == CHOOSE q \in Proc : b \in Mine(q)
           place(b) == <<owner(b), IF b = first(owner(b)) THEN 1 ELSE 2>>
           act == Active \cup {p}
           all == act \X {1, 2}
           f == [b \in used |-> place(b)]
<1>1. \A b \in used : owner(b) \in Proc /\ b \in Mine(owner(b)) /\ owner(b) \in act
  <2>0. \A q \in Proc : \A b \in Mine(q) : q \in act
    BY BufCacheAssumption DEF Mine, Active
  <2> SUFFICES ASSUME NEW b \in used PROVE \E q \in Proc : b \in Mine(q)
    BY <2>0
  <2>1. refcnt[b] = Cardinality(Users(b))
    BY DEF IInv, RefcntExact, Users
  <2>2. Users(b) # {}
    BY <2>1, FS_EmptySet
  <2> QED
    BY <2>2 DEF Users, Mine
<1>2. \A q \in Proc : \A b \in Mine(q) : first(q) \in Mine(q) /\ b \in Buf
  BY DEF Mine
<1>3. \A q \in Proc : \A a, b, c \in Mine(q) : a = b \/ b = c \/ a = c
  <2> SUFFICES ASSUME NEW q \in Proc, NEW a \in Mine(q), NEW b \in Mine(q), NEW c \in Mine(q),
                      a # b, b # c, a # c
               PROVE  FALSE
    OBVIOUS
  <2>1. blockno[a] \in Block /\ blockno[b] \in Block /\ blockno[c] \in Block
    BY DEF IInv, Flags
  <2>2. Related(blockno[a], blockno[b]) /\ Related(blockno[b], blockno[c])
        /\ Related(blockno[a], blockno[c])
    BY DEF Nested
  <2> QED
    BY <2>1, <2>2, BufCacheAssumption
<1>4. \A a, b \in Mine(p) : a = b
  <2> SUFFICES ASSUME NEW a \in Mine(p), NEW b \in Mine(p), a # b PROVE FALSE
    OBVIOUS
  <2>1. blockno[a] \in Block /\ blockno[b] \in Block /\ Related(blockno[a], blockno[b])
    BY DEF IInv, Flags, Nested
  <2>2. a \in held[p] /\ b \in held[p]
    BY BufCacheAssumption DEF Mine
  <2>3. Related(blockno[a], k) /\ Related(blockno[b], k)
    BY <2>2 DEF Related
  <2> QED
    BY <2>1, <2>3, BufCacheAssumption
<1> HIDE DEF first, owner
<1>5. \A b \in used : place(b) \in all \ {<<p, 2>>}
  <2> SUFFICES ASSUME NEW b \in used PROVE place(b) \in all /\ place(b) # <<p, 2>>
    OBVIOUS
  <2>1. owner(b) \in act /\ b \in Mine(owner(b)) /\ first(owner(b)) \in Mine(owner(b))
    BY <1>1, <1>2
  <2>2. owner(b) = p => b = first(owner(b))
    BY <1>4, <2>1
  <2> QED
    BY <2>1, <2>2
<1>6. \A a, b \in used : place(a) = place(b) => a = b
  <2> SUFFICES ASSUME NEW a \in used, NEW b \in used, place(a) = place(b) PROVE a = b
    OBVIOUS
  <2>1. owner(a) = owner(b) /\ (a = first(owner(a)) <=> b = first(owner(b)))
    OBVIOUS
  <2>2. /\ owner(a) \in Proc /\ a \in Mine(owner(a)) /\ b \in Mine(owner(a))
        /\ first(owner(a)) \in Mine(owner(a))
    BY <1>1, <1>2, <2>1
  <2>3. a = b \/ b = first(owner(a)) \/ a = first(owner(a))
    BY <1>3, <2>2
  <2> QED
    BY <2>1, <2>3
<1>7. f \in Injection(used, all \ {<<p, 2>>})
  <2>1. f \in [used -> all \ {<<p, 2>>}]
    BY <1>5
  <2>2. \A a, b \in used : f[a] = f[b] => a = b
    BY <1>6
  <2> HIDE DEF f
  <2> QED
    BY <2>1, <2>2 DEF Injection, IsInjective
<1>8. IsFiniteSet(all) /\ Cardinality(all) = 2 * Cardinality(act) /\ Cardinality(act) \in Nat
  <2>1. IsFiniteSet({1, 2}) /\ Cardinality({1, 2}) = 2
    <3>1. IsFiniteSet({1}) /\ Cardinality({1}) = 1
      BY FS_Singleton
    <3>2. IsFiniteSet({1} \cup {2}) /\ Cardinality({1} \cup {2}) = 2
      BY <3>1, FS_AddElement, SMTT(30)
    <3>3. {1} \cup {2} = {1, 2}
      OBVIOUS
    <3> QED
      BY <3>2, <3>3
  <2>2. IsFiniteSet(act) /\ Cardinality(act) \in Nat
    <3>1. act \in SUBSET Proc
      BY DEF Active
    <3>2. IsFiniteSet(act)
      BY <3>1, BufCacheAssumption, FS_Subset
    <3> QED
      BY <3>2, FS_CardinalityType
  <2> HIDE DEF act
  <2>3. IsFiniteSet(all) /\ Cardinality(all) = Cardinality(act) * Cardinality({1, 2})
    BY <2>1, <2>2, FS_Product
  <2> QED
    BY <2>1, <2>2, <2>3
<1>9. <<p, 2>> \in all
  OBVIOUS
<1> HIDE DEF used, all, f, act
<1>10. IsFiniteSet(all \ {<<p, 2>>}) /\ Cardinality(all \ {<<p, 2>>}) = 2 * Cardinality(act) - 1
  BY <1>8, <1>9, FS_RemoveElement
<1>11. IsFiniteSet(used) /\ Cardinality(used) <= 2 * Cardinality(act) - 1
  BY <1>7, <1>10, FS_Injection
<1> QED
  BY <1>8, <1>11 DEF used, act

(* bget panics with every buffer in use or pinned. *)
LEMMA BgetExhausts ==
  ASSUME IInv, Nested, NEW p \in Proc, NEW k \in Block, RunsOut(p, k)
  PROVE  PanicMeansExhausted'
PROOF
<1> DEFINE used == {b \in Buf : refcnt[b] # 0}
           act == Active \cup {p}
<1>1. cur[p] = NoBuf /\ \A c \in held[p] : <<blockno[c], k>> \in Nests
  BY DEF RunsOut, IInv, Places
<1>2. /\ IsFiniteSet(used) /\ Cardinality(act) \in Nat
      /\ Cardinality(used) <= 2 * Cardinality(act) - 1
  BY <1>1, UsedFew
<1>3. \A b \in Buf : b \in used \/ b \in Pinned
  <2> SUFFICES ASSUME NEW b \in Buf, refcnt[b] = 0 PROVE b \in Pinned
    OBVIOUS
  <2>1. dirty[b]
    BY DEF RunsOut, Recyclable
  <2>2. \A q \in Proc : cur[q] # b
    BY RecycledUnused
  <2>3. ~Has(idequeue, b)
    BY <2>2 DEF IInv, Queue
  <2> QED
    BY <2>1, <2>3, PinnedIs
<1>4. IsFiniteSet(Pinned)
  <2>1. Pinned \in SUBSET Buf
    BY DEF Pinned
  <2> QED
    BY <2>1, BufCacheAssumption, FS_Subset
<1>5. Active' = act
  <2>1. /\ k # NoBlock /\ UNCHANGED <<cur, held>> /\ want \in [Proc -> Block \cup {NoBlock}]
        /\ want' = [want EXCEPT ![p] = k]
    BY BufCacheAssumption DEF RunsOut, IInv, TypeOK
  <2> QED
    BY <2>1 DEF Active
<1>6. Pinned' = Pinned
  BY DEF RunsOut, Pinned
<1> HIDE DEF used, act
<1>7. /\ IsFiniteSet(used \cup Pinned)
      /\ Cardinality(used \cup Pinned) =
           Cardinality(used) + Cardinality(Pinned) - Cardinality(used \cap Pinned)
  BY <1>2, <1>4, FS_Union
<1>8. Buf \in SUBSET (used \cup Pinned)
  BY <1>3
<1>9. Cardinality(Buf) <= Cardinality(used \cup Pinned)
  BY <1>7, <1>8, FS_Subset
<1>10. IsFiniteSet(used \cap Pinned)
  BY <1>2, FS_Intersection
<1>11. /\ Cardinality(used) \in Nat /\ Cardinality(Pinned) \in Nat /\ Cardinality(Buf) \in Nat
       /\ Cardinality(used \cap Pinned) \in Nat
  BY <1>2, <1>4, <1>10, FS_CardinalityType, BufCacheAssumption
<1>12. Cardinality(Buf) < Cardinality(Pinned) + 2 * Cardinality(act)
  BY <1>2, <1>7, <1>9, <1>11
<1> QED
  BY <1>5, <1>6, <1>12 DEF PanicMeansExhausted

(* For all sets of processes, buffers and blocks: a block is in one        *)
(* buffer, its users are counted, and nobody waits in vain; the panics of  *)
(* iderw and brelse are out of reach, and bget panics (bio.c:92) only when *)
(* the pinned buffers and two for each process that has or wants one are   *)
(* more than there are (bio.c, sleeplock.c, ide.c).                        *)
THEOREM CacheIsSafe == Spec => []CacheSafe
PROOF
<1> DEFINE J == IInv /\ Nested /\ PanicMeansExhausted
<1>1. Init => J
  BY InitIInv DEF PanicMeansExhausted, Init
<1>2. J /\ [Next]_vars => J'
  <2> SUFFICES ASSUME J, [Next]_vars PROVE J'
    OBVIOUS
  <2>1. IInv' /\ Nested'
    BY IInvStep, NestedStep
  <2>2. ASSUME NEW q \in Proc, NEW k \in Block, RunsOut(q, k) PROVE PanicMeansExhausted'
    BY <2>2, BgetExhausts
  <2>3. ASSUME UNCHANGED vars PROVE PanicMeansExhausted'
    <3>1. Pinned' = Pinned /\ Active' = Active /\ panicked' = panicked
      BY <2>3 DEF vars, Pinned, Active
    <3> QED
      BY <3>1 DEF PanicMeansExhausted
  <2>4. ASSUME ~panicked' PROVE PanicMeansExhausted'
    BY <2>4 DEF PanicMeansExhausted
  <2>5. ASSUME NEW q \in Proc, NEW b \in Buf, brelse(q, b) PROVE ~panicked'
    BY <2>5 DEF brelse, IInv, Locks, Owns
  <2>6. PanicMeansExhausted'
    BY <2>2, <2>3, <2>4, <2>5, StepCases
       DEF Finds, Recycles, acquiresleep_wait, At, Misses, Hits, Returns, Reads, brelse_unref,
           Writes, log_write, Serves
  <2> QED
    BY <2>1, <2>6
<1>3. J => CacheSafe
  BY DEF IInv, Locks, Queue, Has, NoMissedWakeup, CacheSafe
<1> QED
  BY <1>1, <1>2, <1>3, PTL DEF Spec

-----------------------------------------------------------------------------
(* The cache implements BlockStore. *)

(* Every step keeps the disk like the valid buffers that are not dirty.    *)
LEMMA DurableStep ==
  ASSUME IInv, Durable, [Next]_vars
  PROVE  Durable'
PROOF
<1>0. NoBuf \notin Buf /\ NoBlock \notin Block /\ \A k \in Block : <<k, k>> \notin Nests
  BY BufCacheAssumption
<1>1. ASSUME NEW p \in Proc, NEW k \in Block, NEW b \in Buf, Finds(p, k, b)
      PROVE  Durable'
  <2>1. UNCHANGED <<blockno, valid, dirty, data, disk, idequeue>>
    BY <1>1 DEF Finds
  <2> QED
    BY <2>1 DEF Durable
<1>2. ASSUME NEW p \in Proc, NEW k \in Block, NEW b \in Buf, Recycles(p, k, b)
      PROVE  Durable'
  <2>0. \A q \in Proc : b \notin held[q] /\ cur[q] # b
    BY <1>2, RecycledUnused DEF Recycles
  <2>1. idequeue # <<>> => Head(idequeue) \in Buf /\ Head(idequeue) # b
    <3> SUFFICES ASSUME idequeue # <<>> PROVE Head(idequeue) \in Buf /\ Head(idequeue) # b
      OBVIOUS
    <3>1. Head(idequeue) \in Buf /\ Has(idequeue, Head(idequeue))
      BY QueueServed DEF IInv, TypeOK, Queue
    <3> QED
      BY <2>0, <3>1 DEF IInv, Queue
  <2> QED
    BY <1>2, <2>1 DEF Recycles, IInv, TypeOK, Durable
<1>3. ASSUME NEW p \in Proc, NEW k \in Block, RunsOut(p, k)
      PROVE  Durable'
  <2>1. UNCHANGED <<blockno, valid, dirty, data, disk, idequeue>>
    BY <1>3 DEF RunsOut
  <2> QED
    BY <2>1 DEF Durable
<1>4. ASSUME NEW p \in Proc, acquiresleep_wait(p)
      PROVE  Durable'
  <2>1. UNCHANGED <<blockno, valid, dirty, data, disk, idequeue>>
    BY <1>4 DEF acquiresleep_wait, At, goto, bufs
  <2> QED
    BY <2>1 DEF Durable
<1>5. ASSUME NEW p \in Proc, Misses(p)
      PROVE  Durable'
  <2>1. UNCHANGED <<blockno, valid, dirty, data, disk, idequeue>>
    BY <1>5 DEF Misses
  <2> QED
    BY <2>1 DEF Durable
<1>6. ASSUME NEW p \in Proc, Hits(p)
      PROVE  Durable'
  <2>1. UNCHANGED <<blockno, valid, dirty, data, disk, idequeue>>
    BY <1>6 DEF Hits, bread_returns, goto
  <2> QED
    BY <2>1 DEF Durable
<1>7. ASSUME NEW p \in Proc, Returns(p)
      PROVE  Durable'
  <2>1. UNCHANGED <<blockno, valid, dirty, data, disk, idequeue>>
    BY <1>7 DEF Returns, bread_returns, goto
  <2> QED
    BY <2>1 DEF Durable
<1>8. ASSUME NEW p \in Proc, Reads(p)
      PROVE  Durable'
  <2>1. ~dirty[cur[p]]
    BY <1>8 DEF Reads, IInv, Places, Flags
  <2>2. idequeue \in Seq(Buf) /\ cur[p] \in Buf
    BY <1>8 DEF Reads, IInv, TypeOK, Places
  <2>3. Head(idequeue') = IF idequeue = <<>> THEN cur[p] ELSE Head(idequeue)
    BY <1>8, <2>2 DEF Reads
  <2> QED
    BY <1>8, <2>1, <2>2, <2>3 DEF Reads, Durable
<1>9. ASSUME NEW p \in Proc, brelse_unref(p)
      PROVE  Durable'
  <2>1. UNCHANGED <<blockno, valid, dirty, data, disk, idequeue>>
    BY <1>9 DEF brelse_unref, At, goto
  <2> QED
    BY <2>1 DEF Durable
<1>10. ASSUME NEW p \in Proc, NEW b \in Buf, brelse(p, b)
      PROVE  Durable'
  <2>1. UNCHANGED <<blockno, valid, dirty, data, disk, idequeue>>
    BY <1>10 DEF brelse, Woken, At, goto, bufs
  <2> QED
    BY <2>1 DEF Durable
<1>11. ASSUME NEW p \in Proc, NEW b \in Buf, NEW v \in Value, Writes(p, b, v)
      PROVE  Durable'
  <2>1. ~Has(idequeue, b) /\ blockno[b] \in Block /\ idequeue \in Seq(Buf)
    BY <1>11 DEF Writes, IInv, TypeOK, Places, Queue, Locks, Owns, Flags, Mine
  <2>2. Head(idequeue') = IF idequeue = <<>> THEN b ELSE Head(idequeue)
    BY <1>11, <2>1 DEF Writes
  <2>3. idequeue # <<>> => Head(idequeue) \in Buf /\ Head(idequeue) # b
    BY <2>1, QueueServed DEF IInv, Queue
  <2>4. /\ data'[b] = v /\ dirty'[b]
        /\ \A c \in Buf : c # b => data'[c] = data[c] /\ dirty'[c] = dirty[c]
        /\ UNCHANGED <<valid, blockno>>
    BY <1>11 DEF Writes, IInv, TypeOK
  <2>5. \A c \in Buf : c # b => blockno[c] # blockno[b]
    BY <1>0, <2>1 DEF IInv, OneBufferPerBlock
  <2>6. \A j \in Block : j # blockno[b] => disk'[j] = disk[j]
    BY <1>11 DEF Writes, IInv, TypeOK
  <2>7. idequeue = <<>> => disk'[blockno[b]] = v
    BY <1>11, <2>1 DEF Writes, IInv, TypeOK
  <2>8. ASSUME NEW c \in Buf, valid'[c], ~dirty'[c], blockno'[c] \notin Faulty
        PROVE  data'[c] = disk'[blockno'[c]]
    <3>1. c # b /\ valid[c] /\ ~dirty[c] /\ blockno[c] \in Block
      BY <2>4, <2>8 DEF IInv, Flags
    <3> QED
      BY <2>4, <2>5, <2>6, <2>8, <3>1 DEF Durable
  <2>9. CASE idequeue = <<>>
    BY <2>2, <2>4, <2>7, <2>8, <2>9 DEF Durable
  <2>10. CASE idequeue # <<>>
    <3>1. disk' = disk
      BY <1>11, <2>10 DEF Writes
    <3> QED
      BY <2>2, <2>3, <2>4, <2>8, <2>10, <3>1 DEF Durable
  <2> QED
    BY <2>9, <2>10
<1>12. ASSUME NEW p \in Proc, NEW b \in Buf, NEW v \in Value, log_write(p, b, v)
      PROVE  Durable'
  <2>1. ~Has(idequeue, b)
    BY <1>12 DEF log_write, At, IInv, Places, Queue, Locks, Owns
  <2>2. idequeue # <<>> => Head(idequeue) \in Buf /\ Head(idequeue) # b
    BY <2>1, QueueServed DEF IInv, TypeOK, Queue
  <2> QED
    BY <1>12, <2>2 DEF log_write, bufs, IInv, TypeOK, Durable
<1>13. ASSUME NEW b \in Buf, NEW err \in BOOLEAN, Serves(b, err)
      PROVE  Durable'
  <2> DEFINE n == Head(Tail(idequeue))
             more == Tail(idequeue) # <<>>
  <2>1. Has(idequeue, b) /\ idequeue' \in Seq(Buf) /\ Distinct(idequeue')
    BY <1>13, QueueServed DEF Serves, IInv, TypeOK, Queue
  <2>2. blockno[b] \in Block
    BY <2>1 DEF IInv, Queue, Flags, Mine
  <2>3. more => n \in Buf /\ n # b /\ blockno[n] \in Block
    <3> SUFFICES ASSUME more PROVE n \in Buf /\ n # b /\ blockno[n] \in Block
      OBVIOUS
    <3>1. n \in Buf /\ Has(Tail(idequeue), n)
      BY <1>13, <2>1, QueueServed DEF Serves
    <3>2. Has(idequeue, n) /\ n # b
      BY <1>13, <3>1, QueueServed DEF Serves, IInv, TypeOK, Queue
    <3> QED
      BY <3>1, <3>2 DEF IInv, Queue, Flags, Mine
  <2>4. \A c, d \in Buf : c # d /\ blockno[d] \in Block => blockno[c] # blockno[d]
    BY <1>0 DEF IInv, OneBufferPerBlock
  <2>5. /\ \A c \in Buf : c # b => /\ data'[c] = data[c] /\ dirty'[c] = dirty[c]
                                   /\ valid'[c] = valid[c]
        /\ ~dirty'[b] /\ valid'[b] /\ blockno' = blockno /\ idequeue' = Tail(idequeue)
    BY <1>13 DEF Serves, IInv, TypeOK
  <2>6. data'[b] = IF dirty[b] \/ err THEN data[b] ELSE disk[blockno[b]]
    BY <1>13 DEF Serves, IInv, TypeOK
  <2>7. data'[b] = disk[blockno[b]] \/ blockno[b] \in Faulty
    BY <1>13, <2>6 DEF Serves, Durable
  <2>8. /\ more /\ dirty[n] => disk'[blockno[n]] = data[n]
        /\ \A j \in Block : ~(more /\ dirty[n] /\ j = blockno[n]) => disk'[j] = disk[j]
    BY <1>13, <2>3 DEF Serves, IInv, TypeOK
  <2> HIDE DEF n, more
  <2>9. ASSUME NEW c \in Buf, valid'[c], ~dirty'[c], blockno'[c] \notin Faulty
        PROVE  data'[c] = disk'[blockno'[c]]
    <3>1. CASE c = b
      <4>1. disk'[blockno[b]] = disk[blockno[b]]
        BY <2>2, <2>3, <2>4, <2>8
      <4> QED
        BY <2>5, <2>7, <2>9, <3>1, <4>1
    <3>2. CASE c # b
      <4>1. valid[c] /\ ~dirty[c] /\ blockno[c] \in Block /\ blockno[c] \notin Faulty
        BY <2>5, <2>9, <3>2 DEF IInv, Flags
      <4>2. more /\ dirty[n] => n # c
        BY <4>1
      <4>3. disk'[blockno[c]] = disk[blockno[c]]
        BY <2>3, <2>4, <2>8, <4>1, <4>2
      <4> QED
        BY <2>5, <3>2, <4>1, <4>3 DEF Durable
    <3> QED
      BY <3>1, <3>2
  <2>10. idequeue' # <<>> /\ dirty'[Head(idequeue')] =>
           data'[Head(idequeue')] = disk'[blockno'[Head(idequeue')]]
    BY <2>3, <2>5, <2>8 DEF n, more
  <2> QED
    BY <2>9, <2>10 DEF Durable
<1>14. CASE UNCHANGED vars
  BY <1>14 DEF vars, Durable
<1> QED
  BY <1>1, <1>2, <1>3, <1>4, <1>5, <1>6, <1>7, <1>8, <1>9, <1>10, <1>11, <1>12, <1>13, <1>14,
     StepCases

(* The contents and the holder of a block, as functions of the state. *)
ContentsOf(k, bn, va, da, di) ==
  LET cached == {b \in {c \in Buf : bn[c] = k} : va[b]}
  IN  IF cached = {} THEN di[k] ELSE da[CHOOSE b \in cached : TRUE]

OneOf(ps) == IF ps = {} THEN NoProc ELSE CHOOSE p \in ps : TRUE
HolderOf(k, h, bn) == OneOf({p \in Proc : \E b \in h[p] : bn[b] = k})

(* A block that one valid buffer holds has the contents of that buffer. *)
LEMMA ContentsCached ==
  ASSUME NEW k, NEW bn, NEW va, NEW da, NEW di, NEW b \in Buf, bn[b] = k, va[b],
         \A c \in Buf : bn[c] = k => c = b
  PROVE  ContentsOf(k, bn, va, da, di) = da[b]
PROOF
<1>1. {c \in {d \in Buf : bn[d] = k} : va[c]} = {b}
  OBVIOUS
<1>2. (CHOOSE c \in {b} : TRUE) = b
  OBVIOUS
<1> QED
  BY <1>1, <1>2 DEF ContentsOf

(* A block that no valid buffer holds has the contents of the disk. *)
LEMMA ContentsOnDisk ==
  ASSUME NEW k, NEW bn, NEW va, NEW da, NEW di, \A c \in Buf : bn[c] = k => ~va[c]
  PROVE  ContentsOf(k, bn, va, da, di) = di[k]
PROOF
<1>1. {c \in {d \in Buf : bn[d] = k} : va[c]} = {}
  OBVIOUS
<1> QED
  BY <1>1 DEF ContentsOf

(* The holder of a block that one process has locked is that process. *)
LEMMA HolderHas ==
  ASSUME NEW k, NEW h, NEW bn, NEW p \in Proc, \E b \in h[p] : bn[b] = k,
         \A q \in Proc : \A c \in h[q] : bn[c] = k => q = p
  PROVE  HolderOf(k, h, bn) = p
PROOF
<1>1. {q \in Proc : \E b \in h[q] : bn[b] = k} = {p}
  OBVIOUS
<1>2. (CHOOSE q \in {p} : TRUE) = p
  OBVIOUS
<1> QED
  BY <1>1, <1>2 DEF HolderOf, OneOf

(* A block that no process has locked has no holder. *)
LEMMA HolderNone ==
  ASSUME NEW k, NEW h, NEW bn, \A q \in Proc : \A c \in h[q] : bn[c] # k
  PROVE  HolderOf(k, h, bn) = NoProc
PROOF
<1>1. {q \in Proc : \E b \in h[q] : bn[b] = k} = {}
  OBVIOUS
<1> QED
  BY <1>1 DEF HolderOf, OneOf

(* The holder of a block depends on who has locked it and nothing else. *)
LEMMA HolderSame ==
  ASSUME NEW k, NEW h, NEW bn, NEW g, NEW cn,
         \A q \in Proc : (\E c \in g[q] : cn[c] = k) <=> (\E c \in h[q] : bn[c] = k)
  PROVE  HolderOf(k, g, cn) = HolderOf(k, h, bn)
PROOF
<1>1. {q \in Proc : \E b \in g[q] : cn[b] = k} = {q \in Proc : \E b \in h[q] : bn[b] = k}
  OBVIOUS
<1> QED
  BY <1>1 DEF HolderOf

(* The variables of BlockStore. *)
Mem == [k \in Block \ Faulty |-> ContentsOf(k, blockno, valid, data, disk)]
Hold == [k \in Block |-> HolderOf(k, held, blockno)]

(* Mem is the mem that the cache shows to BlockStore. *)
LEMMA MemIs == /\ Mem = [k \in Block \ Faulty |-> Contents(k)]
               /\ Mem' = [k \in Block \ Faulty |-> Contents(k)']
               /\ Mem' = [k \in Block \ Faulty |-> ContentsOf(k, blockno', valid', data', disk')]
PROOF
  BY DEF Mem, ContentsOf, Contents, Cached

(* Hold is the holder that the cache shows to BlockStore. *)
LEMMA HoldIs == /\ Hold = [k \in Block |-> Holder(k)]
                /\ Hold' = [k \in Block |-> Holder(k)']
                /\ Hold' = [k \in Block |-> HolderOf(k, held', blockno')]
PROOF
  BY DEF Hold, HolderOf, OneOf, Holder

(* The steps of BlockStore, told in terms of Mem and Hold. *)
LEMMA StoreStutters ==
  ASSUME Mem' = Mem, Hold' = Hold, want' = want
  PROVE  UNCHANGED S!vars
PROOF
  BY MemIs, HoldIs DEF S!vars

(* A process that starts bread requests the block. *)
LEMMA StoreRequests ==
  ASSUME NEW p \in Proc, NEW k \in Block, want[p] = NoBlock,
         want' = [want EXCEPT ![p] = k], Mem' = Mem, Hold' = Hold
  PROVE  S!Next
PROOF
<1>1. S!Request(p, k)
  BY MemIs, HoldIs DEF S!Request
<1> QED
  BY <1>1 DEF S!Next

(* A process that returns from bread has been granted the block. *)
LEMMA StoreGrants ==
  ASSUME NEW p \in Proc, want[p] \in Block, Hold[want[p]] = NoProc,
         want' = [want EXCEPT ![p] = NoBlock], Mem' = Mem,
         Hold' = [Hold EXCEPT ![want[p]] = p]
  PROVE  S!Next
PROOF
<1>1. want[p] # NoBlock
  BY BufCacheAssumption
<1>2. S!Grant(p)
  BY <1>1, MemIs, HoldIs DEF S!Grant
<1> QED
  BY <1>2 DEF S!Next

(* A store into the data of a locked buffer writes the block. *)
LEMMA StoreWrites ==
  ASSUME NEW p \in Proc, NEW k \in Block \ Faulty, NEW v \in Value, Hold[k] = p,
         Mem' = [Mem EXCEPT ![k] = v], Hold' = Hold, want' = want
  PROVE  S!Next
PROOF
<1>1. S!Write(p, k, v)
  BY MemIs, HoldIs DEF S!Write
<1> QED
  BY <1>1 DEF S!Next

(* brelse releases the block. *)
LEMMA StoreReleases ==
  ASSUME NEW p \in Proc, NEW k \in Block, Hold[k] = p,
         Hold' = [Hold EXCEPT ![k] = NoProc], Mem' = Mem, want' = want
  PROVE  S!Next
PROOF
<1>1. S!Release(p, k)
  BY MemIs, HoldIs DEF S!Release
<1> QED
  BY <1>1 DEF S!Next

(* A process holds the block of each buffer it has locked, and no other    *)
(* process does.                                                           *)
LEMMA HeldByOne ==
  ASSUME IInv, NEW p \in Proc, NEW b \in held[p]
  PROVE  /\ b \in Buf /\ blockno[b] \in Block
         /\ \A q \in Proc : \A c \in held[q] : blockno[c] = blockno[b] => c = b /\ q = p
         /\ Hold[blockno[b]] = p
PROOF
<1>1. b \in Buf /\ blockno[b] \in Block
  BY DEF IInv, TypeOK, Flags, Mine
<1>2. \A q \in Proc : \A c \in held[q] : blockno[c] = blockno[b] => c = b /\ q = p
  <2> SUFFICES ASSUME NEW q \in Proc, NEW c \in held[q], blockno[c] = blockno[b]
               PROVE  c = b /\ q = p
    OBVIOUS
  <2>1. c = b
    BY <1>1, BufCacheAssumption DEF IInv, TypeOK, OneBufferPerBlock
  <2> QED
    BY <1>1, <2>1 DEF IInv, Locks, Owns
<1>3. HolderOf(blockno[b], held, blockno) = p
  <2>1. PICK k : k = blockno[b]
    OBVIOUS
  <2>2. \E c \in held[p] : blockno[c] = k
    BY <2>1
  <2>3. \A q \in Proc : \A c \in held[q] : blockno[c] = k => q = p
    BY <1>2, <2>1
  <2>4. HolderOf(k, held, blockno) = p
    BY <2>2, <2>3, HolderHas
  <2> QED
    BY <2>1, <2>4
<1> QED
  BY <1>1, <1>2, <1>3 DEF Hold

(* Every step is a step of BlockStore, or does not change what it sees.    *)
LEMMA StoreStep ==
  ASSUME IInv, Durable, [Next]_vars
  PROVE  [S!Next]_(S!vars)
PROOF
<1>0. NoBuf \notin Buf /\ NoBlock \notin Block /\ NoProc \notin Proc
  BY BufCacheAssumption
<1>00. \A c, d \in Buf : blockno[c] = blockno[d] /\ blockno[c] \in Block => c = d
  BY <1>0 DEF IInv, OneBufferPerBlock
<1>1. ASSUME NEW p \in Proc, NEW k \in Block, NEW b \in Buf, Finds(p, k, b)
      PROVE  [S!Next]_(S!vars)
  <2>1. /\ UNCHANGED <<blockno, valid, data, disk, held>>
        /\ want' = [want EXCEPT ![p] = k] /\ want[p] = NoBlock
    BY <1>1 DEF Finds, IInv, Places
  <2>2. Mem' = Mem /\ Hold' = Hold
    BY <2>1 DEF Mem, Hold
  <2> QED
    BY <2>1, <2>2, StoreRequests
<1>2. ASSUME NEW p \in Proc, NEW k \in Block, NEW b \in Buf, Recycles(p, k, b)
      PROVE  [S!Next]_(S!vars)
  <2>0. \A q \in Proc : b \notin held[q] /\ cur[q] # b
    BY <1>2, RecycledUnused DEF Recycles
  <2>1. /\ blockno'[b] = k /\ ~valid'[b]
        /\ \A c \in Buf : c # b => blockno'[c] = blockno[c] /\ valid'[c] = valid[c]
        /\ \A c \in Buf : blockno[c] # k
        /\ UNCHANGED <<data, disk, held>>
        /\ want' = [want EXCEPT ![p] = k] /\ want[p] = NoBlock
    BY <1>2 DEF Recycles, IInv, TypeOK, Places
  <2>2. ASSUME NEW j \in Block \ Faulty
        PROVE  ContentsOf(j, blockno', valid', data', disk')
               = ContentsOf(j, blockno, valid, data, disk)
    <3>1. CASE \A c \in Buf : blockno[c] = j => ~valid[c]
      <4>1. \A c \in Buf : blockno'[c] = j => ~valid'[c]
        BY <2>1, <3>1
      <4> QED
        BY <2>1, <3>1, <4>1, ContentsOnDisk
    <3>2. ASSUME NEW c \in Buf, blockno[c] = j, valid[c], c # b
          PROVE  ContentsOf(j, blockno', valid', data', disk')
                 = ContentsOf(j, blockno, valid, data, disk)
      <4>1. ContentsOf(j, blockno, valid, data, disk) = data[c]
        BY <1>00, <3>2, ContentsCached
      <4>2. \A d \in Buf : blockno'[d] = j => d = c
        BY <1>00, <2>1, <3>2
      <4>3. blockno'[c] = j /\ valid'[c]
        BY <2>1, <3>2
      <4>4. ContentsOf(j, blockno', valid', data', disk') = data'[c]
        BY <4>2, <4>3, ContentsCached
      <4> QED
        BY <2>1, <4>1, <4>4
    <3>3. CASE blockno[b] = j /\ valid[b]
      <4>1. ContentsOf(j, blockno, valid, data, disk) = data[b]
        BY <1>00, <3>3, ContentsCached
      <4>2. \A d \in Buf : blockno'[d] = j => ~valid'[d]
        BY <1>00, <2>1, <3>3
      <4>3. ContentsOf(j, blockno', valid', data', disk') = disk'[j]
        BY <4>2, ContentsOnDisk
      <4>4. data[b] = disk[j]
        BY <1>2, <3>3 DEF Recycles, Durable
      <4> QED
        BY <2>1, <4>1, <4>3, <4>4
    <3> QED
      BY <3>1, <3>2, <3>3
  <2>3. Mem' = Mem
    BY <2>2, MemIs DEF Mem
  <2>4. ASSUME NEW j \in Block
        PROVE  HolderOf(j, held', blockno') = HolderOf(j, held, blockno)
    <3>1. \A q \in Proc : \A c \in held[q] : c \in Buf /\ c # b
      BY <2>0 DEF IInv, TypeOK
    <3>2. \A q \in Proc : (\E c \in held'[q] : blockno'[c] = j)
                      <=> (\E c \in held[q] : blockno[c] = j)
      BY <2>1, <3>1
    <3> QED
      BY <3>2, HolderSame
  <2>5. Hold' = Hold
    BY <2>4, HoldIs DEF Hold
  <2> QED
    BY <2>1, <2>3, <2>5, StoreRequests
<1>3. ASSUME NEW p \in Proc, NEW k \in Block, RunsOut(p, k)
      PROVE  [S!Next]_(S!vars)
  <2>1. /\ UNCHANGED <<blockno, valid, data, disk, held>>
        /\ want' = [want EXCEPT ![p] = k] /\ want[p] = NoBlock
    BY <1>3 DEF RunsOut, IInv, Places
  <2>2. Mem' = Mem /\ Hold' = Hold
    BY <2>1 DEF Mem, Hold
  <2> QED
    BY <2>1, <2>2, StoreRequests
<1>4. ASSUME NEW p \in Proc, acquiresleep_wait(p)
      PROVE  [S!Next]_(S!vars)
  <2>1. UNCHANGED <<blockno, valid, data, disk, held, want>>
    BY <1>4 DEF acquiresleep_wait, At, goto, bufs
  <2> QED
    BY <2>1, StoreStutters DEF Mem, Hold
<1>5. ASSUME NEW p \in Proc, Misses(p)
      PROVE  [S!Next]_(S!vars)
  <2>1. UNCHANGED <<blockno, valid, data, disk, held, want>>
    BY <1>5 DEF Misses
  <2> QED
    BY <2>1, StoreStutters DEF Mem, Hold
<1>6. ASSUME NEW p \in Proc, Hits(p)
      PROVE  [S!Next]_(S!vars)
  <2>1. /\ UNCHANGED <<blockno, valid, data, disk>>
        /\ held' = [held EXCEPT ![p] = held[p] \cup {cur[p]}]
        /\ want' = [want EXCEPT ![p] = NoBlock]
        /\ cur[p] \in Buf /\ blockno[cur[p]] \in Block
    BY <1>6 DEF Hits, bread_returns, IInv, Places, Flags, Mine
  <2>2. Mem' = Mem
    BY <2>1 DEF Mem
  <2>3. CASE cur[p] \notin held[p]
    <3>1. want[p] = blockno[cur[p]]
      BY <1>6, <2>3 DEF Hits, IInv, Places
    <3>2. \A q \in Proc : \A c \in held[q] : blockno[c] # blockno[cur[p]]
      <4> SUFFICES ASSUME NEW q \in Proc, NEW c \in held[q], blockno[c] = blockno[cur[p]]
                   PROVE  FALSE
        OBVIOUS
      <4>1. c = cur[p]
        BY <1>00, <2>1 DEF IInv, TypeOK
      <4> QED
        BY <1>6, <2>1, <2>3, <4>1 DEF Hits, IInv, Locks, Owns
    <3>3. Hold[want[p]] = NoProc
      BY <2>1, <3>1, <3>2, HolderNone DEF Hold
    <3>4. ASSUME NEW j \in Block
          PROVE  HolderOf(j, held', blockno')
                 = IF j = want[p] THEN p ELSE HolderOf(j, held, blockno)
      <4>1. CASE j = want[p]
        <5>1. \E c \in held'[p] : blockno'[c] = j
          BY <2>1, <3>1, <4>1 DEF IInv, TypeOK
        <5>2. \A q \in Proc : \A c \in held'[q] : blockno'[c] = j => q = p
          BY <2>1, <3>1, <3>2, <4>1 DEF IInv, TypeOK
        <5> QED
          BY <4>1, <5>1, <5>2, HolderHas
      <4>2. CASE j # want[p]
        <5>1. \A q \in Proc : (\E c \in held'[q] : blockno'[c] = j)
                          <=> (\E c \in held[q] : blockno[c] = j)
          BY <2>1, <3>1, <4>2 DEF IInv, TypeOK
        <5> QED
          BY <4>2, <5>1, HolderSame
      <4> QED
        BY <4>1, <4>2
    <3>5. Hold' = [Hold EXCEPT ![want[p]] = p]
      BY <3>4, HoldIs DEF Hold
    <3> QED
      BY <2>1, <2>2, <3>1, <3>3, <3>5, StoreGrants
  <2>4. CASE cur[p] \in held[p]
    <3>1. want[p] = NoBlock
      BY <1>6, <2>4 DEF Hits, IInv, Places
    <3>2. held' = held /\ want' = want
      BY <2>1, <2>4, <3>1 DEF IInv, TypeOK
    <3> QED
      BY <2>1, <2>2, <3>2, StoreStutters DEF Hold
  <2> QED
    BY <2>3, <2>4
<1>7. ASSUME NEW p \in Proc, Returns(p)
      PROVE  [S!Next]_(S!vars)
  <2>1. /\ UNCHANGED <<blockno, valid, data, disk>>
        /\ held' = [held EXCEPT ![p] = held[p] \cup {cur[p]}]
        /\ want' = [want EXCEPT ![p] = NoBlock]
        /\ cur[p] \in Buf /\ blockno[cur[p]] \in Block
    BY <1>7 DEF Returns, bread_returns, IInv, Places, Flags, Mine
  <2>2. Mem' = Mem
    BY <2>1 DEF Mem
  <2>3. CASE cur[p] \notin held[p]
    <3>1. want[p] = blockno[cur[p]]
      BY <1>7, <2>3 DEF Returns, IInv, Places
    <3>2. \A q \in Proc : \A c \in held[q] : blockno[c] # blockno[cur[p]]
      <4> SUFFICES ASSUME NEW q \in Proc, NEW c \in held[q], blockno[c] = blockno[cur[p]]
                   PROVE  FALSE
        OBVIOUS
      <4>1. c = cur[p]
        BY <1>00, <2>1 DEF IInv, TypeOK
      <4> QED
        BY <1>7, <2>1, <2>3, <4>1 DEF Returns, IInv, Locks, Owns
    <3>3. Hold[want[p]] = NoProc
      BY <2>1, <3>1, <3>2, HolderNone DEF Hold
    <3>4. ASSUME NEW j \in Block
          PROVE  HolderOf(j, held', blockno')
                 = IF j = want[p] THEN p ELSE HolderOf(j, held, blockno)
      <4>1. CASE j = want[p]
        <5>1. \E c \in held'[p] : blockno'[c] = j
          BY <2>1, <3>1, <4>1 DEF IInv, TypeOK
        <5>2. \A q \in Proc : \A c \in held'[q] : blockno'[c] = j => q = p
          BY <2>1, <3>1, <3>2, <4>1 DEF IInv, TypeOK
        <5> QED
          BY <4>1, <5>1, <5>2, HolderHas
      <4>2. CASE j # want[p]
        <5>1. \A q \in Proc : (\E c \in held'[q] : blockno'[c] = j)
                          <=> (\E c \in held[q] : blockno[c] = j)
          BY <2>1, <3>1, <4>2 DEF IInv, TypeOK
        <5> QED
          BY <4>2, <5>1, HolderSame
      <4> QED
        BY <4>1, <4>2
    <3>5. Hold' = [Hold EXCEPT ![want[p]] = p]
      BY <3>4, HoldIs DEF Hold
    <3> QED
      BY <2>1, <2>2, <3>1, <3>3, <3>5, StoreGrants
  <2>4. CASE cur[p] \in held[p]
    <3>1. want[p] = NoBlock
      BY <1>7, <2>4 DEF Returns, IInv, Places
    <3>2. held' = held /\ want' = want
      BY <2>1, <2>4, <3>1 DEF IInv, TypeOK
    <3> QED
      BY <2>1, <2>2, <3>2, StoreStutters DEF Hold
  <2> QED
    BY <2>3, <2>4
<1>8. ASSUME NEW p \in Proc, Reads(p)
      PROVE  [S!Next]_(S!vars)
  <2>1. UNCHANGED <<blockno, valid, data, disk, held, want>>
    BY <1>8 DEF Reads
  <2> QED
    BY <2>1, StoreStutters DEF Mem, Hold
<1>9. ASSUME NEW p \in Proc, brelse_unref(p)
      PROVE  [S!Next]_(S!vars)
  <2>1. UNCHANGED <<blockno, valid, data, disk, held, want>>
    BY <1>9 DEF brelse_unref, At, goto
  <2> QED
    BY <2>1, StoreStutters DEF Mem, Hold
<1>10. ASSUME NEW p \in Proc, NEW b \in Buf, brelse(p, b)
      PROVE  [S!Next]_(S!vars)
  <2>1. /\ UNCHANGED <<blockno, valid, data, disk, want>>
        /\ held' = [held EXCEPT ![p] = held[p] \ {b}]
        /\ b \in held[p]
    BY <1>10 DEF brelse, bufs
  <2>2. /\ blockno[b] \in Block /\ Hold[blockno[b]] = p
        /\ \A q \in Proc : \A c \in held[q] : blockno[c] = blockno[b] => c = b /\ q = p
    BY <2>1, HeldByOne
  <2>3. ASSUME NEW j \in Block
        PROVE  HolderOf(j, held', blockno') =
                 IF j = blockno[b] THEN NoProc ELSE HolderOf(j, held, blockno)
    <3>1. CASE j = blockno[b]
      <4>1. \A q \in Proc : \A c \in held'[q] : blockno'[c] # j
        BY <2>1, <2>2, <3>1 DEF IInv, TypeOK
      <4> QED
        BY <3>1, <4>1, HolderNone
    <3>2. CASE j # blockno[b]
      <4>1. \A q \in Proc : (\E c \in held'[q] : blockno'[c] = j)
                        <=> (\E c \in held[q] : blockno[c] = j)
        BY <2>1, <3>2 DEF IInv, TypeOK
      <4> QED
        BY <3>2, <4>1, HolderSame
    <3> QED
      BY <3>1, <3>2
  <2>4. Hold' = [Hold EXCEPT ![blockno[b]] = NoProc]
    BY <2>2, <2>3, HoldIs DEF Hold
  <2>5. Mem' = Mem
    BY <2>1 DEF Mem
  <2> QED
    BY <2>1, <2>2, <2>4, <2>5, StoreReleases
<1>11. ASSUME NEW p \in Proc, NEW b \in Buf, NEW v \in Value, Writes(p, b, v)
      PROVE  [S!Next]_(S!vars)
  <2>1. /\ UNCHANGED <<blockno, valid, held, want>>
        /\ data' = [data EXCEPT ![b] = v]
        /\ b \in held[p]
        /\ \A j \in Block : j # blockno[b] => disk'[j] = disk[j]
    BY <1>11 DEF Writes, IInv, TypeOK
  <2>2. valid[b] /\ blockno[b] \in Block /\ Hold[blockno[b]] = p
    BY <2>1, HeldByOne DEF IInv, Flags
  <2>3. Hold' = Hold
    BY <2>1 DEF Hold
  <2>4. ASSUME NEW j \in Block \ Faulty
        PROVE  ContentsOf(j, blockno', valid', data', disk') =
                 IF j = blockno[b] THEN v ELSE ContentsOf(j, blockno, valid, data, disk)
    <3>1. CASE j = blockno[b]
      <4>1. blockno'[b] = j /\ valid'[b] /\ \A c \in Buf : blockno'[c] = j => c = b
        BY <1>00, <2>1, <2>2, <3>1
      <4>2. ContentsOf(j, blockno', valid', data', disk') = data'[b]
        BY <4>1, ContentsCached
      <4>3. data'[b] = v
        BY <2>1 DEF IInv, TypeOK
      <4> QED
        BY <3>1, <4>2, <4>3
    <3>2. CASE j # blockno[b] /\ \A c \in Buf : blockno[c] = j => ~valid[c]
      <4>1. ContentsOf(j, blockno, valid, data, disk) = disk[j]
        BY <3>2, ContentsOnDisk
      <4>2. ContentsOf(j, blockno', valid', data', disk') = disk'[j]
        <5>1. \A c \in Buf : blockno'[c] = j => ~valid'[c]
          BY <2>1, <3>2
        <5> QED
          BY <5>1, ContentsOnDisk
      <4> QED
        BY <2>1, <3>2, <4>1, <4>2
    <3>3. ASSUME j # blockno[b], NEW c \in Buf, blockno[c] = j, valid[c]
          PROVE  ContentsOf(j, blockno', valid', data', disk')
                 = ContentsOf(j, blockno, valid, data, disk)
      <4>1. ContentsOf(j, blockno, valid, data, disk) = data[c]
        BY <1>00, <3>3, ContentsCached
      <4>2. ContentsOf(j, blockno', valid', data', disk') = data'[c]
        <5>1. blockno'[c] = j /\ valid'[c] /\ \A d \in Buf : blockno'[d] = j => d = c
          BY <1>00, <2>1, <3>3
        <5> QED
          BY <5>1, ContentsCached
      <4>3. data'[c] = data[c]
        BY <2>1, <3>3 DEF IInv, TypeOK
      <4> QED
        BY <4>1, <4>2, <4>3
    <3> QED
      BY <3>1, <3>2, <3>3
  <2>5. CASE blockno[b] \in Faulty
    <3>1. Mem' = Mem
      BY <2>4, <2>5, MemIs DEF Mem
    <3> QED
      BY <2>1, <2>3, <3>1, StoreStutters
  <2>6. CASE blockno[b] \notin Faulty
    <3>1. Mem' = [Mem EXCEPT ![blockno[b]] = v]
      BY <2>4, MemIs DEF Mem
    <3> QED
      BY <2>1, <2>2, <2>3, <2>6, <3>1, StoreWrites
  <2> QED
    BY <2>5, <2>6
<1>12. ASSUME NEW p \in Proc, NEW b \in Buf, NEW v \in Value, log_write(p, b, v)
      PROVE  [S!Next]_(S!vars)
  <2>1. /\ UNCHANGED <<blockno, valid, held, want>>
        /\ data' = [data EXCEPT ![b] = v]
        /\ b \in held[p]
        /\ \A j \in Block : j # blockno[b] => disk'[j] = disk[j]
    BY <1>12 DEF log_write, bufs, IInv, TypeOK
  <2>2. valid[b] /\ blockno[b] \in Block /\ Hold[blockno[b]] = p
    BY <2>1, HeldByOne DEF IInv, Flags
  <2>3. Hold' = Hold
    BY <2>1 DEF Hold
  <2>4. ASSUME NEW j \in Block \ Faulty
        PROVE  ContentsOf(j, blockno', valid', data', disk') =
                 IF j = blockno[b] THEN v ELSE ContentsOf(j, blockno, valid, data, disk)
    <3>1. CASE j = blockno[b]
      <4>1. blockno'[b] = j /\ valid'[b] /\ \A c \in Buf : blockno'[c] = j => c = b
        BY <1>00, <2>1, <2>2, <3>1
      <4>2. ContentsOf(j, blockno', valid', data', disk') = data'[b]
        BY <4>1, ContentsCached
      <4>3. data'[b] = v
        BY <2>1 DEF IInv, TypeOK
      <4> QED
        BY <3>1, <4>2, <4>3
    <3>2. CASE j # blockno[b] /\ \A c \in Buf : blockno[c] = j => ~valid[c]
      <4>1. ContentsOf(j, blockno, valid, data, disk) = disk[j]
        BY <3>2, ContentsOnDisk
      <4>2. ContentsOf(j, blockno', valid', data', disk') = disk'[j]
        <5>1. \A c \in Buf : blockno'[c] = j => ~valid'[c]
          BY <2>1, <3>2
        <5> QED
          BY <5>1, ContentsOnDisk
      <4> QED
        BY <2>1, <3>2, <4>1, <4>2
    <3>3. ASSUME j # blockno[b], NEW c \in Buf, blockno[c] = j, valid[c]
          PROVE  ContentsOf(j, blockno', valid', data', disk')
                 = ContentsOf(j, blockno, valid, data, disk)
      <4>1. ContentsOf(j, blockno, valid, data, disk) = data[c]
        BY <1>00, <3>3, ContentsCached
      <4>2. ContentsOf(j, blockno', valid', data', disk') = data'[c]
        <5>1. blockno'[c] = j /\ valid'[c] /\ \A d \in Buf : blockno'[d] = j => d = c
          BY <1>00, <2>1, <3>3
        <5> QED
          BY <5>1, ContentsCached
      <4>3. data'[c] = data[c]
        BY <2>1, <3>3 DEF IInv, TypeOK
      <4> QED
        BY <4>1, <4>2, <4>3
    <3> QED
      BY <3>1, <3>2, <3>3
  <2>5. CASE blockno[b] \in Faulty
    <3>1. Mem' = Mem
      BY <2>4, <2>5, MemIs DEF Mem
    <3> QED
      BY <2>1, <2>3, <3>1, StoreStutters
  <2>6. CASE blockno[b] \notin Faulty
    <3>1. Mem' = [Mem EXCEPT ![blockno[b]] = v]
      BY <2>4, MemIs DEF Mem
    <3> QED
      BY <2>1, <2>2, <2>3, <2>6, <3>1, StoreWrites
  <2> QED
    BY <2>5, <2>6
<1>13. ASSUME NEW b \in Buf, NEW err \in BOOLEAN, Serves(b, err)
      PROVE  [S!Next]_(S!vars)
  <2> DEFINE n == Head(Tail(idequeue))
             more == Tail(idequeue) # <<>> /\ dirty[n]
  <2>1. Has(idequeue, b)
    BY <1>13, QueueServed DEF Serves, IInv, TypeOK, Queue
  <2>2. blockno[b] \in Block
    BY <2>1 DEF IInv, Queue, Flags, Mine
  <2>3. more => n \in Buf /\ valid[n]
    <3>1. Tail(idequeue) # <<>> => n \in Buf
      BY <1>13, QueueServed DEF Serves, IInv, TypeOK, Queue
    <3> QED
      BY <3>1 DEF IInv, Flags
  <2>4. /\ UNCHANGED <<blockno, held, want>>
        /\ valid'[b]
        /\ \A c \in Buf : c # b => data'[c] = data[c] /\ valid'[c] = valid[c]
        /\ data'[b] = IF dirty[b] \/ err THEN data[b] ELSE disk[blockno[b]]
        /\ err => blockno[b] \in Faulty
    BY <1>13 DEF Serves, IInv, TypeOK
  <2>5. \A j \in Block : ~(more /\ j = blockno[n]) => disk'[j] = disk[j]
    BY <1>13 DEF Serves, IInv, TypeOK
  <2> HIDE DEF n, more
  <2>6. ASSUME NEW j \in Block \ Faulty
        PROVE  ContentsOf(j, blockno', valid', data', disk')
               = ContentsOf(j, blockno, valid, data, disk)
    <3>1. CASE j = blockno[b]
      <4>1. blockno'[b] = j /\ valid'[b] /\ \A c \in Buf : blockno'[c] = j => c = b
        BY <1>00, <2>2, <2>4, <3>1
      <4>2. ContentsOf(j, blockno', valid', data', disk') = data'[b]
        BY <4>1, ContentsCached
      <4>3. CASE valid[b]
        <5>1. ContentsOf(j, blockno, valid, data, disk) = data[b]
          BY <1>00, <3>1, <4>3, ContentsCached
        <5>2. data'[b] = data[b]
          BY <2>4, <3>1, <4>3 DEF Durable
        <5> QED
          BY <4>2, <5>1, <5>2
      <4>4. CASE ~valid[b]
        <5>1. ContentsOf(j, blockno, valid, data, disk) = disk[j]
          <6>1. \A c \in Buf : blockno[c] = j => ~valid[c]
            BY <1>00, <3>1, <4>4
          <6> QED
            BY <6>1, ContentsOnDisk
        <5>2. ~dirty[b] /\ ~err
          BY <2>4, <3>1, <4>4 DEF IInv, Flags
        <5> QED
          BY <2>4, <3>1, <4>2, <5>1, <5>2
      <4> QED
        BY <4>3, <4>4
    <3>2. CASE j # blockno[b] /\ \A c \in Buf : blockno[c] = j => ~valid[c]
      <4>1. ContentsOf(j, blockno, valid, data, disk) = disk[j]
        BY <3>2, ContentsOnDisk
      <4>2. ContentsOf(j, blockno', valid', data', disk') = disk'[j]
        <5>1. \A c \in Buf : blockno'[c] = j => ~valid'[c]
          BY <2>4, <3>2
        <5> QED
          BY <5>1, ContentsOnDisk
      <4>3. ~(more /\ j = blockno[n])
        BY <2>3, <3>2
      <4> QED
        BY <2>5, <4>1, <4>2, <4>3
    <3>3. ASSUME j # blockno[b], NEW c \in Buf, blockno[c] = j, valid[c]
          PROVE  ContentsOf(j, blockno', valid', data', disk')
                 = ContentsOf(j, blockno, valid, data, disk)
      <4>1. ContentsOf(j, blockno, valid, data, disk) = data[c]
        BY <1>00, <3>3, ContentsCached
      <4>2. ContentsOf(j, blockno', valid', data', disk') = data'[c]
        <5>1. blockno'[c] = j /\ valid'[c] /\ \A d \in Buf : blockno'[d] = j => d = c
          BY <1>00, <2>4, <3>3
        <5> QED
          BY <5>1, ContentsCached
      <4>3. data'[c] = data[c]
        BY <2>4, <3>3
      <4> QED
        BY <4>1, <4>2, <4>3
    <3> QED
      BY <3>1, <3>2, <3>3
  <2>7. Mem' = Mem
    BY <2>6, MemIs DEF Mem
  <2> QED
    BY <2>4, <2>7, StoreStutters DEF Hold
<1>14. CASE UNCHANGED vars
  BY <1>14, StoreStutters DEF vars, Mem, Hold
<1> QED
  BY <1>1, <1>2, <1>3, <1>4, <1>5, <1>6, <1>7, <1>8, <1>9, <1>10, <1>11, <1>12, <1>13, <1>14,
     StepCases

(* At first the store holds what is on the disk, and nobody holds a block. *)
LEMMA StoreInit == Init => S!Init
PROOF
<1> SUFFICES ASSUME Init PROVE S!Init
  OBVIOUS
<1>0. NoBlock \notin Block /\ Image \in [Block -> Value]
  BY BufCacheAssumption
<1>1. \A k \in Block \ Faulty : ContentsOf(k, blockno, valid, data, disk) \in Value
  <2> SUFFICES ASSUME NEW k \in Block \ Faulty
               PROVE  ContentsOf(k, blockno, valid, data, disk) \in Value
    OBVIOUS
  <2>1. \A c \in Buf : ~valid[c]
    BY DEF Init
  <2>2. ContentsOf(k, blockno, valid, data, disk) = disk[k]
    BY <2>1, ContentsOnDisk
  <2> QED
    BY <1>0, <2>2 DEF Init
<1>2. \A k \in Block : HolderOf(k, held, blockno) = NoProc
  <2>1. \A q \in Proc : held[q] = {}
    BY DEF Init
  <2> QED
    BY <2>1, HolderNone
<1>3. Mem \in [Block \ Faulty -> Value] /\ Hold = [k \in Block |-> NoProc]
  BY <1>1, <1>2 DEF Mem, Hold
<1> QED
  BY <1>3, MemIs, HoldIs DEF Init, S!Init

(* For all sets of processes, buffers and blocks, however many buffers     *)
(* there are: the cache implements a memory of blocks with a lock each.    *)
(* bread gives what was written last, to one process at a time, although   *)
(* buffers are recycled, pinned and queued meanwhile (bio.c, ide.c).       *)
THEOREM CacheImplementsStore == Spec => StoreSpec
PROOF
<1>1. Init => S!Init /\ IInv /\ Durable
  BY InitIInv, StoreInit
<1>2. IInv /\ Durable /\ [Next]_vars => (IInv /\ Durable)'
  BY IInvStep, DurableStep
<1>3. IInv /\ Durable /\ [Next]_vars => [S!Next]_(S!vars)
  BY StoreStep
<1> QED
  BY <1>1, <1>2, <1>3, PTL DEF Spec, StoreSpec, S!Spec

=============================================================================
