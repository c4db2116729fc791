------------------------------ MODULE FileData ------------------------------
(***************************************************************************)
(* The contents of files: the block bitmap, the block map of an inode, and *)
(* read and write through open files (fs.c: balloc to writei; file.c:      *)
(* fileread, filewrite).  The inode's lock is held through a call of readi *)
(* or writei; the bitmap's buffer only through one balloc or bfree, so     *)
(* that calls on different inodes interleave block by block.               *)
(* A call of filewrite is cut into transactions of at most MaxWrite bytes; *)
(* logged is the set of blocks that the transaction has passed to          *)
(* log_write.                                                              *)
(***************************************************************************)
EXTENDS Naturals, Sequences, FiniteSets, FiniteSetsExt

CONSTANTS
  Proc, NoProc,
  Inode,
  Open, InodeOf,        \* open files; processes share them
  BSIZE, NDIRECT, NINDIRECT,
  NBLOCKS,              \* data blocks of the disk: 1..NBLOCKS
  LOGSIZE, MAXOPBLOCKS,
  Str,                  \* what processes write
  ReadLength,
  MaxCalls              \* bound on the number of files written or removed

(* LOGSIZE is such that a round of filewrite writes at least one block. *)
ASSUME FileDataAssumption ==
  /\ NoProc \notin Proc
  /\ InodeOf \in [Open -> Inode] /\ \A i \in Inode : \E o \in Open : InodeOf[o] = i
  /\ {BSIZE, NDIRECT, NINDIRECT, NBLOCKS, LOGSIZE, MAXOPBLOCKS} \subseteq Nat \ {0}
  /\ LOGSIZE >= 6
  /\ Str \subseteq Seq(Nat) /\ ReadLength \subseteq Nat /\ MaxCalls \in Nat

Block == 1..NBLOCKS
Bitmap == 0     \* the block of the bitmap; one is enough for the disks of this system
MAXFILE == NDIRECT + NINDIRECT
MaxWrite == ((LOGSIZE - 1 - 1 - 2) \div 2) * BSIZE

VARIABLES
  used,              \* the bitmap
  data, ptr,         \* blocks, as bytes and as block numbers
  addrs, size,       \* the inodes in memory
  daddrs, dsize,     \* and on disk
  lock, off,
  w,                 \* of each process: its call
  logged,            \* of each process: the blocks its transaction has logged
  saved,             \* history: the contents of a locked inode at its ilock
  calls, panic

blocks == <<used, data, ptr>>
inodes == <<addrs, size, daddrs, dsize>>
vars == <<used, data, ptr, addrs, size, daddrs, dsize, lock, off, w, logged, saved,
          calls, panic>>

NoBytes == [k \in 0..BSIZE - 1 |-> 0]
NoBlocks == [k \in 0..NINDIRECT - 1 |-> 0]
Idle == [pc |-> "user", o |-> CHOOSE o \in Open : TRUE, s |-> <<>>, n |-> 0, tot |-> 0]

Init ==
  /\ used = {}
  /\ data = [b \in Block |-> NoBytes]
  /\ ptr = [b \in Block |-> NoBlocks]
  /\ addrs = [i \in Inode |-> [k \in 0..NDIRECT |-> 0]] /\ daddrs = addrs
  /\ size = [i \in Inode |-> 0] /\ dsize = size
  /\ lock = [i \in Inode |-> NoProc]
  /\ off = [o \in Open |-> 0]
  /\ w = [p \in Proc |-> Idle]
  /\ logged = [p \in Proc |-> {}]
  /\ saved = [i \in Inode |-> <<>>]
  /\ calls = 0 /\ panic = FALSE

Least(a, b) == IF a < b THEN a ELSE b

-----------------------------------------------------------------------------
(* Blocks *)

(* Mutant: a block is handed out as it is. *)
Zeroed_Not(bs) == ptr

(* balloc: the first free block, marked and zeroed.  A call may need two,  *)
(* one after the other.                                                    *)
First(u) == Min(Block \ u)
Zeroed(bs) == [b \in Block |-> IF b \in bs THEN NoBlocks ELSE ptr[b]]

(* bmap of the nth block of i: the blocks it allocates, if any; block,     *)
(* and the direct and indirect pointers afterwards.                        *)
bmap(i, bn) ==
  IF bn < NDIRECT
    THEN LET b == IF addrs[i][bn] = 0 THEN First(used) ELSE addrs[i][bn]
         IN [new |-> {b} \ used, block |-> b, addrs |-> [addrs[i] EXCEPT ![bn] = b],
             ind |-> 0, ptrs |-> NoBlocks]
    ELSE LET a == IF addrs[i][NDIRECT] = 0 THEN First(used) ELSE addrs[i][NDIRECT]
             ptrs == Zeroed({a} \ used)[a]
             k == bn - NDIRECT
             b == IF ptrs[k] = 0 THEN First(used \cup {a}) ELSE ptrs[k]
         IN [new |-> {a, b} \ used, block |-> b, addrs |-> [addrs[i] EXCEPT ![NDIRECT] = a],
             ind |-> a, ptrs |-> [ptrs EXCEPT ![k] = b]]

(* The blocks that bmap needs, and there may not be so many *)
Needs(i, bn) ==
  IF bn < NDIRECT THEN IF addrs[i][bn] = 0 THEN 1 ELSE 0
  ELSE IF addrs[i][NDIRECT] = 0 THEN 2
  ELSE IF ptr[addrs[i][NDIRECT]][bn - NDIRECT] = 0 THEN 1 ELSE 0

(* The block of i that holds byte k, where all blocks are there *)
BlockOf(i, k) ==
  LET bn == k \div BSIZE IN
  IF bn < NDIRECT THEN addrs[i][bn] ELSE ptr[addrs[i][NDIRECT]][bn - NDIRECT]
Bytes(i, from, to) == [k \in 1..to - from |-> data[BlockOf(i, from + k - 1)][(from + k - 1) % BSIZE]]
Contents(i) == Bytes(i, 0, size[i])

-----------------------------------------------------------------------------
(* Calls *)

At(p, pc) == w[p].pc = pc
ip(p) == InodeOf[w[p].o]
go(p, x) == w' = [w EXCEPT ![p] = x]

(* ilock, readi, the offset, iunlock: the bytes returned are Bytes(i,      *)
(* off[o], off[o] + m).                                                    *)
fileread(p, o, n) ==
  LET i == InodeOf[o]
      m == IF off[o] + n > size[i] THEN size[i] - off[o] ELSE n
  IN
  /\ At(p, "user") /\ lock[i] = NoProc /\ off[o] <= size[i]
  /\ off' = [off EXCEPT ![o] = @ + m]
  /\ UNCHANGED <<blocks, inodes, lock, w, logged, saved, calls, panic>>

filewrite(p, o, s) ==
  /\ At(p, "user") /\ calls < MaxCalls
  /\ go(p, [Idle EXCEPT !.pc = "begin", !.o = o, !.s = s])
  /\ calls' = calls + 1
  /\ UNCHANGED <<blocks, inodes, lock, off, logged, saved, panic>>

(* Mutant: the write is not cut. *)
Chunk_Whole(s) == Len(s)

(* One round of filewrite: begin_op, ilock, and the tests of writei *)
Chunk(s) == Least(Len(s), MaxWrite)

writei(p) ==
  LET i == ip(p)
      n == Chunk(w[p].s)
      o == off[w[p].o]
  IN
  /\ At(p, "begin") /\ lock[i] = NoProc
  /\ IF o > size[i] \/ o + n > MAXFILE * BSIZE
       THEN go(p, Idle) /\ UNCHANGED <<lock, saved>>
       ELSE /\ go(p, [w[p] EXCEPT !.pc = "writei", !.n = n])
            /\ lock' = [lock EXCEPT ![i] = p]
            /\ saved' = [saved EXCEPT ![i] = Contents(i)]
  /\ UNCHANGED <<blocks, inodes, off, logged, calls, panic>>

(* One round of the loop of writei, in one block *)
write_block(p) ==
  LET i == ip(p)
      at == off[w[p].o] + w[p].tot
      bn == at \div BSIZE
      o == at % BSIZE
      m == Least(w[p].n - w[p].tot, BSIZE - o)
      x == bmap(i, bn)
  IN
  /\ At(p, "writei") /\ w[p].tot < w[p].n
  /\ IF Needs(i, bn) > Cardinality(Block \ used)
       THEN panic' = TRUE /\ UNCHANGED <<blocks, addrs, w, logged>>
       ELSE /\ used' = used \cup x.new
            /\ ptr' = [b \in Block |-> IF b = x.ind THEN x.ptrs ELSE Zeroed(x.new)[b]]
            /\ data' = [data EXCEPT ![x.block] =
                 [k \in 0..BSIZE - 1 |-> IF k \in o..o + m - 1 THEN w[p].s[w[p].tot + k - o + 1]
                                         ELSE IF x.block \in x.new THEN 0 ELSE data[x.block][k]]]
            /\ addrs' = [addrs EXCEPT ![i] = x.addrs]
            /\ logged' = [logged EXCEPT ![p] =
                 @ \cup {x.block} \cup x.new \cup (IF x.new = {} THEN {} ELSE {Bitmap})
                   \cup (IF x.ind # 0 /\ x.block \in x.new THEN {x.ind} ELSE {})]
            /\ go(p, [w[p] EXCEPT !.tot = @ + m])
            /\ UNCHANGED panic
  /\ UNCHANGED <<size, daddrs, dsize, lock, off, saved, calls>>

(* Mutants: the size is never updated; it is set to the end of any write. *)
Grew_Never(i, end) == FALSE
Grew_OrShrank(i, end) == end # size[i]

(* The end of writei, with iupdate if the file has grown; the offset,      *)
(* iunlock, end_op, and what is left for the next round.                   *)
Grew(i, end) == end > size[i]

write_end(p) ==
  LET i == ip(p)
      end == off[w[p].o] + w[p].n
      rest == SubSeq(w[p].s, w[p].n + 1, Len(w[p].s))
  IN
  /\ At(p, "writei") /\ w[p].tot = w[p].n
  /\ IF Grew(i, end)
       THEN /\ size' = [size EXCEPT ![i] = end]
            /\ dsize' = [dsize EXCEPT ![i] = end]
            /\ daddrs' = [daddrs EXCEPT ![i] = addrs[i]]
       ELSE UNCHANGED <<size, dsize, daddrs>>
  /\ off' = [off EXCEPT ![w[p].o] = end]
  /\ lock' = [lock EXCEPT ![i] = NoProc]
  /\ saved' = [saved EXCEPT ![i] = <<>>]
  /\ logged' = [logged EXCEPT ![p] = {}]
  /\ go(p, IF rest = <<>> THEN Idle ELSE [w[p] EXCEPT !.pc = "begin", !.s = rest, !.n = 0, !.tot = 0])
  /\ UNCHANGED <<blocks, addrs, calls, panic>>

-----------------------------------------------------------------------------
(* itrunc, when the last reference to a file without a name goes away; the *)
(* inode is used again for a new file, opened anew.  iput holds no lock    *)
(* then: lock stands for the exclusive use that the last reference gives.  *)

remove(p, i) ==
  /\ At(p, "user") /\ lock[i] = NoProc /\ calls < MaxCalls
  /\ \A q \in Proc : w[q].pc # "user" => ip(q) # i
  /\ lock' = [lock EXCEPT ![i] = p]
  /\ saved' = [saved EXCEPT ![i] = Contents(i)]
  /\ go(p, [Idle EXCEPT !.pc = "trunc", !.o = CHOOSE o \in Open : InodeOf[o] = i])
  /\ calls' = calls + 1
  /\ UNCHANGED <<blocks, inodes, off, logged, panic>>

(* bfree of the next block: the direct ones, and those in the indirect     *)
(* block, which keeps its pointers.                                        *)
bfree(p, b) ==
  /\ used' = used \ {b}
  /\ panic' = (panic \/ b \notin used)
  /\ logged' = [logged EXCEPT ![p] = @ \cup {Bitmap}]

trunc_block(p) ==
  LET i == ip(p)
      k == w[p].tot
      ind == addrs[i][NDIRECT]
      b == IF k < NDIRECT THEN addrs[i][k] ELSE IF ind = 0 THEN 0 ELSE ptr[ind][k - NDIRECT]
  IN
  /\ At(p, "trunc") /\ k < MAXFILE
  /\ IF b = 0 THEN UNCHANGED <<used, logged, panic>> ELSE bfree(p, b)
  /\ addrs' = [addrs EXCEPT ![i] = [n \in 0..NDIRECT |-> IF n = k /\ k < NDIRECT THEN 0 ELSE @[n]]]
  /\ go(p, [w[p] EXCEPT !.tot = @ + 1])
  /\ UNCHANGED <<data, ptr, size, daddrs, dsize, lock, off, saved, calls>>

trunc_end(p) ==
  LET i == ip(p)
      ind == addrs[i][NDIRECT]
  IN
  /\ At(p, "trunc") /\ w[p].tot = MAXFILE
  /\ IF ind = 0 THEN UNCHANGED <<used, panic>>
                ELSE used' = used \ {ind} /\ panic' = (panic \/ ind \notin used)
  /\ addrs' = [addrs EXCEPT ![i] = [k \in 0..NDIRECT |-> 0]]
  /\ daddrs' = [daddrs EXCEPT ![i] = [k \in 0..NDIRECT |-> 0]]
  /\ size' = [size EXCEPT ![i] = 0] /\ dsize' = [dsize EXCEPT ![i] = 0]
  /\ lock' = [lock EXCEPT ![i] = NoProc]
  /\ saved' = [saved EXCEPT ![i] = <<>>]
  /\ off' = [o \in Open |-> IF InodeOf[o] = i THEN 0 ELSE off[o]]
  /\ logged' = [logged EXCEPT ![p] = {}]
  /\ go(p, Idle)
  /\ UNCHANGED <<data, ptr, calls>>

-----------------------------------------------------------------------------

Step(p) ==
  \/ \E o \in Open, n \in ReadLength : fileread(p, o, n)
  \/ \E o \in Open, s \in Str : filewrite(p, o, s)
  \/ writei(p) \/ write_block(p) \/ write_end(p)
  \/ \E i \in Inode : remove(p, i)
  \/ trunc_block(p) \/ trunc_end(p)

Next ==
  \/ ~panic /\ \E p \in Proc : Step(p)
  \/ panic /\ UNCHANGED vars

Spec == Init /\ [][Next]_vars

-----------------------------------------------------------------------------
(* Properties *)

Indirect(i) == IF addrs[i][NDIRECT] = 0 THEN {} ELSE {addrs[i][NDIRECT]}
Owned(i) ==
  ({addrs[i][k] : k \in 0..NDIRECT} \cup UNION {{ptr[a][k] : k \in 0..NINDIRECT - 1} : a \in Indirect(i)})
    \ {0}
Slots(i) ==
  {k \in 0..NDIRECT : addrs[i][k] # 0} \cup
  {NDIRECT + 1 + x[2] : x \in {y \in Indirect(i) \X (0..NINDIRECT - 1) : ptr[y[1]][y[2]] # 0}}
Truncating(i) == \E p \in Proc : w[p].pc = "trunc" /\ ip(p) = i

(* A block is marked in the bitmap exactly if one inode has it, in one     *)
(* place, so that files do not share or lose blocks and bfree never finds  *)
(* a free block; the indirect block that itrunc is in the middle of may    *)
(* still name blocks already freed, and taken by others.                   *)
BlocksOwned ==
  \A i \in Inode : ~Truncating(i) =>
    /\ Owned(i) \subseteq used
    /\ Cardinality(Owned(i)) = Cardinality(Slots(i))
    /\ \A j \in Inode \ {i} : ~Truncating(j) => Owned(i) \cap Owned(j) = {}
    /\ (\A j \in Inode : ~Truncating(j)) => used = UNION {Owned(j) : j \in Inode}

(* When no call is at work on an inode, its size and block map on disk are *)
(* those in memory, although writei calls iupdate only for a file that has *)
(* grown: a crash after the commit loses no block of it.                   *)
InodeOnDisk ==
  \A i \in Inode : lock[i] = NoProc => daddrs[i] = addrs[i] /\ dsize[i] = size[i]

Pieces == UNION {{SubSeq(s, a, b) : a, b \in 1..Len(s)} : s \in Str}

BF == INSTANCE ByteFile WITH
  File <- Inode, FileOf <- InodeOf, Data <- Pieces, Limit <- MAXFILE * BSIZE,
  content <- [i \in Inode |-> IF lock[i] = NoProc THEN Contents(i) ELSE saved[i]]

(* Files are sequences of bytes: every transaction of filewrite is one     *)
(* write at the offset, all of it or nothing, over however many blocks and *)
(* beside whatever the other processes do; reads move the offset by the    *)
(* bytes that are there.                                                   *)
ByteFileSpec == BF!Spec

(* "write a few blocks at a time to avoid exceeding the maximum log        *)
(* transaction size" (file.c:127): a transaction alone in the log never    *)
(* meets the panic of log_write, which keeps the blocks below LOGSIZE - 1, *)
(* whatever the alignment and however many blocks are allocated.  The      *)
(* inode comes last, on top of what is logged, when writei or itrunc ends. *)
RoundFitsLog == \A p \in Proc : Cardinality(logged[p]) + 1 <= LOGSIZE - 1

(* "max # of blocks any FS op writes" (param.h:10): no transaction logs    *)
(* more blocks than begin_op has reserved for it.  With LOGSIZE =          *)
(* 3 * MAXOPBLOCKS a round of filewrite may.                               *)
FitsReservation == \A p \in Proc : Cardinality(logged[p]) + 1 <= MAXOPBLOCKS

=============================================================================
